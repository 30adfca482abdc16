----------------------------- MODULE InterfaceProofs -----------------------------
(***************************************************************************)
(* For any transactions, keys, blocks and pages: the list of the main      *)
(* window misses nothing, is sorted, and has every line where it belongs,  *)
(* while the wallet and the chain change between any two steps of the      *)
(* window's thread; the amounts of balance, reports and window agree; and  *)
(* the two threads of a payment to an IP address keep their promises.      *)
(***************************************************************************)
EXTENDS WalletList, SendingDialog, FiniteSetTheorems, SequenceTheorems, WellFoundedInduction, TLAPS

-----------------------------------------------------------------------------
(* Numbers, and functions that are defined from one number to the next.    *)

\* A set of numbers that has none without a smaller one is empty.
LEMMA NoSmallest ==
    ASSUME NEW Bad \in SUBSET Nat, \A n \in Bad : \E k \in Bad : k < n
    PROVE  Bad = {}
<1> SUFFICES ASSUME Bad # {} PROVE FALSE
  OBVIOUS
<1>1. \E n \in Bad : \A k \in Bad : ~(<<k, n>> \in OpToRel(<, Nat))
  BY NatLessThanWellFounded, WFMin
<1>2. \A k, n \in Nat : k < n => <<k, n>> \in OpToRel(<, Nat)
  BY DEF OpToRel
<1> QED
  BY <1>1, <1>2

\* What holds of 0 and of the next whenever it holds of one holds of all.
LEMMA OneByOne ==
    ASSUME NEW n \in Nat, NEW P, 0 \in P, \A k \in 1 .. n : k - 1 \in P => k \in P
    PROVE  \A k \in 0 .. n : k \in P
<1> DEFINE Bad == {k \in 0 .. n : k \notin P}
<1>1. ASSUME NEW k \in Bad PROVE \E j \in Bad : j < k
  <2>1. k \in 1 .. n /\ k - 1 \in 0 .. n /\ k - 1 < k
    BY <1>1
  <2>2. k - 1 \notin P
    BY <1>1, <2>1
  <2> QED
    BY <2>1, <2>2
<1>2. Bad \in SUBSET Nat
  OBVIOUS
<1>3. Bad = {}
  <2> HIDE DEF Bad
  <2> QED
    BY <1>1, <1>2, NoSmallest
<1> QED
  BY <1>3

Follow(f, n, A, a, G) ==
    f \in [0 .. n -> A] /\ f[0] = a /\ \A k \in 1 .. n : f[k] = G[k][f[k - 1]]

\* A function of 0 .. n may be defined by its value at 0 and the step to each next.
LEMMA StepByStep ==
    ASSUME NEW n \in Nat, NEW A, NEW a \in A, NEW G \in [1 .. n -> [A -> A]]
    PROVE  \E f : Follow(f, n, A, a, G)
<1> DEFINE Starts(f, m) == f[0] = a /\ \A k \in 1 .. m : f[k] = G[k][f[k - 1]]
           Good == {m \in 0 .. n : \E f \in [0 .. m -> A] : Starts(f, m)}
<1>1. 0 \in Good
  <2> DEFINE f == [k \in 0 .. 0 |-> a]
  <2>1. f \in [0 .. 0 -> A] /\ f[0] = a /\ \A k \in 1 .. 0 : FALSE
    OBVIOUS
  <2>2. Starts(f, 0)
    BY <2>1
  <2> HIDE DEF f
  <2> QED
    BY <2>1, <2>2
<1>2. ASSUME NEW m \in 1 .. n, m - 1 \in Good PROVE m \in Good
  <2>1. PICK f \in [0 .. (m - 1) -> A] : Starts(f, m - 1)
    BY <1>2
  <2>2. m - 1 \in 0 .. (m - 1) /\ f[m - 1] \in A
    BY <1>2
  <2> DEFINE last == G[m][f[m - 1]]
             g == [k \in 0 .. m |-> IF k = m THEN last ELSE f[k]]
  <2>3. last \in A
    BY <1>2, <2>2
  <2> HIDE DEF last
  <2>4. g \in [0 .. m -> A]
    <3>1. \A k \in 0 .. m : k # m => k \in 0 .. (m - 1)
      OBVIOUS
    <3> QED
      BY <2>3, <3>1
  <2>5. g[0] = a /\ \A k \in 0 .. (m - 1) : g[k] = f[k]
    BY <2>1
  <2>6. g[m] = last
    BY <1>2
  <2> HIDE DEF g
  <2>7. ASSUME NEW k \in 1 .. m PROVE g[k] = G[k][g[k - 1]]
    <3>1. k - 1 \in 0 .. (m - 1) /\ g[k - 1] = f[k - 1]
      BY <2>5
    <3>2. CASE k = m
      BY <2>6, <3>1, <3>2 DEF last
    <3>3. CASE k # m
      <4>1. k \in 1 .. (m - 1) /\ k \in 0 .. (m - 1)
        BY <3>3
      <4> QED
        BY <2>1, <2>5, <3>1, <4>1
    <3> QED
      BY <3>2, <3>3
  <2>8. Starts(g, m)
    BY <2>5, <2>7
  <2>9. \E h \in [0 .. m -> A] : Starts(h, m)
    <3> HIDE DEF Starts
    <3> QED
      BY <2>4, <2>8
  <2>10. m \in 0 .. n
    OBVIOUS
  <2> HIDE DEF Starts
  <2> QED
    BY <2>9, <2>10
<1>3. n \in Good
  <2> HIDE DEF Good
  <2>1. \A k \in 0 .. n : k \in Good
    BY <1>1, <1>2, OneByOne
  <2> QED
    BY <2>1
<1> QED
  BY <1>3 DEF Follow

\* A set of numbers that has all below each of its members is an interval.
LEMMA Beginning ==
    ASSUME NEW n \in Nat, NEW S \in SUBSET (1 .. n), \A i, j \in 1 .. n : i < j /\ j \in S => i \in S
    PROVE  Cardinality(S) \in 0 .. n /\ S = 1 .. Cardinality(S)
<1> DEFINE Rest == (1 .. (n + 1)) \ S
<1>1. PICK m \in Rest : \A k \in Rest : ~(k < m)
  <2>1. n + 1 \in Rest /\ Rest \in SUBSET Nat
    OBVIOUS
  <2> HIDE DEF Rest
  <2> QED
    BY <2>1, NoSmallest
<1>2. m - 1 \in 0 .. n /\ \A i \in 1 .. (m - 1) : i \in S
  <2>1. \A i \in 1 .. (m - 1) : i < m /\ i \in 1 .. (n + 1)
    OBVIOUS
  <2> QED
    BY <1>1, <2>1
<1>3. \A i \in S : i \in 1 .. (m - 1)
  <2> SUFFICES ASSUME NEW i \in S, ~(i < m) PROVE FALSE
    OBVIOUS
  <2>1. m < i /\ m \in 1 .. n
    BY <1>1
  <2> QED
    BY <1>1, <2>1
<1>4. S = 1 .. (m - 1)
  BY <1>2, <1>3
<1>5. Cardinality(1 .. (m - 1)) = m - 1
  BY <1>2, FS_Interval
<1> QED
  BY <1>2, <1>4, <1>5

\* A set of numbers with at most two members.
LEMMA AtMostTwo ==
    ASSUME NEW S \in SUBSET Nat, IsFiniteSet(S), Cardinality(S) <= 2, S # {}
    PROVE  \E a, b \in S : a <= b /\ S = {a, b}
<1>1. PICK x \in S : TRUE
  OBVIOUS
<1>2. IsFiniteSet(S \ {x}) /\ Cardinality(S \ {x}) = Cardinality(S) - 1
  BY FS_RemoveElement
<1>3. Cardinality(S \ {x}) \in Nat /\ Cardinality(S) \in Nat
  BY <1>2, FS_CardinalityType
<1>4. CASE Cardinality(S \ {x}) = 0
  <2>1. S \ {x} = {}
    BY <1>2, <1>4, FS_EmptySet
  <2>2. \A y \in S : y = x
    BY <2>1
  <2>3. S = {x, x} /\ x \in Nat
    BY <1>1, <2>2
  <2> QED
    BY <1>1, <2>3
<1>5. CASE Cardinality(S \ {x}) = 1
  <2>1. PICK y : S \ {x} = {y}
    BY <1>2, <1>5, FS_Singleton
  <2>2. y \in S /\ S = {x, y} /\ S = {y, x} /\ x \in Nat /\ y \in Nat
    BY <2>1
  <2>3. CASE x <= y
    BY <2>2, <2>3
  <2>4. CASE y <= x
    BY <2>2, <2>4
  <2> QED
    BY <2>2, <2>3, <2>4
<1> QED
  BY <1>2, <1>3, <1>4, <1>5

-----------------------------------------------------------------------------
(* Lists of lines, sorted.                                                 *)

Line == [tx : Txs, height : Nat, out : Nat]
Ordered(list) == \A i, j \in DOMAIN list : i < j => ~Above(list[j], list[i])
List == {list \in Seq(Line) : Ordered(list)}

IsInserted(l, m, p, e) ==
    /\ m \in Seq(Line) /\ Len(m) = Len(l) + 1 /\ p \in 1 .. Len(m)
    /\ m[p] = e
    /\ \A i \in 1 .. Len(l) : i < p => m[i] = l[i]
    /\ \A i \in 1 .. Len(l) : i >= p => m[i + 1] = l[i]

IsRemoved(l, m, p) ==
    /\ m \in Seq(Line) /\ Len(l) = Len(m) + 1 /\ p \in 1 .. Len(l)
    /\ \A i \in 1 .. Len(m) : i < p => m[i] = l[i]
    /\ \A i \in 1 .. Len(m) : i >= p => m[i] = l[i + 1]

LEMMA InsertAtIs ==
    ASSUME NEW l \in Seq(Line), NEW e \in Line, NEW p \in 1 .. (Len(l) + 1)
    PROVE  IsInserted(l, InsertAt(l, p, e), p, e)
<1> DEFINE u == SubSeq(l, 1, p - 1)
           v == <<e>>
           w == SubSeq(l, p, Len(l))
<1>1. Len(l) \in Nat /\ \A i \in 1 .. Len(l) : l[i] \in Line
  BY ElementOfSeq
<1>2. u \in Seq(Line) /\ Len(u) = p - 1 /\ \A i \in 1 .. (p - 1) : u[i] = l[i]
  BY <1>1, SubSeqProperties
<1>3. w \in Seq(Line) /\ Len(w) = Len(l) + 1 - p /\ \A i \in 1 .. (Len(l) + 1 - p) : w[i] = l[p + i - 1]
  BY <1>1, SubSeqProperties
<1>4. v \in Seq(Line) /\ Len(v) = 1 /\ v[1] = e
  OBVIOUS
<1> HIDE DEF u, v, w
<1> DEFINE x == u \o v
<1>5. u \in Seq(Line) /\ v \in Seq(Line) /\ w \in Seq(Line)
  BY <1>2, <1>3, <1>4
<1>6. x \in Seq(Line) /\ Len(x) = p /\ x[p] = e /\ \A i \in 1 .. (p - 1) : x[i] = l[i]
  <2>1. /\ x \in Seq(Line) /\ Len(x) = Len(u) + Len(v)
        /\ \A i \in 1 .. Len(u) + Len(v) : x[i] = IF i <= Len(u) THEN u[i] ELSE v[i - Len(u)]
    BY <1>5, ConcatProperties
  <2> HIDE DEF x
  <2> QED
    BY <1>2, <1>4, <2>1
<1> HIDE DEF x
<1> DEFINE m == x \o w
<1>7. /\ m \in Seq(Line) /\ Len(m) = Len(l) + 1
      /\ \A i \in 1 .. (Len(l) + 1) : m[i] = IF i <= p THEN x[i] ELSE w[i - p]
  <2>1. x \in Seq(Line)
    BY <1>6
  <2>2. /\ m \in Seq(Line) /\ Len(m) = Len(x) + Len(w)
        /\ \A i \in 1 .. Len(x) + Len(w) : m[i] = IF i <= Len(x) THEN x[i] ELSE w[i - Len(x)]
    BY <1>5, <2>1, ConcatProperties
  <2> HIDE DEF m
  <2> QED
    BY <1>1, <1>3, <1>6, <2>2
<1>8. m = InsertAt(l, p, e)
  BY DEF InsertAt, m, x, u, v, w
<1> HIDE DEF m
<1>9. m[p] = e /\ \A i \in 1 .. Len(l) : i < p => m[i] = l[i]
  BY <1>1, <1>6, <1>7
<1>10. ASSUME NEW i \in 1 .. Len(l), i >= p PROVE m[i + 1] = l[i]
  <2> DEFINE j == i + 1 - p
  <2>1. m[i + 1] = w[j] /\ j \in 1 .. (Len(l) + 1 - p) /\ p + j - 1 = i
    BY <1>1, <1>7, <1>10
  <2> HIDE DEF j
  <2>2. w[j] = l[p + j - 1]
    BY <1>3, <2>1
  <2> QED
    BY <2>1, <2>2
<1> QED
  BY <1>1, <1>7, <1>8, <1>9, <1>10 DEF IsInserted

LEMMA RemoveAtIs ==
    ASSUME NEW l \in Seq(Line), NEW p \in 1 .. Len(l)
    PROVE  IsRemoved(l, RemoveAt(l, p), p)
<1> DEFINE u == SubSeq(l, 1, p - 1)
           w == SubSeq(l, p + 1, Len(l))
<1>1. Len(l) \in Nat /\ \A i \in 1 .. Len(l) : l[i] \in Line
  BY ElementOfSeq
<1>2. u \in Seq(Line) /\ Len(u) = p - 1 /\ \A i \in 1 .. (p - 1) : u[i] = l[i]
  BY <1>1, SubSeqProperties
<1>3. w \in Seq(Line) /\ Len(w) = Len(l) - p /\ \A i \in 1 .. (Len(l) - p) : w[i] = l[p + i]
  BY <1>1, SubSeqProperties
<1> HIDE DEF u, w
<1> DEFINE m == u \o w
<1>4. /\ m \in Seq(Line) /\ Len(m) = Len(l) - 1
      /\ \A i \in 1 .. (Len(l) - 1) : m[i] = IF i <= p - 1 THEN u[i] ELSE w[i - (p - 1)]
  <2>1. u \in Seq(Line) /\ w \in Seq(Line)
    BY <1>2, <1>3
  <2>2. /\ m \in Seq(Line) /\ Len(m) = Len(u) + Len(w)
        /\ \A i \in 1 .. Len(u) + Len(w) : m[i] = IF i <= Len(u) THEN u[i] ELSE w[i - Len(u)]
    BY <2>1, ConcatProperties
  <2> HIDE DEF m
  <2> QED
    BY <1>1, <1>2, <1>3, <2>2
<1>5. m = RemoveAt(l, p)
  BY DEF RemoveAt, m, u, w
<1> HIDE DEF m
<1>6. \A i \in 1 .. Len(m) : i < p => m[i] = l[i]
  BY <1>1, <1>2, <1>4
<1>7. ASSUME NEW i \in 1 .. Len(m), i >= p PROVE m[i] = l[i + 1]
  <2> DEFINE j == i - (p - 1)
  <2>1. i \in 1 .. (Len(l) - 1) /\ ~(i <= p - 1)
    BY <1>1, <1>4, <1>7
  <2>2. m[i] = w[j]
    BY <1>4, <2>1
  <2>3. j \in 1 .. (Len(l) - p) /\ p + j = i + 1
    BY <1>1, <2>1
  <2> HIDE DEF j
  <2>4. w[j] = l[p + j]
    BY <1>3, <2>3
  <2> QED
    BY <2>2, <2>3, <2>4
<1>8. IsRemoved(l, m, p)
  <2>1. m \in Seq(Line) /\ Len(l) = Len(m) + 1
    BY <1>1, <1>4
  <2> QED
    BY <1>6, <1>7, <2>1 DEF IsRemoved
<1> QED
  BY <1>5, <1>8

\* The key of one line against those of others: a total preorder.
LEMMA AboveOrder ==
    ASSUME NEW a \in Line, NEW b \in Line, NEW c \in Line
    PROVE  /\ ~Above(a, a)
           /\ Above(b, c) /\ ~Above(b, a) => Above(a, c)
           /\ ~Above(a, b) /\ ~Above(b, c) => ~Above(a, c)
  BY DEF Above, Line

\* A line goes below those that are above it; the list stays sorted.
LEMMA SortedIs ==
    ASSUME NEW l \in List, NEW e \in Line
    PROVE  Sorted(l, e) \in List /\ \E p \in Nat : IsInserted(l, Sorted(l, e), p, e)
<1> DEFINE S == {i \in DOMAIN l : Above(l[i], e)}
           p == 1 + Cardinality(S)
           m == Sorted(l, e)
<1>1. Len(l) \in Nat /\ DOMAIN l = 1 .. Len(l) /\ l \in Seq(Line) /\ \A i \in 1 .. Len(l) : l[i] \in Line
  BY ElementOfSeq, LenProperties DEF List
<1>2. ASSUME NEW i \in 1 .. Len(l), NEW j \in 1 .. Len(l), i < j PROVE ~Above(l[j], l[i])
  BY <1>1, <1>2 DEF List, Ordered
<1>3. \A i, j \in 1 .. Len(l) : i < j /\ j \in S => i \in S
  BY <1>1, <1>2, AboveOrder
<1>4. Cardinality(S) \in 0 .. Len(l) /\ S = 1 .. Cardinality(S)
  <2>1. S \in SUBSET (1 .. Len(l))
    BY <1>1
  <2> HIDE DEF S
  <2> QED
    BY <1>1, <1>3, <2>1, Beginning
<1>5. p \in 1 .. (Len(l) + 1) /\ \A i \in 1 .. Len(l) : (i < p <=> Above(l[i], e))
  <2>1. \A i \in 1 .. Len(l) : i \in S <=> Above(l[i], e)
    BY <1>1
  <2> HIDE DEF S
  <2> QED
    BY <1>1, <1>4, <2>1
<1>6. m = InsertAt(l, p, e)
  BY DEF Sorted, GetSortIndex
<1> HIDE DEF p, m, S
<1>7. IsInserted(l, m, p, e)
  BY <1>1, <1>5, <1>6, InsertAtIs
<1> DEFINE Old(i) == IF i < p THEN i ELSE i - 1
<1>8. ASSUME NEW i \in 1 .. Len(m), i # p PROVE Old(i) \in 1 .. Len(l) /\ m[i] = l[Old(i)] /\ (Old(i) < p <=> i < p)
  <2>1. CASE i < p
    BY <1>1, <1>5, <1>7, <2>1 DEF IsInserted
  <2>2. CASE i > p
    <3>1. i - 1 \in 1 .. Len(l) /\ i - 1 >= p /\ (i - 1) + 1 = i
      BY <1>1, <1>5, <1>7, <2>2 DEF IsInserted
    <3>2. m[(i - 1) + 1] = l[i - 1]
      BY <1>7, <3>1 DEF IsInserted
    <3> QED
      BY <1>5, <2>2, <3>1, <3>2
  <2> QED
    BY <1>1, <1>5, <1>7, <1>8, <2>1, <2>2 DEF IsInserted
<1>9. ASSUME NEW i \in 1 .. Len(m), NEW j \in 1 .. Len(m), i < j PROVE ~Above(m[j], m[i])
  <2>1. CASE i = p
    <3>1. j # p /\ ~(j < p)
      BY <1>5, <1>9, <2>1
    <3>2. Old(j) \in 1 .. Len(l) /\ m[j] = l[Old(j)] /\ ~(Old(j) < p)
      BY <1>8, <3>1
    <3> HIDE DEF Old
    <3>3. m[i] = e /\ ~Above(l[Old(j)], e)
      BY <1>5, <1>7, <2>1, <3>2 DEF IsInserted
    <3> QED
      BY <3>2, <3>3
  <2>2. CASE j = p
    <3>1. i # p /\ i < p
      BY <1>9, <2>2
    <3>2. Old(i) \in 1 .. Len(l) /\ m[i] = l[Old(i)] /\ Old(i) < p
      BY <1>8, <3>1
    <3> HIDE DEF Old
    <3>3. m[j] = e /\ Above(l[Old(i)], e) /\ l[Old(i)] \in Line
      BY <1>1, <1>5, <1>7, <2>2, <3>2 DEF IsInserted
    <3>4. ~Above(e, l[Old(i)])
      BY <3>3 DEF Above, Line
    <3> QED
      BY <3>2, <3>3, <3>4
  <2>3. CASE i # p /\ j # p
    <3>1. Old(i) \in 1 .. Len(l) /\ m[i] = l[Old(i)] /\ Old(j) \in 1 .. Len(l) /\ m[j] = l[Old(j)]
      BY <1>8, <2>3
    <3>2. Old(i) < Old(j)
      BY <1>5, <1>9, <2>3
    <3> HIDE DEF Old
    <3> QED
      BY <1>2, <3>1, <3>2
  <2> QED
    BY <2>1, <2>2, <2>3
<1>10. m \in List
  <2>1. m \in Seq(Line) /\ DOMAIN m = 1 .. Len(m)
    BY <1>7, LenProperties DEF IsInserted
  <2> QED
    BY <1>9, <2>1 DEF List, Ordered
<1> QED
  BY <1>5, <1>7, <1>10 DEF m

\* To remove a line leaves the list sorted.
LEMMA RemovedOrdered ==
    ASSUME NEW l \in List, NEW m, NEW p, IsRemoved(l, m, p)
    PROVE  m \in List
<1> DEFINE Old(i) == IF i < p THEN i ELSE i + 1
<1>1. /\ Len(l) \in Nat /\ DOMAIN l = 1 .. Len(l) /\ m \in Seq(Line)
      /\ Len(m) \in Nat /\ DOMAIN m = 1 .. Len(m) /\ p \in 1 .. Len(l) /\ Len(l) = Len(m) + 1
  BY LenProperties DEF List, IsRemoved
<1>2. \A i \in 1 .. Len(m) : Old(i) \in 1 .. Len(l) /\ m[i] = l[Old(i)]
  BY <1>1 DEF IsRemoved
<1>3. \A i, j \in 1 .. Len(m) : i < j => Old(i) < Old(j)
  BY <1>1
<1> HIDE DEF Old
<1>4. \A i, j \in 1 .. Len(m) : i < j => ~Above(m[j], m[i])
  BY <1>1, <1>2, <1>3 DEF List, Ordered
<1> QED
  BY <1>1, <1>4 DEF List, Ordered

\* What becomes of the lines of a transaction when that at f goes and that at p comes: all
\* others are there before and after, in the same order.
From(l, m, x, f, p) ==
    /\ \A i \in LinesIn(m, x) \ {p} : \E g \in LinesIn(l, x) \ {f} : m[i] = l[g]
    /\ \A i, j \in LinesIn(m, x) \ {p} : i < j =>
          \E g, h \in LinesIn(l, x) \ {f} : g < h /\ m[i] = l[g] /\ m[j] = l[h]
    /\ \A g \in LinesIn(l, x) \ {f} : \E i \in LinesIn(m, x) \ {p} : m[i] = l[g]

Kept(l, m, x) == From(l, m, x, 0, 0)

LEMMA LinesInIs ==
    ASSUME NEW l \in Seq(Line), NEW x
    PROVE  /\ Len(l) \in Nat /\ 0 \notin LinesIn(l, x)
           /\ \A i : i \in LinesIn(l, x) <=> i \in 1 .. Len(l) /\ l[i].tx = x
           /\ \A i \in LinesIn(l, x) : i \in Nat /\ l[i] \in Line
<1>1. Len(l) \in Nat /\ DOMAIN l = 1 .. Len(l) /\ \A i \in 1 .. Len(l) : l[i] \in Line
  BY ElementOfSeq, LenProperties
<1> QED
  BY <1>1 DEF LinesIn

LEMMA InsertedFrom ==
    ASSUME NEW l \in Seq(Line), NEW m, NEW p, NEW e, NEW x, IsInserted(l, m, p, e)
    PROVE  From(l, m, x, 0, p)
<1> DEFINE Old(i) == IF i < p THEN i ELSE i - 1
           New(i) == IF i < p THEN i ELSE i + 1
<1>1. /\ m \in Seq(Line) /\ Len(l) \in Nat /\ Len(m) = Len(l) + 1 /\ p \in 1 .. Len(m)
      /\ \A i : i \in LinesIn(l, x) <=> i \in 1 .. Len(l) /\ l[i].tx = x
      /\ \A i : i \in LinesIn(m, x) <=> i \in 1 .. Len(m) /\ m[i].tx = x
  BY LinesInIs DEF IsInserted
<1>2. ASSUME NEW i \in 1 .. Len(l)
      PROVE  New(i) \in 1 .. Len(m) /\ New(i) # p /\ m[New(i)] = l[i]
  BY <1>1 DEF IsInserted
<1>3. ASSUME NEW i \in 1 .. Len(m), i # p
      PROVE  Old(i) \in 1 .. Len(l) /\ m[i] = l[Old(i)]
  <2>1. CASE i < p
    BY <1>1, <2>1 DEF IsInserted
  <2>2. CASE i > p
    <3>1. i - 1 \in 1 .. Len(l) /\ i - 1 >= p /\ (i - 1) + 1 = i
      BY <1>1, <2>2
    <3>2. m[(i - 1) + 1] = l[i - 1]
      BY <3>1 DEF IsInserted
    <3> QED
      BY <1>1, <2>2, <3>1, <3>2
  <2> QED
    BY <1>1, <1>3, <2>1, <2>2
<1>4. \A i, j \in 1 .. Len(m) : i < j /\ i # p /\ j # p => Old(i) < Old(j)
  BY <1>1
<1>5. \A i \in LinesIn(m, x) \ {p} : Old(i) \in LinesIn(l, x) \ {0} /\ m[i] = l[Old(i)]
  <2> HIDE DEF Old
  <2>1. 0 \notin 1 .. Len(l)
    BY <1>1
  <2> QED
    BY <1>1, <1>3, <2>1
<1>6. \A i \in LinesIn(l, x) \ {0} : New(i) \in LinesIn(m, x) \ {p} /\ m[New(i)] = l[i]
  <2> HIDE DEF New
  <2> QED
    BY <1>1, <1>2
<1>7. \A i, j \in LinesIn(m, x) \ {p} : i < j => Old(i) < Old(j)
  <2> HIDE DEF Old
  <2> QED
    BY <1>1, <1>4
<1> HIDE DEF Old, New
<1> QED
  BY <1>5, <1>6, <1>7 DEF From

LEMMA RemovedFrom ==
    ASSUME NEW l \in Seq(Line), NEW m, NEW p, NEW x, IsRemoved(l, m, p)
    PROVE  From(l, m, x, p, 0)
<1> DEFINE Old(i) == IF i < p THEN i ELSE i + 1
           New(i) == IF i < p THEN i ELSE i - 1
<1>1. /\ m \in Seq(Line) /\ Len(m) \in Nat /\ Len(l) = Len(m) + 1 /\ p \in 1 .. Len(l)
      /\ \A i : i \in LinesIn(l, x) <=> i \in 1 .. Len(l) /\ l[i].tx = x
      /\ \A i : i \in LinesIn(m, x) <=> i \in 1 .. Len(m) /\ m[i].tx = x
  BY LinesInIs DEF IsRemoved
<1>2. ASSUME NEW i \in 1 .. Len(m)
      PROVE  Old(i) \in 1 .. Len(l) /\ Old(i) # p /\ m[i] = l[Old(i)]
  BY <1>1 DEF IsRemoved
<1>3. ASSUME NEW i \in 1 .. Len(l), i # p
      PROVE  New(i) \in 1 .. Len(m) /\ m[New(i)] = l[i]
  <2>1. CASE i < p
    BY <1>1, <2>1 DEF IsRemoved
  <2>2. CASE i > p
    <3>1. i - 1 \in 1 .. Len(m) /\ i - 1 >= p /\ (i - 1) + 1 = i
      BY <1>1, <2>2
    <3>2. m[i - 1] = l[(i - 1) + 1]
      BY <3>1 DEF IsRemoved
    <3> QED
      BY <1>1, <2>2, <3>1, <3>2
  <2> QED
    BY <1>1, <1>3, <2>1, <2>2
<1>4. \A i, j \in 1 .. Len(m) : i < j => Old(i) < Old(j)
  BY <1>1
<1>5. \A i \in LinesIn(m, x) \ {0} : Old(i) \in LinesIn(l, x) \ {p} /\ m[i] = l[Old(i)]
  <2> HIDE DEF Old
  <2> QED
    BY <1>1, <1>2
<1>6. \A i \in LinesIn(l, x) \ {p} : New(i) \in LinesIn(m, x) \ {0} /\ m[New(i)] = l[i]
  <2> HIDE DEF New
  <2>1. 0 \notin 1 .. Len(m)
    BY <1>1
  <2> QED
    BY <1>1, <1>3, <2>1
<1>7. \A i, j \in LinesIn(m, x) \ {0} : i < j => Old(i) < Old(j)
  <2> HIDE DEF Old
  <2> QED
    BY <1>1, <1>4
<1> HIDE DEF Old, New
<1> QED
  BY <1>5, <1>6, <1>7 DEF From

\* One step after the other.
LEMMA FromFrom ==
    ASSUME NEW k \in Seq(Line), NEW l, NEW m, NEW x, NEW f, NEW p,
           From(l, k, x, f, 0), From(k, m, x, 0, p)
    PROVE  From(l, m, x, f, p)
<1>1. LinesIn(k, x) \ {0} = LinesIn(k, x)
  BY LinesInIs
<1>2. \A i \in LinesIn(m, x) \ {p} : \E g \in LinesIn(l, x) \ {f} : m[i] = l[g]
  BY <1>1 DEF From
<1>3. ASSUME NEW i \in LinesIn(m, x) \ {p}, NEW j \in LinesIn(m, x) \ {p}, i < j
      PROVE  \E g, h \in LinesIn(l, x) \ {f} : g < h /\ m[i] = l[g] /\ m[j] = l[h]
  <2>1. PICK g \in LinesIn(k, x) \ {0}, h \in LinesIn(k, x) \ {0} : g < h /\ m[i] = k[g] /\ m[j] = k[h]
    BY <1>3 DEF From
  <2> QED
    BY <2>1 DEF From
<1>4. \A g \in LinesIn(l, x) \ {f} : \E i \in LinesIn(m, x) \ {p} : m[i] = l[g]
  BY <1>1 DEF From
<1> QED
  BY <1>2, <1>3, <1>4 DEF From

\* Of another transaction no line goes or comes.
LEMMA OthersKept ==
    ASSUME NEW l \in Seq(Line), NEW m \in Seq(Line), NEW x, NEW f, NEW p,
           f \notin LinesIn(l, x), p \notin LinesIn(m, x), From(l, m, x, f, p)
    PROVE  Kept(l, m, x)
<1>1. LinesIn(l, x) \ {0} = LinesIn(l, x) \ {f} /\ LinesIn(m, x) \ {0} = LinesIn(m, x) \ {p}
  BY LinesInIs
<1> QED
  BY <1>1 DEF Kept, From

LEMMA KeptSame == ASSUME NEW l, NEW x PROVE Kept(l, l, x)
  BY DEF Kept, From

LEMMA KeptKept ==
    ASSUME NEW k \in Seq(Line), NEW l, NEW m, NEW x, Kept(l, k, x), Kept(k, m, x)
    PROVE  Kept(l, m, x)
  BY FromFrom DEF Kept

LEMMA FindIs ==
    ASSUME NEW l \in Seq(Line), NEW t
    PROVE  IF LinesIn(l, t) = {} THEN Find(l, t) = 0
           ELSE Find(l, t) \in LinesIn(l, t) /\ \A i \in LinesIn(l, t) : Find(l, t) <= i
<1> DEFINE S == LinesIn(l, t)
<1>1. S \in SUBSET Nat
  BY LinesInIs
<1>2. CASE S # {}
  <2> HIDE DEF S
  <2>1. \E x \in S : \A y \in S : ~(y < x)
    BY <1>1, <1>2, NoSmallest
  <2>2. \E x \in S : \A y \in S : x <= y
    BY <1>1, <2>1
  <2>3. Min(S) \in S /\ \A y \in S : Min(S) <= y
    BY <2>2 DEF Min
  <2> QED
    BY <1>2, <2>3 DEF Find, S
<1> QED
  BY <1>2 DEF Find

\* InsertLine: the line is in its place, in place of the one that was found, if any.
LEMMA InsertLineIs ==
    ASSUME NEW l \in List, NEW e \in Line, NEW fNew \in BOOLEAN, NEW nIndex \in {0} \cup LinesIn(l, e.tx),
           NEW f, f = IF fNew \/ nIndex # 0 THEN nIndex ELSE Find(l, e.tx)
    PROVE  LET m == InsertLine(l, e, fNew, nIndex)
           IN  m \in List /\ \E p \in LinesIn(m, e.tx) : m[p] = e /\ \A x : From(l, m, x, f, p)
<1> DEFINE m == InsertLine(l, e, fNew, nIndex)
<1>1. l \in Seq(Line)
  BY DEF List
<1>2. f \in {0} \cup LinesIn(l, e.tx)
  BY <1>1, FindIs
<1>3. CASE f = 0
  <2>1. m = Sorted(l, e)
    BY <1>3 DEF InsertLine
  <2> HIDE DEF m
  <2>2. m \in List /\ \E p \in Nat : IsInserted(l, m, p, e)
    BY <2>1, SortedIs
  <2>3. PICK p : IsInserted(l, m, p, e)
    BY <2>2
  <2>4. \A x : From(l, m, x, 0, p)
    BY <1>1, <2>3, InsertedFrom
  <2>5. m \in Seq(Line) /\ p \in 1 .. Len(m) /\ m[p] = e
    BY <2>3 DEF IsInserted
  <2>6. p \in LinesIn(m, e.tx)
    BY <2>5, LinesInIs
  <2> QED
    BY <1>3, <2>2, <2>4, <2>5, <2>6 DEF m
<1>4. CASE f # 0 /\ SameKey(l[f], e)
  <2>1. m = l
    BY <1>4 DEF InsertLine
  <2>2. f \in LinesIn(l, e.tx) /\ l[f] \in Line /\ l[f].tx = e.tx
    BY <1>1, <1>2, <1>4, LinesInIs
  <2>3. l[f] = e
    BY <1>4, <2>2 DEF Line, SameKey
  <2>4. \A x : From(l, l, x, f, f)
    BY DEF From
  <2> HIDE DEF m
  <2> QED
    BY <2>1, <2>2, <2>3, <2>4 DEF m
<1>5. CASE f # 0 /\ ~SameKey(l[f], e)
  <2> DEFINE k == RemoveAt(l, f)
  <2>1. m = Sorted(k, e)
    BY <1>5 DEF InsertLine
  <2>2. f \in 1 .. Len(l)
    BY <1>1, <1>2, <1>5, LinesInIs
  <2>3. IsRemoved(l, k, f)
    BY <1>1, <2>2, RemoveAtIs
  <2> HIDE DEF k, m
  <2>4. k \in List /\ k \in Seq(Line)
    BY <2>3, RemovedOrdered DEF List
  <2>5. m \in List /\ \E p \in Nat : IsInserted(k, m, p, e)
    BY <2>1, <2>4, SortedIs
  <2>6. PICK p : IsInserted(k, m, p, e)
    BY <2>5
  <2>7. \A x : From(l, k, x, f, 0) /\ From(k, m, x, 0, p)
    BY <1>1, <2>3, <2>4, <2>6, InsertedFrom, RemovedFrom
  <2>8. \A x : From(l, m, x, f, p)
    BY <2>4, <2>7, FromFrom
  <2>9. m \in Seq(Line) /\ p \in 1 .. Len(m) /\ m[p] = e
    BY <2>6 DEF IsInserted
  <2>10. p \in LinesIn(m, e.tx)
    BY <2>9, LinesInIs
  <2> QED
    BY <2>5, <2>8, <2>9, <2>10 DEF m
<1> QED
  BY <1>3, <1>4, <1>5

-----------------------------------------------------------------------------
(* InsertTransaction: a line for each output that is shown.                *)

Put(l, t, k, fNew, nIndex) ==
    IF k \in OutsShown(t) THEN InsertLine(l, strSort(t, k), fNew, nIndex) ELSE l
Puts(f, l, t, fNew, nIndex) ==
    f = [k \in 0 .. Len(Out[t]) |-> Put(IF k = 0 THEN l ELSE f[k - 1], t, k, fNew, nIndex)]

LEMMA InsertTransactionPuts ==
    ASSUME NEW l, NEW t, NEW fNew, NEW nIndex
    PROVE  InsertTransaction(l, t, fNew, nIndex) =
              IF Filtered(t) THEN l
              ELSE (CHOOSE f : Puts(f, l, t, fNew, nIndex))[Len(Out[t])]
  BY DEF InsertTransaction, Puts, Put

\* What is shown can be shown.
Showable(t) ==
    /\ t \in Txs /\ Len(Out[t]) \in Nat
    /\ OutsShown(t) \subseteq 0 .. Len(Out[t]) /\ OutsShown(t) # {}
    /\ \A k \in Nat : strSort(t, k) \in Line

\* Any number of lines is looked for, or one line is given.
Given(l, t, fNew, nIndex) ==
    /\ fNew \in BOOLEAN
    /\ nIndex = 0 \/ (OutsShown(t) = {0} /\ nIndex \in LinesIn(l, t) /\ ~fNew)

LEMMA KeyOf == ASSUME NEW t, NEW k PROVE strSort(t, k).tx = t /\ strSort(t, k).out = k
  BY DEF strSort

\* One put: the lines of others are kept.
LEMMA PutIs ==
    ASSUME NEW t, NEW l \in List, NEW k \in Nat, NEW fNew, NEW nIndex,
           Showable(t), Given(l, t, fNew, nIndex), k = 0 \/ nIndex = 0 \/ k \notin OutsShown(t),
           \A i \in LinesIn(l, t) : l[i].out \in OutsShown(t)
    PROVE  LET m == Put(l, t, k, fNew, nIndex)
           IN  /\ m \in List
               /\ \A x : x # t => Kept(l, m, x)
               /\ \A i \in LinesIn(m, t) : m[i].out \in OutsShown(t)
               /\ k \in OutsShown(t) \/ LinesIn(l, t) # {} => LinesIn(m, t) # {}
<1> DEFINE m == Put(l, t, k, fNew, nIndex)
<1>1. CASE k \notin OutsShown(t)
  <2>1. m = l
    BY <1>1 DEF Put
  <2> QED
    BY <1>1, <2>1, KeptSame
<1>2. CASE k \in OutsShown(t)
  <2> DEFINE e == strSort(t, k)
             f == IF fNew \/ nIndex # 0 THEN nIndex ELSE Find(l, t)
  <2>1. m = InsertLine(l, e, fNew, nIndex)
    BY <1>2 DEF Put
  <2>2. e \in Line /\ e.tx = t /\ e.out = k
    BY KeyOf DEF Showable
  <2>3. fNew \in BOOLEAN /\ nIndex \in {0} \cup LinesIn(l, e.tx)
    BY <2>2 DEF Given
  <2>4. f = IF fNew \/ nIndex # 0 THEN nIndex ELSE Find(l, e.tx)
    BY <2>2
  <2> HIDE DEF e, m, f
  <2>5. m \in List /\ \E p \in LinesIn(m, e.tx) : m[p] = e /\ \A x : From(l, m, x, f, p)
    BY <2>1, <2>2, <2>3, <2>4, InsertLineIs
  <2>6. PICK p \in LinesIn(m, t) : m[p] = e /\ \A x : From(l, m, x, f, p)
    BY <2>2, <2>5
  <2>7. l \in Seq(Line) /\ m \in Seq(Line)
    BY <2>5 DEF List
  <2>8. f \in {0} \cup LinesIn(l, t)
    BY <2>2, <2>3, <2>7, FindIs DEF f
  <2>9. ASSUME NEW x, x # t PROVE Kept(l, m, x)
    <3>1. f \notin LinesIn(l, x) /\ p \notin LinesIn(m, x)
      BY <2>6, <2>7, <2>8, <2>9, LinesInIs
    <3> QED
      BY <2>6, <2>7, <3>1, OthersKept
  <2>10. ASSUME NEW i \in LinesIn(m, t) PROVE m[i].out \in OutsShown(t)
    <3>1. CASE i = p
      BY <1>2, <2>2, <2>6, <3>1
    <3>2. CASE i # p
      <4>1. \E g \in LinesIn(l, t) : m[i] = l[g]
        BY <2>6, <3>2 DEF From
      <4> QED
        BY <4>1
    <3> QED
      BY <3>1, <3>2
  <2> QED
    BY <2>5, <2>6, <2>9, <2>10 DEF m
<1> QED
  BY <1>1, <1>2

\* The list before each output, from first to last.
Stages(f, l, t, fNew, nIndex) ==
    /\ f[0] = Put(l, t, 0, fNew, nIndex)
    /\ \A k \in 1 .. Len(Out[t]) : f[k] = Put(f[k - 1], t, k, fNew, nIndex)
    /\ \A k \in 0 .. Len(Out[t]) : f[k] \in List

\* A put on a sorted list gives one.
LEMMA PutList ==
    ASSUME NEW t, NEW l \in List, NEW k \in Nat, NEW fNew, NEW nIndex,
           Showable(t), Given(l, t, fNew, nIndex)
    PROVE  Put(l, t, k, fNew, nIndex) \in List
<1>1. CASE k \notin OutsShown(t)
  BY <1>1 DEF Put
<1>2. CASE k \in OutsShown(t)
  <2> DEFINE e == strSort(t, k)
             f == IF fNew \/ nIndex # 0 THEN nIndex ELSE Find(l, e.tx)
             m == InsertLine(l, e, fNew, nIndex)
  <2>1. Put(l, t, k, fNew, nIndex) = m
    BY <1>2 DEF Put
  <2>2. e \in Line /\ fNew \in BOOLEAN /\ nIndex \in {0} \cup LinesIn(l, e.tx)
    BY KeyOf DEF Given, Showable
  <2>3. f = IF fNew \/ nIndex # 0 THEN nIndex ELSE Find(l, e.tx)
    OBVIOUS
  <2> HIDE DEF e, f
  <2>4. m \in List
    BY <2>2, <2>3, InsertLineIs
  <2> QED
    BY <2>1, <2>4
<1> QED
  BY <1>1, <1>2

LEMMA StagesExist ==
    ASSUME NEW t, NEW l \in List, NEW fNew, NEW nIndex,
           Showable(t), Given(l, t, fNew, nIndex), ~Filtered(t)
    PROVE  \E f : /\ Stages(f, l, t, fNew, nIndex)
                  /\ InsertTransaction(l, t, fNew, nIndex) = f[Len(Out[t])]
<1> DEFINE n == Len(Out[t])
           a == Put(l, t, 0, fNew, nIndex)
           G == [k \in 1 .. n |-> [s \in List |-> Put(s, t, k, fNew, nIndex)]]
<1>1. n \in Nat
  BY DEF Showable
<1>2. a \in List
  BY PutList
<1>3. ASSUME NEW k \in 1 .. n, NEW s \in List PROVE Put(s, t, k, fNew, nIndex) \in List
  <2>1. CASE nIndex = 0
    <3>1. Given(s, t, fNew, nIndex)
      BY <2>1 DEF Given
    <3> QED
      BY <3>1, PutList
  <2>2. CASE nIndex # 0
    <3>1. k \notin OutsShown(t)
      BY <2>2 DEF Given
    <3> QED
      BY <3>1 DEF Put
  <2> QED
    BY <2>1, <2>2
<1>4. G \in [1 .. n -> [List -> List]] /\ \A k \in 1 .. n, s \in List : G[k][s] = Put(s, t, k, fNew, nIndex)
  BY <1>3
<1> HIDE DEF G, a
<1>5. PICK g : Follow(g, n, List, a, G)
  <2>1. n \in Nat /\ a \in List /\ G \in [1 .. n -> [List -> List]]
    BY <1>1, <1>2, <1>4
  <2> HIDE DEF n
  <2> QED
    BY <2>1, StepByStep
<1> USE DEF Follow
<1>6. \E f : Puts(f, l, t, fNew, nIndex)
  <2>1. ASSUME NEW k \in 0 .. n PROVE g[k] = Put(IF k = 0 THEN l ELSE g[k - 1], t, k, fNew, nIndex)
    <3>1. CASE k = 0
      BY <1>5, <3>1 DEF a
    <3>2. CASE k # 0
      <4>1. k \in 1 .. n /\ k - 1 \in 0 .. n
        BY <1>1, <3>2
      <4>2. g[k - 1] \in List /\ g[k] = G[k][g[k - 1]]
        BY <1>5, <4>1
      <4> QED
        BY <1>4, <3>2, <4>1, <4>2
    <3> QED
      BY <3>1, <3>2
  <2>2. g = [k \in 0 .. n |-> g[k]]
    BY <1>5
  <2>3. g = [k \in 0 .. n |-> Put(IF k = 0 THEN l ELSE g[k - 1], t, k, fNew, nIndex)]
    BY <2>1, <2>2
  <2> QED
    BY <2>3 DEF Puts
<1> DEFINE f == CHOOSE f : Puts(f, l, t, fNew, nIndex)
<1>7. Puts(f, l, t, fNew, nIndex)
  BY <1>6
<1>8. InsertTransaction(l, t, fNew, nIndex) = f[n]
  BY InsertTransactionPuts
<1> HIDE DEF f
<1>9. \A k \in 0 .. n : f[k] = Put(IF k = 0 THEN l ELSE f[k - 1], t, k, fNew, nIndex)
  BY <1>7 DEF Puts
<1>10. f[0] = a /\ \A k \in 1 .. n : f[k] = Put(f[k - 1], t, k, fNew, nIndex)
  <2>1. 0 \in 0 .. n /\ \A k \in 1 .. n : k \in 0 .. n /\ k # 0
    BY <1>1
  <2> QED
    BY <1>9, <2>1 DEF a
<1>11. \A k \in 0 .. n : f[k] \in List
  <2> DEFINE P == {k \in 0 .. n : f[k] \in List}
  <2>1. 0 \in P
    BY <1>1, <1>2, <1>10
  <2>2. ASSUME NEW k \in 1 .. n, k - 1 \in P PROVE k \in P
    BY <1>1, <1>3, <1>10, <2>2
  <2> HIDE DEF P
  <2>3. \A k \in 0 .. n : k \in P
    BY <1>1, <2>1, <2>2, OneByOne
  <2> QED
    BY <2>3 DEF P
<1> QED
  BY <1>8, <1>10, <1>11 DEF Stages, a

\* At every stage: others keep their lines, and what has been shown has one.
LEMMA StagesKeep ==
    ASSUME NEW t, NEW l \in List, NEW fNew, NEW nIndex, NEW f,
           Showable(t), Given(l, t, fNew, nIndex), Stages(f, l, t, fNew, nIndex),
           \A i \in LinesIn(l, t) : l[i].out \in OutsShown(t)
    PROVE  LET m == f[Len(Out[t])]
           IN  /\ m \in List
               /\ \A x : x # t => Kept(l, m, x)
               /\ \A i \in LinesIn(m, t) : m[i].out \in OutsShown(t)
               /\ LinesIn(m, t) # {}
<1> DEFINE n == Len(Out[t])
           Good(m, k) == /\ \A x : x # t => Kept(l, m, x)
                         /\ \A i \in LinesIn(m, t) : m[i].out \in OutsShown(t)
                         /\ (\E j \in OutsShown(t) : j <= k) => LinesIn(m, t) # {}
           P == {k \in 0 .. n : Good(f[k], k)}
<1>1. n \in Nat /\ \A k \in 0 .. n : f[k] \in List /\ f[k] \in Seq(Line)
  BY DEF Showable, Stages, List
<1>2. 0 \in P
  <2>1. f[0] = Put(l, t, 0, fNew, nIndex)
    BY DEF Stages
  <2>2. \A j \in OutsShown(t) : j <= 0 => j = 0
    BY <1>1 DEF Showable
  <2>3. Good(f[0], 0)
    BY <2>1, <2>2, PutIs
  <2> QED
    BY <1>1, <2>3
<1>3. ASSUME NEW k \in 1 .. n, k - 1 \in P PROVE k \in P
  <2>1. f[k] = Put(f[k - 1], t, k, fNew, nIndex) /\ f[k - 1] \in List /\ k \in 0 .. n /\ k - 1 \in 0 .. n /\ k \in Nat /\ k # 0
    BY <1>1 DEF Stages
  <2>2. Good(f[k - 1], k - 1)
    BY <1>3
  <2>3. CASE nIndex # 0
    <3>1. k \notin OutsShown(t) /\ OutsShown(t) = {0}
      BY <2>1, <2>3 DEF Given
    <3>2. f[k] = f[k - 1]
      BY <2>1, <3>1 DEF Put
    <3>3. (\E j \in OutsShown(t) : j <= k - 1)
      BY <3>1
    <3> QED
      BY <2>1, <2>2, <3>2, <3>3
  <2>4. CASE nIndex = 0
    <3>1. Given(f[k - 1], t, fNew, nIndex)
      BY <2>4 DEF Given
    <3> DEFINE s == f[k - 1]
               m == Put(s, t, k, fNew, nIndex)
    <3>2. s \in List /\ \A i \in LinesIn(s, t) : s[i].out \in OutsShown(t)
      BY <2>1, <2>2
    <3>3. /\ m \in List
          /\ \A x : x # t => Kept(s, m, x)
          /\ \A i \in LinesIn(m, t) : m[i].out \in OutsShown(t)
          /\ k \in OutsShown(t) \/ LinesIn(s, t) # {} => LinesIn(m, t) # {}
      <4> HIDE DEF s
      <4> QED
        BY <2>1, <2>4, <3>1, <3>2, PutIs DEF s
    <3>4. \A x : x # t => Kept(l, s, x)
      BY <2>2
    <3>5. (\E j \in OutsShown(t) : j <= k - 1) => LinesIn(s, t) # {}
      BY <2>2
    <3>6. \A j \in OutsShown(t) : j <= k => j <= k - 1 \/ j = k
      BY <1>1, <2>1 DEF Showable
    <3>7. s \in Seq(Line)
      BY <1>1, <2>1
    <3>8. f[k] = m
      BY <2>1
    <3> HIDE DEF s, m
    <3>9. \A x : x # t => Kept(l, m, x)
      BY <3>3, <3>4, <3>7, KeptKept
    <3>10. (\E j \in OutsShown(t) : j <= k) => LinesIn(m, t) # {}
      BY <3>3, <3>5, <3>6
    <3> QED
      BY <2>1, <3>3, <3>8, <3>9, <3>10
  <2> QED
    BY <2>3, <2>4
<1>4. n \in P
  <2> HIDE DEF P
  <2>1. \A k \in 0 .. n : k \in P
    BY <1>1, <1>2, <1>3, OneByOne
  <2> QED
    BY <1>1, <2>1
<1>5. \E j \in OutsShown(t) : j <= n
  BY <1>1 DEF Showable
<1> QED
  BY <1>1, <1>4, <1>5

\* The lines of a transaction are in falling order of their outputs; so each has one.
Falling(l, t) == \A i, j \in LinesIn(l, t) : i < j => l[j].out < l[i].out

\* Where nothing is shown nothing changes.
LEMMA SameStage ==
    ASSUME NEW t, NEW l, NEW fNew, NEW nIndex, NEW f, Showable(t), Stages(f, l, t, fNew, nIndex),
           NEW i \in 0 .. Len(Out[t]), NEW j \in i .. Len(Out[t]),
           \A k \in (i + 1) .. j : k \notin OutsShown(t)
    PROVE  f[j] = f[i]
<1> DEFINE n == Len(Out[t])
           P == {k \in 0 .. n : i <= k /\ k <= j => f[k] = f[i]}
<1>1. n \in Nat
  BY DEF Showable
<1>2. 0 \in P
  BY <1>1
<1>3. ASSUME NEW k \in 1 .. n, k - 1 \in P PROVE k \in P
  <2>1. CASE i < k /\ k <= j
    <3>1. k \notin OutsShown(t) /\ f[k - 1] = f[i]
      BY <1>1, <1>3, <2>1
    <3>2. f[k] = f[k - 1]
      BY <3>1 DEF Stages, Put
    <3> QED
      BY <1>1, <3>1, <3>2
  <2> QED
    BY <1>1, <2>1
<1> HIDE DEF P
<1>4. \A k \in 0 .. n : k \in P
  BY <1>1, <1>2, <1>3, OneByOne
<1>5. j \in 0 .. n /\ i <= j /\ j <= j
  BY <1>1
<1> QED
  BY <1>4, <1>5 DEF P

\* The first output that is shown, and the one behind it.
LEMMA FirstStage ==
    ASSUME NEW t, NEW l, NEW fNew, NEW nIndex, NEW f, Showable(t), Stages(f, l, t, fNew, nIndex),
           NEW a \in OutsShown(t), \A k \in OutsShown(t) : a <= k
    PROVE  f[a] = InsertLine(l, strSort(t, a), fNew, nIndex)
<1>1. Len(Out[t]) \in Nat /\ a \in 0 .. Len(Out[t])
  BY DEF Showable
<1>2. CASE a = 0
  BY <1>2 DEF Stages, Put
<1>3. CASE a # 0
  <2>1. 0 \notin OutsShown(t) /\ a \in 1 .. Len(Out[t]) /\ a - 1 \in 0 .. Len(Out[t]) /\ 0 \in 0 .. Len(Out[t])
    BY <1>1, <1>3
  <2>2. f[0] = l
    BY <2>1 DEF Stages, Put
  <2>3. \A k \in (0 + 1) .. (a - 1) : k \notin OutsShown(t)
    BY <1>1
  <2>4. f[a - 1] = f[0]
    BY <2>1, <2>3, SameStage
  <2> QED
    BY <2>1, <2>2, <2>4 DEF Stages, Put
<1> QED
  BY <1>2, <1>3

LEMMA SecondStage ==
    ASSUME NEW t, NEW l, NEW fNew, NEW nIndex, NEW f, Showable(t), Stages(f, l, t, fNew, nIndex),
           NEW a, NEW b, a < b, OutsShown(t) = {a, b}
    PROVE  f[Len(Out[t])] = InsertLine(f[a], strSort(t, b), fNew, nIndex)
<1> DEFINE n == Len(Out[t])
<1>1. n \in Nat /\ a \in 0 .. n /\ b \in 1 .. n /\ b - 1 \in a .. n /\ b \in 0 .. n /\ n \in b .. n
  BY DEF Showable
<1>2. f[b - 1] = f[a]
  <2> DEFINE c == b - 1
  <2>1. /\ a \in 0 .. n /\ c \in a .. n /\ Showable(t) /\ Stages(f, l, t, fNew, nIndex)
        /\ \A k \in (a + 1) .. c : k \notin OutsShown(t)
    BY <1>1
  <2> HIDE DEF c
  <2>2. f[c] = f[a]
    BY <2>1, SameStage
  <2> QED
    BY <2>2 DEF c
<1>3. f[n] = f[b]
  <2>1. \A k \in (b + 1) .. n : k \notin OutsShown(t)
    BY <1>1
  <2> QED
    BY <1>1, <2>1, SameStage
<1>4. f[b] = InsertLine(f[b - 1], strSort(t, b), fNew, nIndex)
  BY <1>1 DEF Stages, Put
<1> QED
  BY <1>2, <1>3, <1>4

\* The first of two lines, or the only one, takes the place of the highest there is.
LEMMA OneLine ==
    ASSUME NEW t, NEW l \in List, NEW fNew, NEW nIndex, NEW a, NEW b,
           Showable(t), Given(l, t, fNew, nIndex),
           a \in OutsShown(t), OutsShown(t) = {a, b}, a <= b,
           fNew => LinesIn(l, t) = {},
           \A i \in LinesIn(l, t) : l[i].out \in OutsShown(t), Falling(l, t)
    PROVE  LET m == InsertLine(l, strSort(t, a), fNew, nIndex)
           IN  /\ m \in List
               /\ \E p \in LinesIn(m, t) :
                     /\ m[p] = strSort(t, a)
                     /\ \A i, j \in LinesIn(m, t) \ {p} : i = j
                     /\ \A i \in LinesIn(m, t) \ {p} : a # b /\ ~fNew /\ m[i].out = a
<1> DEFINE e == strSort(t, a)
           f == IF fNew \/ nIndex # 0 THEN nIndex ELSE Find(l, t)
           m == InsertLine(l, e, fNew, nIndex)
<1>1. e \in Line /\ e.tx = t /\ e.out = a /\ a \in Nat /\ b \in Nat
  BY KeyOf DEF Showable
<1>2. fNew \in BOOLEAN /\ nIndex \in {0} \cup LinesIn(l, e.tx)
  BY <1>1 DEF Given
<1>3. f = IF fNew \/ nIndex # 0 THEN nIndex ELSE Find(l, e.tx)
  BY <1>1
<1>4. l \in Seq(Line)
  BY DEF List
<1>5. \A i \in LinesIn(l, t) : i \in Nat /\ l[i].out \in {a, b}
  BY <1>4, LinesInIs
<1>6. ASSUME NEW g \in LinesIn(l, t) \ {f} PROVE a # b /\ ~fNew /\ l[g].out = a /\ f \in LinesIn(l, t)
  <2>1. CASE fNew
    BY <1>6, <2>1
  <2>2. CASE ~fNew /\ nIndex # 0
    <3>1. f = nIndex /\ f \in LinesIn(l, t) /\ OutsShown(t) = {0} /\ l[f].out = 0 /\ l[g].out = 0
      BY <1>2, <1>1, <2>2 DEF Given
    <3>2. g < f \/ f < g
      BY <1>5, <3>1
    <3> QED
      BY <3>1, <3>2 DEF Falling
  <2>3. CASE ~fNew /\ nIndex = 0
    <3>1. f \in LinesIn(l, t) /\ \A i \in LinesIn(l, t) : f <= i
      BY <1>4, <2>3, FindIs
    <3> HIDE DEF f
    <3>2. f < g
      BY <1>5, <3>1
    <3>3. l[g].out < l[f].out
      BY <3>1, <3>2 DEF Falling
    <3> QED
      BY <1>1, <1>5, <2>3, <3>1, <3>3
  <2> QED
    BY <1>2, <2>1, <2>2, <2>3
<1> HIDE DEF e, m, f
<1>7. m \in List /\ \E p \in LinesIn(m, e.tx) : m[p] = e /\ \A x : From(l, m, x, f, p)
  BY <1>1, <1>2, <1>3, InsertLineIs DEF m
<1>8. PICK p \in LinesIn(m, t) : m[p] = e /\ From(l, m, t, f, p)
  BY <1>1, <1>7
<1>9. ASSUME NEW i \in LinesIn(m, t) \ {p}, NEW j \in LinesIn(m, t) \ {p}, i < j PROVE FALSE
  <2>1. PICK g \in LinesIn(l, t) \ {f}, h \in LinesIn(l, t) \ {f} : g < h
    BY <1>8, <1>9 DEF From
  <2>2. l[g].out = a /\ l[h].out = a /\ l[h].out < l[g].out
    BY <1>6, <2>1 DEF Falling
  <2> QED
    BY <1>1, <2>2
<1>10. \A i \in LinesIn(m, t) : i \in Nat
  BY <1>7, LinesInIs DEF List
<1>11. \A i, j \in LinesIn(m, t) \ {p} : i = j
  BY <1>9, <1>10
<1>12. ASSUME NEW i \in LinesIn(m, t) \ {p} PROVE a # b /\ ~fNew /\ m[i].out = a
  <2>1. PICK g \in LinesIn(l, t) \ {f} : m[i] = l[g]
    BY <1>8 DEF From
  <2> QED
    BY <1>6, <2>1
<1> QED
  BY <1>7, <1>8, <1>11, <1>12 DEF m, e

\* The second comes above the first.
LEMMA TwoLines ==
    ASSUME NEW t, NEW l \in List, NEW fNew, NEW nIndex, NEW a, NEW b, NEW p,
           Showable(t), fNew \in BOOLEAN, nIndex = 0, OutsShown(t) = {a, b}, a < b,
           p \in LinesIn(l, t), l[p] = strSort(t, a),
           \A i, j \in LinesIn(l, t) \ {p} : i = j,
           \A i \in LinesIn(l, t) \ {p} : ~fNew /\ l[i].out = a
    PROVE  LET m == InsertLine(l, strSort(t, b), fNew, nIndex)
           IN  m \in List /\ Falling(m, t)
<1> DEFINE e == strSort(t, b)
           f == IF fNew \/ nIndex # 0 THEN nIndex ELSE Find(l, t)
           m == InsertLine(l, e, fNew, nIndex)
           H == l[p].height
<1>1. e \in Line /\ e.tx = t /\ e.out = b /\ e.height = H /\ a \in Nat /\ b \in Nat /\ l[p].out = a
  BY KeyOf DEF Showable, strSort
<1>2. f = IF fNew \/ nIndex # 0 THEN nIndex ELSE Find(l, e.tx)
  BY <1>1
<1>0. nIndex \in {0} \cup LinesIn(l, e.tx)
  OBVIOUS
<1>3. l \in Seq(Line) /\ DOMAIN l = 1 .. Len(l) /\ \A i, j \in DOMAIN l : i < j => ~Above(l[j], l[i])
  BY LenProperties DEF List, Ordered
<1>4. \A i \in LinesIn(l, t) : i \in Nat /\ i \in 1 .. Len(l) /\ l[i] \in Line /\ l[i].out = a
  BY <1>1, <1>3, LinesInIs
<1>5. ASSUME NEW g \in LinesIn(l, t) \ {f} PROVE l[g].height <= H
  <2>1. CASE g = p
    BY <1>4, <2>1 DEF Line
  <2>2. CASE g # p
    <3>1. ~fNew /\ f \in LinesIn(l, t) /\ \A i \in LinesIn(l, t) : f <= i
      BY <1>3, <2>2, FindIs
    <3> HIDE DEF f
    <3>2. f = p
      BY <1>5, <2>2, <3>1
    <3>3. p < g
      BY <1>4, <3>1, <3>2
    <3>4. ~Above(l[g], l[p])
      BY <1>3, <1>4, <3>3
    <3> QED
      BY <1>4, <3>4 DEF Above, Line
  <2> QED
    BY <2>1, <2>2
<1>6. ASSUME NEW g \in LinesIn(l, t) \ {f}, NEW h \in LinesIn(l, t) \ {f} PROVE g = h
  <2>1. CASE fNew
    BY <1>6, <2>1
  <2>2. CASE ~fNew
    <3>1. f \in LinesIn(l, t)
      BY <1>3, <2>2, FindIs
    <3> HIDE DEF f
    <3> QED
      BY <1>6, <3>1
  <2> QED
    BY <2>1, <2>2
<1> HIDE DEF e, m, f
<1>7. m \in List /\ \E q \in LinesIn(m, e.tx) : m[q] = e /\ \A x : From(l, m, x, f, q)
  BY <1>0, <1>1, <1>2, InsertLineIs DEF m
<1>8. PICK q \in LinesIn(m, t) : m[q] = e /\ From(l, m, t, f, q)
  BY <1>1, <1>7
<1>9. m \in Seq(Line) /\ DOMAIN m = 1 .. Len(m) /\ \A i, j \in DOMAIN m : i < j => ~Above(m[j], m[i])
  BY <1>7, LenProperties DEF List, Ordered
<1>10. \A i \in LinesIn(m, t) : i \in Nat /\ i \in 1 .. Len(m) /\ m[i] \in Line
  BY <1>9, LinesInIs
<1>11. ASSUME NEW i \in LinesIn(m, t) \ {q} PROVE m[i].out = a /\ m[i].height <= H
  <2>1. PICK g \in LinesIn(l, t) \ {f} : m[i] = l[g]
    BY <1>8 DEF From
  <2> QED
    BY <1>4, <1>5, <2>1
<1>12. ASSUME NEW i \in LinesIn(m, t), NEW j \in LinesIn(m, t), i < j PROVE m[j].out < m[i].out
  <2>1. CASE i # q /\ j # q
    <3>1. PICK g \in LinesIn(l, t) \ {f}, h \in LinesIn(l, t) \ {f} : g < h
      BY <1>8, <1>12, <2>1 DEF From
    <3>2. g = h /\ g \in Nat
      BY <1>4, <1>6
    <3> QED
      BY <3>1, <3>2
  <2>2. CASE i = q
    <3>1. j # q
      BY <1>10, <1>12, <2>2
    <3> QED
      BY <1>1, <1>8, <1>11, <2>2, <3>1
  <2>3. CASE j = q
    <3>1. i # q
      BY <1>10, <1>12, <2>3
    <3>2. m[i].out = a /\ m[i].height <= H /\ m[j].out = b /\ m[j].height = H
      BY <1>1, <1>8, <1>11, <2>3, <3>1
    <3>3. ~Above(m[j], m[i])
      BY <1>9, <1>10, <1>12
    <3> QED
      BY <1>1, <1>10, <3>2, <3>3 DEF Above, Line
  <2> QED
    BY <2>1, <2>2, <2>3
<1> QED
  BY <1>7, <1>12 DEF Falling, m, e

Few(t) == Cardinality(OutsShown(t)) <= 2

LEMMA FewShown ==
    ASSUME NEW t, Showable(t), Few(t)
    PROVE  \E a, b \in OutsShown(t) : a \in Nat /\ b \in Nat /\ a <= b /\ OutsShown(t) = {a, b}
<1>1. Len(Out[t]) \in Nat /\ OutsShown(t) \in SUBSET (0 .. Len(Out[t])) /\ OutsShown(t) # {}
  BY DEF Showable
<1>2. IsFiniteSet(OutsShown(t))
  <2> DEFINE n == Len(Out[t])
             S == OutsShown(t)
  <2>1. n \in Int /\ 0 \in Int /\ S \in SUBSET (0 .. n)
    BY <1>1
  <2> HIDE DEF n, S
  <2>2. IsFiniteSet(0 .. n)
    BY <2>1, FS_Interval
  <2>3. IsFiniteSet(S)
    BY <2>1, <2>2, FS_Subset
  <2> QED
    BY <2>3 DEF S
<1>3. \E a, b \in OutsShown(t) : a <= b /\ OutsShown(t) = {a, b}
  <2>1. OutsShown(t) \in SUBSET Nat
    BY <1>1
  <2> QED
    BY <1>1, <1>2, <2>1, AtMostTwo DEF Few
<1> QED
  BY <1>1, <1>3

\* InsertTransaction as a whole.
LEMMA InsertTransactionIs ==
    ASSUME NEW t, NEW l \in List, NEW fNew, NEW nIndex,
           Showable(t), Given(l, t, fNew, nIndex), ~Filtered(t),
           fNew => LinesIn(l, t) = {},
           \A i \in LinesIn(l, t) : l[i].out \in OutsShown(t),
           Few(t) => Falling(l, t)
    PROVE  LET m == InsertTransaction(l, t, fNew, nIndex)
           IN  /\ m \in List
               /\ \A x : x # t => Kept(l, m, x)
               /\ \A i \in LinesIn(m, t) : m[i].out \in OutsShown(t)
               /\ LinesIn(m, t) # {}
               /\ Few(t) => Falling(m, t)
               /\ OutsShown(t) = {0} => \A i \in LinesIn(m, t) : m[i] = strSort(t, 0)
<1> DEFINE m == InsertTransaction(l, t, fNew, nIndex)
<1>1. PICK f : Stages(f, l, t, fNew, nIndex) /\ m = f[Len(Out[t])]
  BY StagesExist
<1> HIDE DEF m
<1>2. /\ m \in List
      /\ \A x : x # t => Kept(l, m, x)
      /\ \A i \in LinesIn(m, t) : m[i].out \in OutsShown(t)
      /\ LinesIn(m, t) # {}
  BY <1>1, StagesKeep
<1>3. \A i \in LinesIn(m, t) : i \in Nat
  BY <1>2, LinesInIs DEF List
<1>4. ASSUME Few(t)
      PROVE  Falling(m, t) /\ \A a : OutsShown(t) = {a} => \A i \in LinesIn(m, t) : m[i] = strSort(t, a)
  <2>1. PICK a \in OutsShown(t), b \in OutsShown(t) :
                a \in Nat /\ b \in Nat /\ a <= b /\ OutsShown(t) = {a, b}
    BY <1>4, FewShown
  <2> DEFINE k == InsertLine(l, strSort(t, a), fNew, nIndex)
  <2>2. f[a] = k
    <3>1. \A c \in OutsShown(t) : a <= c
      BY <2>1
    <3> QED
      BY <1>1, <2>1, <3>1, FirstStage
  <2>3. /\ k \in List
        /\ \E p \in LinesIn(k, t) :
              /\ k[p] = strSort(t, a)
              /\ \A i, j \in LinesIn(k, t) \ {p} : i = j
              /\ \A i \in LinesIn(k, t) \ {p} : a # b /\ ~fNew /\ k[i].out = a
    <3>1. /\ a \in OutsShown(t) /\ OutsShown(t) = {a, b} /\ a <= b
          /\ Falling(l, t) /\ Showable(t) /\ Given(l, t, fNew, nIndex)
          /\ fNew => LinesIn(l, t) = {}
          /\ \A i \in LinesIn(l, t) : l[i].out \in OutsShown(t)
      BY <1>4, <2>1
    <3> QED
      BY <3>1, OneLine
  <2> HIDE DEF k
  <2>4. PICK p \in LinesIn(k, t) :
              /\ k[p] = strSort(t, a)
              /\ \A i, j \in LinesIn(k, t) \ {p} : i = j
              /\ \A i \in LinesIn(k, t) \ {p} : a # b /\ ~fNew /\ k[i].out = a
    BY <2>3
  <2>5. CASE a = b
    <3>1. m = k
      <4>1. Len(Out[t]) \in Nat /\ a \in 0 .. Len(Out[t]) /\ Len(Out[t]) \in a .. Len(Out[t])
        BY DEF Showable
      <4>2. \A c \in (a + 1) .. Len(Out[t]) : c \notin OutsShown(t)
        BY <2>1, <2>5, <4>1
      <4> DEFINE n == Len(Out[t])
      <4>3. /\ a \in 0 .. n /\ n \in a .. n /\ Showable(t) /\ Stages(f, l, t, fNew, nIndex)
            /\ \A c \in (a + 1) .. n : c \notin OutsShown(t)
        BY <1>1, <4>1, <4>2
      <4>4. f[n] = f[a]
        BY <4>3, SameStage
      <4> QED
        BY <1>1, <2>2, <4>4
    <3>2. \A i \in LinesIn(m, t) : i = p
      BY <2>4, <2>5, <3>1
    <3>3. Falling(m, t)
      BY <1>3, <3>2 DEF Falling
    <3> QED
      BY <2>1, <2>4, <2>5, <3>1, <3>2, <3>3
  <2>6. CASE a < b
    <3>1. nIndex = 0 /\ fNew \in BOOLEAN
      BY <2>1, <2>6 DEF Given
    <3>2. m = InsertLine(k, strSort(t, b), fNew, nIndex)
      BY <1>1, <2>1, <2>2, <2>6, SecondStage
    <3>3. Falling(m, t)
      BY <2>1, <2>3, <2>4, <2>6, <3>1, <3>2, TwoLines
    <3>4. \A c : OutsShown(t) # {c}
      BY <2>1, <2>6
    <3> QED
      BY <3>3, <3>4
  <2> QED
    BY <2>1, <2>5, <2>6
<1>5. OutsShown(t) = {0} => Few(t)
  BY FS_Singleton DEF Few
<1> QED
  BY <1>2, <1>4, <1>5 DEF m

-----------------------------------------------------------------------------
(* What holds of the list whatever waits to be inserted.                   *)

WalletShows == \A t \in DOMAIN mapWallet : Showable(t)

LinesGood(l) ==
    /\ l \in List
    /\ \A i \in DOMAIN l : l[i].tx \in DOMAIN mapWallet
    /\ \A t \in DOMAIN mapWallet :
          /\ \A i \in LinesIn(l, t) : l[i].out \in OutsShown(t)
          /\ Few(t) => Falling(l, t)
          /\ t \notin Coinbases /\ Filtered(t) => LinesIn(l, t) = {}

\* A transaction that does not wait is there, and where it belongs.
Right(l, t) ==
    /\ Filtered(t) \/ LinesIn(l, t) # {}
    /\ Kind(t) # "sent" => \A i \in LinesIn(l, t) : l[i] = strSort(t, 0)

LEMMA KeptIs ==
    ASSUME NEW l \in Seq(Line), NEW m \in Seq(Line), NEW x, Kept(l, m, x)
    PROVE  /\ LinesIn(m, x) = {} <=> LinesIn(l, x) = {}
           /\ \A i \in LinesIn(m, x) : \E g \in LinesIn(l, x) : m[i] = l[g]
           /\ Falling(l, x) => Falling(m, x)
           /\ Right(l, x) => Right(m, x)
<1>1. LinesIn(l, x) \ {0} = LinesIn(l, x) /\ LinesIn(m, x) \ {0} = LinesIn(m, x)
  BY LinesInIs
<1>2. \A i \in LinesIn(m, x) : \E g \in LinesIn(l, x) : m[i] = l[g]
  BY <1>1 DEF Kept, From
<1>3. \A g \in LinesIn(l, x) : \E i \in LinesIn(m, x) : m[i] = l[g]
  BY <1>1 DEF Kept, From
<1>4. LinesIn(m, x) = {} <=> LinesIn(l, x) = {}
  BY <1>2, <1>3
<1>5. ASSUME Falling(l, x) PROVE Falling(m, x)
  <2> SUFFICES ASSUME NEW i \in LinesIn(m, x), NEW j \in LinesIn(m, x), i < j
               PROVE  m[j].out < m[i].out
    BY DEF Falling
  <2>1. PICK g \in LinesIn(l, x), h \in LinesIn(l, x) : g < h /\ m[i] = l[g] /\ m[j] = l[h]
    BY <1>1 DEF Kept, From
  <2> QED
    BY <1>5, <2>1 DEF Falling
<1>6. Right(l, x) => Right(m, x)
  BY <1>2, <1>4 DEF Right
<1> QED
  BY <1>2, <1>4, <1>5, <1>6

\* It is enough to look at the transaction that changed.
LEMMA OneChanged ==
    ASSUME NEW l, NEW m \in List, NEW t \in DOMAIN mapWallet, LinesGood(l),
           \A x : x # t => Kept(l, m, x),
           \A i \in LinesIn(m, t) : m[i].out \in OutsShown(t),
           Few(t) => Falling(m, t),
           t \notin Coinbases /\ Filtered(t) => LinesIn(m, t) = {}
    PROVE  LinesGood(m)
<1>1. l \in Seq(Line) /\ m \in Seq(Line) /\ DOMAIN m = 1 .. Len(m) /\ DOMAIN l = 1 .. Len(l)
  BY LenProperties DEF LinesGood, List
<1>2. ASSUME NEW i \in DOMAIN m PROVE m[i].tx \in DOMAIN mapWallet
  <2>1. CASE m[i].tx = t
    BY <2>1
  <2>2. CASE m[i].tx # t
    <3>1. i \in LinesIn(m, m[i].tx)
      BY <1>1, LinesInIs
    <3>2. PICK g \in LinesIn(l, m[i].tx) : m[i] = l[g]
      BY <1>1, <2>2, <3>1, KeptIs
    <3>3. g \in DOMAIN l
      BY <1>1, <3>2, LinesInIs
    <3> QED
      BY <3>2, <3>3 DEF LinesGood
  <2> QED
    BY <2>1, <2>2
<1>3. ASSUME NEW x \in DOMAIN mapWallet, x # t
      PROVE  /\ \A i \in LinesIn(m, x) : m[i].out \in OutsShown(x)
             /\ Few(x) => Falling(m, x)
             /\ x \notin Coinbases /\ Filtered(x) => LinesIn(m, x) = {}
  <2>1. Kept(l, m, x)
    BY <1>3
  <2>2. /\ LinesIn(m, x) = {} <=> LinesIn(l, x) = {}
        /\ \A i \in LinesIn(m, x) : \E g \in LinesIn(l, x) : m[i] = l[g]
        /\ Falling(l, x) => Falling(m, x)
    BY <1>1, <2>1, KeptIs
  <2> QED
    BY <2>2 DEF LinesGood
<1> QED
  BY <1>2, <1>3 DEF LinesGood

LEMMA InsertGood ==
    ASSUME NEW l, NEW t \in DOMAIN mapWallet, NEW fNew, NEW nIndex, WalletShows, LinesGood(l),
           Given(l, t, fNew, nIndex), fNew => LinesIn(l, t) = {}
    PROVE  LET m == InsertTransaction(l, t, fNew, nIndex)
           IN  /\ LinesGood(m)
               /\ \A x : x # t => Kept(l, m, x)
               /\ t \notin Coinbases => Right(m, t)
<1> DEFINE m == InsertTransaction(l, t, fNew, nIndex)
<1>1. l \in List
  BY DEF LinesGood
<1>2. CASE Filtered(t)
  <2>1. m = l
    BY <1>2, InsertTransactionPuts
  <2> HIDE DEF m
  <2>2. t \notin Coinbases => LinesIn(l, t) = {}
    BY <1>2 DEF LinesGood
  <2>3. t \notin Coinbases => Right(l, t)
    BY <1>2, <2>2 DEF Right
  <2> QED
    BY <2>1, <2>3, KeptSame DEF m
<1>3. CASE ~Filtered(t)
  <2>1. Showable(t)
    BY DEF WalletShows
  <2>2. (\A i \in LinesIn(l, t) : l[i].out \in OutsShown(t)) /\ (Few(t) => Falling(l, t))
    BY DEF LinesGood
  <2>3. /\ m \in List
        /\ \A x : x # t => Kept(l, m, x)
        /\ \A i \in LinesIn(m, t) : m[i].out \in OutsShown(t)
        /\ LinesIn(m, t) # {}
        /\ Few(t) => Falling(m, t)
        /\ OutsShown(t) = {0} => \A i \in LinesIn(m, t) : m[i] = strSort(t, 0)
    BY <1>1, <1>3, <2>1, <2>2, InsertTransactionIs
  <2> HIDE DEF m
  <2>4. LinesGood(m)
    BY <1>3, <2>3, OneChanged
  <2>5. Right(m, t)
    BY <2>3 DEF Right, OutsShown
  <2> QED
    BY <2>3, <2>4, <2>5 DEF m
<1> QED
  BY <1>2, <1>3

-----------------------------------------------------------------------------
(* Inserted: one transaction after the other is inserted or updated.       *)

Update(l, t) == InsertTransaction(l, t, FALSE, 0)
Updates(f, l, ts) ==
    f = [k \in 0 .. Len(ts) |-> IF k = 0 THEN l ELSE Update(f[k - 1], ts[k])]
Goods == {l \in List : LinesGood(l)}

LEMMA InsertedUpdates ==
    ASSUME NEW l, NEW ts
    PROVE  Inserted(l, ts) = (CHOOSE f : Updates(f, l, ts))[Len(ts)]
  BY DEF Inserted, Updates, Update

LEMMA UpdateGood ==
    ASSUME NEW l, NEW t \in DOMAIN mapWallet, WalletShows, LinesGood(l)
    PROVE  /\ LinesGood(Update(l, t))
           /\ \A x : x # t => Kept(l, Update(l, t), x)
           /\ t \notin Coinbases => Right(Update(l, t), t)
<1> DEFINE fNew == FALSE
           nIndex == 0
<1>1. Update(l, t) = InsertTransaction(l, t, fNew, nIndex)
  BY DEF Update
<1>2. fNew = FALSE /\ nIndex = 0
  OBVIOUS
<1> HIDE DEF fNew, nIndex
<1>3. Given(l, t, fNew, nIndex) /\ (fNew => LinesIn(l, t) = {})
  BY <1>2 DEF Given
<1> QED
  BY <1>1, <1>3, InsertGood

\* The sequences of a set have each of its members once.
LEMMA SeqsOf ==
    ASSUME NEW S, IsFiniteSet(S), NEW ts \in SetToSeqs(S)
    PROVE  /\ Len(ts) \in Nat
           /\ \A k \in 1 .. Len(ts) : ts[k] \in S
           /\ \A i, j \in 1 .. Len(ts) : i # j => ts[i] # ts[j]
           /\ \A s \in S : \E k \in 1 .. Len(ts) : ts[k] = s
<1> DEFINE n == Cardinality(S)
<1>1. n \in Nat
  BY FS_CardinalityType
<1>2. ts \in [1 .. n -> S] /\ \A i, j \in 1 .. n : i # j => ts[i] # ts[j]
  BY DEF SetToSeqs
<1>3. IsFiniteSet(1 .. n) /\ Cardinality(1 .. n) = n
  BY <1>1, FS_Interval
<1>4. Len(ts) = n
  <2> HIDE DEF n
  <2>1. ts \in Seq(S)
    BY <1>1, <1>2, SeqDef
  <2> QED
    BY <1>1, <1>2, <2>1, LenProperties
<1>5. ts \in Injection(1 .. n, S)
  BY <1>2 DEF Injection, IsInjective
<1>6. ts \in Surjection(1 .. n, S)
  BY <1>3, <1>5, FS_Injection
<1> QED
  BY <1>1, <1>2, <1>4, <1>6 DEF Surjection

\* All of them: the list stays good, and each is where it belongs.
LEMMA InsertedGood ==
    ASSUME NEW l, NEW S \in SUBSET DOMAIN mapWallet, IsFiniteSet(S), NEW ts \in SetToSeqs(S),
           WalletShows, LinesGood(l)
    PROVE  LET m == Inserted(l, ts)
           IN  /\ LinesGood(m)
               /\ \A x : x \notin S => Kept(l, m, x)
               /\ \A t \in S : t \notin Coinbases => Right(m, t)
<1> DEFINE n == Len(ts)
           G == [k \in 1 .. n |-> [s \in Goods |-> Update(s, ts[k])]]
<1>1. /\ n \in Nat
      /\ \A k \in 1 .. n : ts[k] \in S
      /\ \A i, j \in 1 .. n : i # j => ts[i] # ts[j]
      /\ \A s \in S : \E k \in 1 .. n : ts[k] = s
  BY SeqsOf
<1> HIDE DEF n
<1>2. \A s \in Goods : LinesGood(s) /\ s \in Seq(Line)
  BY DEF Goods, List
<1>3. l \in Goods /\ l \in Seq(Line)
  BY DEF Goods, LinesGood, List
<1>4. ASSUME NEW k \in 1 .. n, NEW s \in Goods PROVE Update(s, ts[k]) \in Goods
  <2>1. LinesGood(Update(s, ts[k]))
    BY <1>1, <1>2, UpdateGood
  <2> QED
    BY <2>1 DEF Goods, LinesGood
<1>5. G \in [1 .. n -> [Goods -> Goods]] /\ \A k \in 1 .. n, s \in Goods : G[k][s] = Update(s, ts[k])
  BY <1>4
<1> HIDE DEF G
<1>6. PICK g : Follow(g, n, Goods, l, G)
  BY <1>1, <1>3, <1>5, StepByStep
<1>7. \E f : Updates(f, l, ts)
  <2>1. ASSUME NEW k \in 0 .. n PROVE g[k] = IF k = 0 THEN l ELSE Update(g[k - 1], ts[k])
    <3>1. CASE k = 0
      BY <1>6, <3>1 DEF Follow
    <3>2. CASE k # 0
      <4>1. k \in 1 .. n /\ k - 1 \in 0 .. n
        BY <1>1, <3>2
      <4>2. g[k - 1] \in Goods /\ g[k] = G[k][g[k - 1]]
        BY <1>6, <4>1 DEF Follow
      <4> QED
        BY <1>5, <3>2, <4>1, <4>2
    <3> QED
      BY <3>1, <3>2
  <2>2. g = [k \in 0 .. n |-> g[k]]
    BY <1>6 DEF Follow
  <2>3. g = [k \in 0 .. n |-> IF k = 0 THEN l ELSE Update(g[k - 1], ts[k])]
    BY <2>1, <2>2
  <2> QED
    BY <2>3 DEF Updates, n
<1> DEFINE f == CHOOSE f : Updates(f, l, ts)
           m == Inserted(l, ts)
<1>8. Updates(f, l, ts)
  BY <1>7
<1>9. m = f[n]
  BY InsertedUpdates DEF n
<1> HIDE DEF f, m
<1>10. f[0] = l /\ \A k \in 1 .. n : f[k] = Update(f[k - 1], ts[k])
  <2>1. \A k \in 0 .. n : f[k] = IF k = 0 THEN l ELSE Update(f[k - 1], ts[k])
    BY <1>8 DEF Updates, n
  <2>2. 0 \in 0 .. n /\ \A k \in 1 .. n : k \in 0 .. n /\ k # 0
    BY <1>1
  <2> QED
    BY <2>1, <2>2
<1> DEFINE Done(k) == /\ f[k] \in Goods
                      /\ \A x : x \notin S => Kept(l, f[k], x)
                      /\ \A j \in 1 .. k : ts[j] \notin Coinbases => Right(f[k], ts[j])
           P == {k \in 0 .. n : Done(k)}
<1>11. 0 \in P
  <2>1. \A x : Kept(l, l, x)
    BY KeptSame
  <2> QED
    BY <1>1, <1>3, <1>10, <2>1
<1>12. ASSUME NEW k \in 1 .. n, k - 1 \in P PROVE k \in P
  <2> DEFINE s == f[k - 1]
             t == ts[k]
             r == f[k]
  <2>1. /\ s \in Goods /\ LinesGood(s) /\ s \in Seq(Line)
        /\ \A x : x \notin S => Kept(l, s, x)
        /\ \A j \in 1 .. (k - 1) : ts[j] \notin Coinbases => Right(s, ts[j])
    BY <1>2, <1>12
  <2>2. t \in S /\ t \in DOMAIN mapWallet /\ \A j \in 1 .. (k - 1) : ts[j] # t
    <3>1. \A j \in 1 .. (k - 1) : j \in 1 .. n /\ j # k
      BY <1>1
    <3> QED
      BY <1>1, <3>1
  <2>3. r = Update(s, t)
    BY <1>10
  <2> HIDE DEF s, t, r
  <2>4. /\ LinesGood(r)
        /\ \A x : x # t => Kept(s, r, x)
        /\ t \notin Coinbases => Right(r, t)
    BY <2>1, <2>2, <2>3, UpdateGood
  <2>5. r \in Goods /\ r \in Seq(Line)
    BY <2>4 DEF Goods, LinesGood, List
  <2>6. ASSUME NEW x, x \notin S PROVE Kept(l, r, x)
    <3>1. Kept(l, s, x) /\ Kept(s, r, x)
      BY <2>1, <2>2, <2>4, <2>6
    <3> QED
      BY <2>1, <3>1, KeptKept
  <2>7. ASSUME NEW j \in 1 .. k, ts[j] \notin Coinbases PROVE Right(r, ts[j])
    <3>1. CASE j = k
      BY <2>4, <2>7, <3>1 DEF t
    <3>2. CASE j # k
      <4> DEFINE x == ts[j]
      <4>1. j \in 1 .. (k - 1)
        BY <1>1, <3>2
      <4>2. x # t /\ Right(s, x)
        BY <2>1, <2>2, <2>7, <4>1
      <4> HIDE DEF x
      <4>3. Kept(s, r, x)
        BY <2>4, <4>2
      <4>4. Right(r, x)
        BY <2>1, <2>5, <4>2, <4>3, KeptIs
      <4> QED
        BY <4>4 DEF x
    <3> QED
      BY <3>1, <3>2
  <2> QED
    BY <1>1, <2>5, <2>6, <2>7 DEF r
<1> HIDE DEF P
<1>13. n \in P
  <2>1. \A k \in 0 .. n : k \in P
    BY <1>1, <1>11, <1>12, OneByOne
  <2> QED
    BY <1>1, <2>1
<1>14. Done(n)
  BY <1>13 DEF P
<1>15. LinesGood(m) /\ \A x : x \notin S => Kept(l, m, x)
  BY <1>2, <1>9, <1>14
<1>16. \A t \in S : t \notin Coinbases => Right(m, t)
  BY <1>1, <1>9, <1>14
<1> QED
  BY <1>15, <1>16 DEF m

-----------------------------------------------------------------------------
(* RefreshStatusColumn goes over the coinbases, row by row: nothing else   *)
(* changes, and nothing appears that was not there.                        *)

Untouched(l, m) ==
    /\ \A x : x \notin Coinbases => Kept(l, m, x)
    /\ \A x : LinesIn(l, x) = {} => LinesIn(m, x) = {}

Rows == Nat \ {0}
Row(list, i) == <<list, i>>
Restates(f, list, first) ==
    f = [k \in 0 .. Len(list) |->
            IF k = 0 THEN Row(list, first) ELSE Restated(f[k - 1][1], f[k - 1][2])]

LEMMA GeneratedShown ==
    ASSUME NEW t \in Coinbases
    PROVE  Kind(t) = "generated" /\ OutsShown(t) = {0}
<1>1. Kind(t) = "generated"
  BY DEF Kind
<1> QED
  BY <1>1 DEF OutsShown

\* A line of a coinbase that is taken away.
LEMMA RemovedGood ==
    ASSUME NEW l, LinesGood(l), NEW i \in 1 .. Len(l), l[i].tx \in Coinbases
    PROVE  LinesGood(RemoveAt(l, i)) /\ Untouched(l, RemoveAt(l, i))
<1> DEFINE m == RemoveAt(l, i)
           t == l[i].tx
<1>1. l \in Seq(Line) /\ l \in List
  BY DEF LinesGood, List
<1>2. IsRemoved(l, m, i)
  BY <1>1, RemoveAtIs
<1> HIDE DEF m
<1>3. m \in List /\ m \in Seq(Line)
  BY <1>1, <1>2, RemovedOrdered DEF List
<1>4. i \in LinesIn(l, t)
  BY <1>1, LinesInIs
<1>5. t \in Coinbases /\ t \in DOMAIN mapWallet
  <2>1. i \in DOMAIN l
    BY <1>1, LenProperties
  <2> QED
    BY <2>1 DEF LinesGood
<1> HIDE DEF t
<1>6. ASSUME NEW x, x # t PROVE Kept(l, m, x)
  <2>1. i \notin LinesIn(l, x)
    BY <1>1, <1>4, <1>6, LinesInIs
  <2>2. From(l, m, x, i, 0)
    BY <1>1, <1>2, RemovedFrom
  <2>3. 0 \notin LinesIn(m, x)
    BY <1>3, LinesInIs
  <2> DEFINE z == 0
  <2>4. From(l, m, x, i, z) /\ z \notin LinesIn(m, x)
    BY <2>2, <2>3
  <2> HIDE DEF z
  <2> QED
    BY <1>1, <1>3, <2>1, <2>4, OthersKept
<1>7. From(l, m, t, i, 0) /\ 0 \notin LinesIn(m, t)
  BY <1>1, <1>2, <1>3, RemovedFrom, LinesInIs
<1>8. \A j \in LinesIn(m, t) : \E g \in LinesIn(l, t) : m[j] = l[g]
  BY <1>7 DEF From
<1>9. \A j \in LinesIn(m, t) : m[j].out \in OutsShown(t)
  BY <1>5, <1>8 DEF LinesGood
<1>10. ASSUME Falling(l, t), NEW j \in LinesIn(m, t), NEW k \in LinesIn(m, t), j < k
       PROVE  m[k].out < m[j].out
  <2>1. \E g, h \in LinesIn(l, t) : g < h /\ m[j] = l[g] /\ m[k] = l[h]
    BY <1>7, <1>10 DEF From
  <2> QED
    BY <1>10, <2>1 DEF Falling
<1>11. Few(t) => Falling(m, t)
  <2>1. Few(t) => Falling(l, t)
    BY <1>5 DEF LinesGood
  <2> QED
    BY <1>10, <2>1 DEF Falling
<1>12. LinesGood(m)
  BY <1>3, <1>5, <1>6, <1>9, <1>11, OneChanged
<1>13. ASSUME NEW x, LinesIn(l, x) = {} PROVE LinesIn(m, x) = {}
  <2>1. x # t
    BY <1>4, <1>13
  <2> QED
    BY <1>1, <1>3, <1>6, <1>13, <2>1, KeptIs
<1>14. Untouched(l, m)
  BY <1>5, <1>6, <1>13 DEF Untouched
<1> QED
  BY <1>12, <1>14 DEF m

\* A line of a coinbase that is given its new height.
LEMMA RestatedLineGood ==
    ASSUME NEW l, LinesGood(l), NEW i \in 1 .. Len(l), l[i].tx \in Coinbases, WalletShows
    PROVE  LET m == InsertTransaction(l, l[i].tx, FALSE, i)
           IN  LinesGood(m) /\ Untouched(l, m)
<1> DEFINE t == l[i].tx
           fNew == FALSE
           m == InsertTransaction(l, t, fNew, i)
<1>1. l \in Seq(Line) /\ l \in List
  BY DEF LinesGood, List
<1>2. i \in LinesIn(l, t)
  BY <1>1, LinesInIs
<1>3. t \in Coinbases /\ t \in DOMAIN mapWallet
  <2>1. i \in DOMAIN l
    BY <1>1, LenProperties
  <2> QED
    BY <2>1 DEF LinesGood
<1> HIDE DEF t
<1>4. fNew \in BOOLEAN /\ ~fNew
  OBVIOUS
<1> HIDE DEF fNew
<1>5. Given(l, t, fNew, i) /\ (fNew => LinesIn(l, t) = {})
  BY <1>2, <1>3, <1>4, GeneratedShown DEF Given
<1>6. LinesGood(m) /\ \A x : x # t => Kept(l, m, x)
  BY <1>3, <1>5, InsertGood
<1> HIDE DEF m
<1>7. m \in Seq(Line)
  BY <1>6 DEF LinesGood, List
<1>8. ASSUME NEW x, LinesIn(l, x) = {} PROVE LinesIn(m, x) = {}
  <2>1. x # t
    BY <1>2, <1>8
  <2> QED
    BY <1>1, <1>6, <1>7, <1>8, <2>1, KeptIs
<1>9. Untouched(l, m)
  BY <1>3, <1>6, <1>8 DEF Untouched
<1> QED
  BY <1>6, <1>9 DEF m, fNew, t

LEMMA RestatedGood ==
    ASSUME NEW l, LinesGood(l), NEW i \in Rows, WalletShows
    PROVE  LET r == Restated(l, i)
           IN  r \in Goods \X Rows /\ Untouched(l, r[1])
<1> DEFINE r == Restated(l, i)
           gone == RemoveAt(l, i)
           anew == InsertTransaction(l, l[i].tx, FALSE, i)
<1>1. r = IF i > Len(l) \/ l[i].tx \notin Coinbases THEN <<l, i + 1>>
          ELSE IF Filtered(l[i].tx) THEN <<gone, i>> ELSE <<anew, i + 1>>
  BY DEF Restated
<1>2. l \in Seq(Line) /\ Len(l) \in Nat /\ i \in Rows /\ i + 1 \in Rows
  BY LenProperties DEF LinesGood, List, Rows
<1>3. i \in 1 .. Len(l) /\ l[i].tx \in Coinbases =>
         LinesGood(gone) /\ Untouched(l, gone) /\ LinesGood(anew) /\ Untouched(l, anew)
  BY RemovedGood, RestatedLineGood
<1> HIDE DEF r, gone, anew
<1>4. \A m : LinesGood(m) => m \in Goods
  BY DEF Goods, LinesGood
<1>5. CASE i > Len(l) \/ l[i].tx \notin Coinbases
  <2>1. Untouched(l, l)
    BY KeptSame DEF Untouched
  <2> QED
    BY <1>1, <1>2, <1>4, <1>5, <2>1 DEF r
<1>6. CASE ~(i > Len(l) \/ l[i].tx \notin Coinbases)
  <2>1. i \in 1 .. Len(l) /\ l[i].tx \in Coinbases
    BY <1>2, <1>6 DEF Rows
  <2>2. gone \in Goods /\ Untouched(l, gone) /\ anew \in Goods /\ Untouched(l, anew)
    BY <1>3, <1>4, <2>1
  <2> QED
    BY <1>1, <1>2, <1>6, <2>2 DEF r
<1> QED
  BY <1>5, <1>6

LEMMA AllRestatedRestates ==
    ASSUME NEW l, NEW first, first = 1
    PROVE  AllRestated(l) = (CHOOSE f : Restates(f, l, first))[Len(l)][1]
  BY DEF AllRestated, Restates, Row

LEMMA AllRestatedGood ==
    ASSUME NEW l, LinesGood(l), WalletShows
    PROVE  LinesGood(AllRestated(l)) /\ Untouched(l, AllRestated(l))
<1> DEFINE n == Len(l)
           A == Goods \X Rows
           first == 1
           G == [k \in 1 .. n |-> [s \in A |-> Restated(s[1], s[2])]]
           a == Row(l, first)
           m == AllRestated(l)
<1>1. n \in Nat /\ l \in Seq(Line) /\ l \in Goods
  BY LenProperties DEF LinesGood, List, Goods
<1>2. first = 1 /\ first \in Rows
  BY DEF Rows
<1> HIDE DEF first
<1>3. a \in A /\ a[1] = l
  BY <1>1, <1>2 DEF Row
<1>4. \A s \in Goods : LinesGood(s) /\ s \in Seq(Line)
  BY DEF Goods, List
<1> HIDE DEF n, a, m
<1>5. ASSUME NEW s \in A
      PROVE  Restated(s[1], s[2]) \in A /\ Untouched(s[1], Restated(s[1], s[2])[1])
  <2>1. s[1] \in Goods /\ s[2] \in Rows
    OBVIOUS
  <2>2. LinesGood(s[1])
    BY <1>4, <2>1
  <2> QED
    BY <2>1, <2>2, RestatedGood
<1>6. \A s \in A : s[1] \in Goods
  OBVIOUS
<1> HIDE DEF A
<1>7. G \in [1 .. n -> [A -> A]] /\ \A k \in 1 .. n, s \in A : G[k][s] = Restated(s[1], s[2])
  BY <1>5
<1> HIDE DEF G
<1>8. PICK g : Follow(g, n, A, a, G)
  BY <1>1, <1>3, <1>7, StepByStep
<1>9. \E f : Restates(f, l, first)
  <2>1. ASSUME NEW k \in 0 .. n
        PROVE  g[k] = IF k = 0 THEN a ELSE Restated(g[k - 1][1], g[k - 1][2])
    <3>1. CASE k = 0
      BY <1>8, <3>1 DEF Follow
    <3>2. CASE k # 0
      <4>1. k \in 1 .. n /\ k - 1 \in 0 .. n
        BY <1>1, <3>2
      <4>2. g[k - 1] \in A /\ g[k] = G[k][g[k - 1]]
        BY <1>8, <4>1 DEF Follow
      <4> QED
        BY <1>7, <3>2, <4>1, <4>2
    <3> QED
      BY <3>1, <3>2
  <2>2. g = [k \in 0 .. n |-> g[k]]
    BY <1>8 DEF Follow
  <2>3. g = [k \in 0 .. n |-> IF k = 0 THEN a ELSE Restated(g[k - 1][1], g[k - 1][2])]
    BY <2>1, <2>2
  <2> QED
    BY <2>3 DEF Restates, n, a
<1> DEFINE f == CHOOSE f : Restates(f, l, first)
<1>10. Restates(f, l, first)
  BY <1>9
<1>11. m = f[n][1]
  BY <1>2, AllRestatedRestates DEF n, m
<1> HIDE DEF f
<1>12. f[0] = a /\ \A k \in 1 .. n : f[k] = Restated(f[k - 1][1], f[k - 1][2])
  <2>1. \A k \in 0 .. n : f[k] = IF k = 0 THEN a ELSE Restated(f[k - 1][1], f[k - 1][2])
    BY <1>10 DEF Restates, n, a
  <2>2. 0 \in 0 .. n /\ \A k \in 1 .. n : k \in 0 .. n /\ k # 0
    BY <1>1
  <2> QED
    BY <2>1, <2>2
<1> DEFINE P == {k \in 0 .. n : f[k] \in A /\ Untouched(l, f[k][1])}
<1>13. 0 \in P
  <2>1. Untouched(l, l)
    BY KeptSame DEF Untouched
  <2> QED
    BY <1>1, <1>3, <1>12, <2>1
<1>14. ASSUME NEW k \in 1 .. n, k - 1 \in P PROVE k \in P
  <2> DEFINE s == f[k - 1]
             q == s[1]
             r == Restated(s[1], s[2])
  <2>1. s \in A /\ Untouched(l, q) /\ f[k] = r /\ k \in 0 .. n
    BY <1>1, <1>12, <1>14
  <2>2. r \in A /\ Untouched(q, r[1]) /\ q \in Goods
    BY <1>5, <1>6, <2>1
  <2>3. q \in Seq(Line)
    BY <1>4, <2>2
  <2> HIDE DEF q, r
  <2>4. Untouched(l, r[1])
    <3> DEFINE z == r[1]
    <3>1. Untouched(l, q) /\ Untouched(q, z)
      BY <2>1, <2>2
    <3> HIDE DEF z
    <3>2. ASSUME NEW x, x \notin Coinbases PROVE Kept(l, z, x)
      <4>1. Kept(l, q, x) /\ Kept(q, z, x)
        BY <3>1, <3>2 DEF Untouched
      <4> QED
        BY <2>3, <4>1, KeptKept
    <3>3. \A x : LinesIn(l, x) = {} => LinesIn(z, x) = {}
      BY <3>1 DEF Untouched
    <3>4. Untouched(l, z)
      BY <3>2, <3>3 DEF Untouched
    <3> QED
      BY <3>4 DEF z
  <2> QED
    BY <2>1, <2>2, <2>4
<1> HIDE DEF P
<1>15. n \in P
  <2>1. \A k \in 0 .. n : k \in P
    BY <1>1, <1>13, <1>14, OneByOne
  <2> QED
    BY <1>1, <2>1
<1>16. f[n] \in A /\ Untouched(l, f[n][1])
  BY <1>15 DEF P
<1> QED
  BY <1>4, <1>6, <1>11, <1>16 DEF m

-----------------------------------------------------------------------------
(* The wallet and the chain, as far as the list depends on them.  What a   *)
(* transaction of the wallet pays to whom, and with whose coins, is settled *)
(* when it comes into the wallet: no key that is made later changes it.    *)

Settled(t) ==
    /\ Payable(t)
    /\ \A c \in In[t] : \/ c[1] = Foreign \/ InMine(c)
                        \/ c[1] \in Txs /\ Payable(c[1]) /\ ~IsMine(Out[c[1]][c[2]])

IsChain(c) ==
    /\ c \in Seq(Nat)
    /\ \A h \in DOMAIN c : c[h] \in DOMAIN vtx /\ nHeight[c[h]] = h
    /\ \A h, g \in DOMAIN c : h # g => vtx[c[h]] \cap vtx[c[g]] = {}

BookInv == \A s \in DOMAIN mapAddressBook : s \in Strings /\ mapAddressBook[s] \in Labels

WalletInv ==
    /\ keys \subseteq FirstKeys \cup NewKeys
    /\ DOMAIN mapWallet \subseteq Txs
    /\ \A t \in DOMAIN mapWallet : mapWallet[t] \in {0} \cup DOMAIN vtx /\ Settled(t)
    /\ vWalletUpdated \subseteq Txs \cup {Foreign}

BlocksInv ==
    /\ vtx \in Seq(SUBSET Txs) /\ nHeight \in Seq(Nat)
    /\ Len(nHeight) = Len(vtx) /\ Len(vtx) <= MaxBlocks
    /\ \A b \in DOMAIN vtx : \A t \in vtx[b] : Payable(t)
    /\ IsChain(chain) /\ IsChain(connecting)
    /\ hashPrevBestCoinBase \in Txs \cup {Foreign}

HistoryInv == BookInv /\ WalletInv /\ BlocksInv

\* The lists: what waits for a line has none, what does not has the right one.
LinesInv ==
    /\ LinesGood(lines)
    /\ \A t \in filling : LinesIn(lines, t) = {}
    /\ \A t \in DOMAIN mapWallet \ Coinbases : Awaited(t) \/ Right(lines, t)

PageInv ==
    /\ page \in Pages \cup {"all"} /\ fRefreshListCtrl \in BOOLEAN /\ painting \in BOOLEAN
    /\ filling \subseteq DOMAIN mapWallet /\ pindexLastBest \in {0} \cup DOMAIN vtx

ShownInv == HistoryInv /\ PageInv /\ LinesInv

KeysGrow == keys \subseteq keys' /\ keys' \subseteq keys \cup NewKeys

Grows ==
    /\ KeysGrow
    /\ DOMAIN mapWallet \subseteq DOMAIN mapWallet'
    /\ vWalletUpdated \subseteq vWalletUpdated'
    /\ DOMAIN vtx \subseteq DOMAIN vtx'
    /\ \A b \in DOMAIN vtx : nHeight'[b] = nHeight[b]
    /\ \A t \in DOMAIN mapWallet' :
          t \in vWalletUpdated' \/ (t \in DOMAIN mapWallet /\ mapWallet'[t] = mapWallet[t])

LEMMA CoinIs ==
    ASSUME NEW t \in Txs, NEW c \in In[t]
    PROVE  /\ c[1] = Foreign \/ (c[1] \in Txs /\ c[2] \in DOMAIN Out[c[1]])
           /\ Foreign \notin Txs
  BY HistoryAssumption DEF HistoryAssumption

LEMMA MineStays ==
    ASSUME NEW t, Payable(t), KeysGrow, NEW i \in DOMAIN Out[t]
    PROVE  IsMine(Out[t][i])' <=> IsMine(Out[t][i])
  BY DEF IsMine, Payable, KeysGrow

LEMMA PayableStays ==
    ASSUME NEW t, Payable(t), KeysGrow
    PROVE  Payable(t)'
  BY DEF IsMine, Payable, KeysGrow

LEMMA SettledStays ==
    ASSUME NEW t \in Txs, Settled(t), KeysGrow, DOMAIN mapWallet \subseteq DOMAIN mapWallet'
    PROVE  Settled(t)'
<1>1. Payable(t)'
  BY PayableStays DEF Settled
<1>2. ASSUME NEW c \in In[t]
      PROVE  \/ c[1] = Foreign \/ InMine(c)'
             \/ c[1] \in Txs /\ Payable(c[1])' /\ ~IsMine(Out[c[1]][c[2]])'
  <2>1. CASE c[1] = Foreign
    BY <2>1
  <2>2. CASE InMine(c)
    BY <2>2 DEF InMine, IsMine, KeysGrow
  <2>3. CASE c[1] \in Txs /\ Payable(c[1]) /\ ~IsMine(Out[c[1]][c[2]])
    <3>1. c[2] \in DOMAIN Out[c[1]]
      BY <2>3, CoinIs
    <3> QED
      BY <2>3, <3>1, MineStays, PayableStays
  <2> QED
    BY <2>1, <2>2, <2>3 DEF Settled
<1> QED
  BY <1>1, <1>2 DEF Settled

\* The coins a transaction of the wallet spends.
LEMMA CoinsStay ==
    ASSUME NEW t \in Txs, Settled(t), KeysGrow, DOMAIN mapWallet \subseteq Txs,
           DOMAIN mapWallet \subseteq DOMAIN mapWallet', DOMAIN mapWallet' \subseteq Txs,
           NEW c \in In[t]
    PROVE  InMine(c)' <=> InMine(c)
<1>1. CASE c[1] = Foreign
  BY <1>1, CoinIs DEF InMine
<1>2. CASE InMine(c)
  BY <1>2 DEF InMine, IsMine, KeysGrow
<1>3. CASE c[1] \in Txs /\ Payable(c[1]) /\ ~IsMine(Out[c[1]][c[2]])
  <2>1. c[2] \in DOMAIN Out[c[1]]
    BY <1>3, CoinIs
  <2> QED
    BY <1>3, <2>1, MineStays DEF InMine
<1> QED
  BY <1>1, <1>2, <1>3 DEF Settled

\* What is shown of a transaction depends on these alone.
LEMMA KindSame ==
    ASSUME NEW t, Mine(t)' = Mine(t), \A c \in In[t] : InMine(c)' <=> InMine(c)
    PROVE  /\ Kind(t)' = Kind(t) /\ OutsShown(t)' = OutsShown(t)
           /\ page' = page /\ t \notin Coinbases => (Filtered(t)' <=> Filtered(t))
<1>1. CASE t \in Coinbases
  BY <1>1 DEF Kind, OutsShown
<1>2. CASE t \notin Coinbases
  <2>1. {c \in In[t] : InMine(c)}' = {c \in In[t] : InMine(c)}
    OBVIOUS
  <2>2. GetDebit(t)' = GetDebit(t)
    BY <2>1 DEF GetDebit
  <2>3. GetCredit(t)' = GetCredit(t)
    BY <1>2 DEF GetCredit, GetBlocksToMaturity
  <2>4. Net(t)' = Net(t)
    BY <2>2, <2>3 DEF Net
  <2>5. AllFromMe(t)' <=> AllFromMe(t)
    BY DEF AllFromMe
  <2>6. Others(t)' = Others(t)
    BY DEF Others
  <2>7. Kind(t)' = Kind(t)
    BY <1>2, <2>4, <2>5, <2>6 DEF Kind
  <2>8. OutsShown(t)' = OutsShown(t)
    BY <2>6, <2>7 DEF OutsShown
  <2>9. Kind(t) # "generated"
    BY <1>2 DEF Kind
  <2>10. page' = page => (Filtered(t)' <=> Filtered(t))
    BY <2>7, <2>9 DEF Filtered
  <2> QED
    BY <2>7, <2>8, <2>10
<1> QED
  BY <1>1, <1>2

LEMMA KindStays ==
    ASSUME NEW t \in DOMAIN mapWallet, WalletInv, KeysGrow,
           DOMAIN mapWallet \subseteq DOMAIN mapWallet', DOMAIN mapWallet' \subseteq Txs
    PROVE  /\ Kind(t)' = Kind(t) /\ OutsShown(t)' = OutsShown(t)
           /\ page' = page /\ t \notin Coinbases => (Filtered(t)' <=> Filtered(t))
<1>1. t \in Txs /\ Settled(t) /\ Payable(t) /\ DOMAIN mapWallet \subseteq Txs
  BY DEF WalletInv, Settled
<1>2. Mine(t)' = Mine(t)
  BY <1>1, MineStays DEF Mine
<1>3. \A c \in In[t] : InMine(c)' <=> InMine(c)
  BY <1>1, CoinsStay
<1> QED
  BY <1>2, <1>3, KindSame

\* All that is in the wallet can be shown.
LEMMA WalletIsShown ==
    ASSUME HistoryInv
    PROVE  WalletShows
<1> SUFFICES ASSUME NEW t \in DOMAIN mapWallet PROVE Showable(t)
  BY DEF WalletShows
<1>1. t \in Txs /\ mapWallet[t] \in {0} \cup DOMAIN vtx
  BY DEF HistoryInv, WalletInv
<1>2. Len(Out[t]) \in Nat /\ DOMAIN Out[t] = 1 .. Len(Out[t])
  BY <1>1, HistoryAssumption DEF HistoryAssumption
<1>3. OutsShown(t) \subseteq 0 .. Len(Out[t])
  BY <1>2 DEF OutsShown, Others
<1>4. OutsShown(t) # {}
  <2>1. CASE Kind(t) = "sent"
    <3>1. Others(t) # {}
      BY <2>1 DEF Kind
    <3> QED
      BY <2>1, <3>1 DEF OutsShown
  <2>2. CASE Kind(t) # "sent"
    BY <2>2 DEF OutsShown
  <2> QED
    BY <2>1, <2>2
<1>5. ASSUME NEW k \in Nat PROVE strSort(t, k) \in Line
  <2>1. CASE mapWallet[t] = 0
    BY <1>1, <2>1 DEF strSort, Line, Unrecorded
  <2>2. CASE mapWallet[t] # 0
    <3>1. nHeight[mapWallet[t]] \in Nat
      <4>1. nHeight \in Seq(Nat) /\ vtx \in Seq(SUBSET Txs) /\ Len(nHeight) = Len(vtx)
        BY DEF HistoryInv, BlocksInv
      <4>2. DOMAIN nHeight = DOMAIN vtx /\ DOMAIN nHeight = 1 .. Len(nHeight)
        BY <4>1, LenProperties
      <4> QED
        BY <1>1, <2>2, <4>1, <4>2, ElementOfSeq
    <3> QED
      BY <1>1, <2>2, <3>1 DEF strSort, Line
  <2> QED
    BY <2>1, <2>2
<1> QED
  BY <1>1, <1>2, <1>3, <1>4, <1>5 DEF Showable

\* The list stays what it was while the wallet grows.
LEMMA LinesStay ==
    ASSUME NEW l, LinesGood(l), WalletInv, KeysGrow,
           DOMAIN mapWallet \subseteq DOMAIN mapWallet', DOMAIN mapWallet' \subseteq Txs, page' = page
    PROVE  LinesGood(l)'
<1>1. l \in List /\ \A i \in DOMAIN l : l[i].tx \in DOMAIN mapWallet
  BY DEF LinesGood
<1>2. l \in Seq(Line) /\ DOMAIN l = 1 .. Len(l)
  BY <1>1, LenProperties DEF List
<1>3. ASSUME NEW t \in DOMAIN mapWallet'
      PROVE  /\ \A i \in LinesIn(l, t) : l[i].out \in OutsShown(t)'
             /\ Few(t)' => Falling(l, t)
             /\ t \notin Coinbases /\ Filtered(t)' => LinesIn(l, t) = {}
  <2>1. CASE t \in DOMAIN mapWallet
    <3>1. OutsShown(t)' = OutsShown(t) /\ (t \notin Coinbases => (Filtered(t)' <=> Filtered(t)))
      BY <2>1, KindStays
    <3>2. Few(t)' <=> Few(t)
      BY <3>1 DEF Few
    <3> QED
      BY <2>1, <3>1, <3>2 DEF LinesGood
  <2>2. CASE t \notin DOMAIN mapWallet
    <3>1. LinesIn(l, t) = {}
      BY <1>1, <1>2, <2>2, LinesInIs
    <3> QED
      BY <3>1 DEF Falling
  <2> QED
    BY <2>1, <2>2
<1> QED
  BY <1>1, <1>3 DEF LinesGood

LEMMA RightStays ==
    ASSUME NEW l, NEW t \in DOMAIN mapWallet \ Coinbases, Right(l, t), WalletInv, KeysGrow,
           DOMAIN mapWallet \subseteq DOMAIN mapWallet', DOMAIN mapWallet' \subseteq Txs, page' = page,
           strSort(t, 0)' = strSort(t, 0)
    PROVE  Right(l, t)'
<1>1. Kind(t)' = Kind(t) /\ (Filtered(t)' <=> Filtered(t))
  BY KindStays
<1> QED
  BY <1>1 DEF Right

\* Whatever changes the wallet leaves the list as it should be.
LEMMA LinesGrow ==
    ASSUME HistoryInv, PageInv, LinesInv, HistoryInv', Grows, UNCHANGED listVars
    PROVE  PageInv' /\ LinesInv'
<1> USE DEF listVars
<1>1. PageInv'
  BY DEF PageInv, Grows
<1>2. /\ WalletInv /\ KeysGrow /\ page' = page
      /\ DOMAIN mapWallet \subseteq DOMAIN mapWallet' /\ DOMAIN mapWallet' \subseteq Txs
  BY DEF HistoryInv, WalletInv, Grows
<1>3. LinesGood(lines)'
  <2> DEFINE l == lines
  <2>1. LinesGood(l)
    BY DEF LinesInv
  <2>2. lines' = lines
    OBVIOUS
  <2>3. \A m : LinesGood(m) => LinesGood(m)'
    BY <1>2, LinesStay
  <2> QED
    BY <2>1, <2>2, <2>3 DEF LinesGood
<1>4. (\A t \in filling : LinesIn(lines, t) = {})'
  BY DEF LinesInv
<1>5. ASSUME NEW t \in DOMAIN mapWallet' \ Coinbases, ~Awaited(t)' PROVE Right(lines, t)'
  <2>1. t \notin vWalletUpdated' /\ ~Awaited(t) /\ t \in DOMAIN mapWallet /\ mapWallet'[t] = mapWallet[t]
    BY <1>5 DEF Awaited, Grows
  <2>2. Right(lines, t)
    BY <2>1, <1>5 DEF LinesInv
  <2>3. strSort(t, 0)' = strSort(t, 0)
    <3>1. mapWallet[t] # 0 => nHeight'[mapWallet[t]] = nHeight[mapWallet[t]]
      BY <2>1 DEF HistoryInv, WalletInv, Grows
    <3> QED
      BY <2>1, <3>1 DEF strSort
  <2>4. \A m : Right(m, t) => Right(m, t)'
    BY <1>2, <1>5, <2>1, <2>3, RightStays
  <2> QED
    BY <2>2, <2>4 DEF Right
<1> QED
  BY <1>1, <1>3, <1>4, <1>5 DEF LinesInv

-----------------------------------------------------------------------------
(* Each change of the wallet and the chain.                                *)

LEMMA PastStays ==
    ASSUME BlocksInv, UNCHANGED chainVars, KeysGrow
    PROVE  BlocksInv' /\ DOMAIN vtx' = DOMAIN vtx /\ \A b \in DOMAIN vtx : nHeight'[b] = nHeight[b]
<1> USE DEF chainVars
<1>1. \A b \in DOMAIN vtx : \A t \in vtx[b] : Payable(t)'
  BY PayableStays DEF BlocksInv
<1>2. IsChain(chain)' /\ IsChain(connecting)'
  BY DEF BlocksInv, IsChain
<1> QED
  BY <1>1, <1>2 DEF BlocksInv

LEMMA NewTxGrows ==
    ASSUME HistoryInv, NEW t \in Txs, NewTx(t)
    PROVE  HistoryInv' /\ Grows
<1>1. keys' = keys /\ mapAddressBook' = mapAddressBook /\ UNCHANGED chainVars /\ KeysGrow
  BY DEF NewTx, KeysGrow
<1>2. BookInv'
  BY <1>1 DEF HistoryInv, BookInv
<1>3. BlocksInv' /\ DOMAIN vtx' = DOMAIN vtx /\ \A b \in DOMAIN vtx : nHeight'[b] = nHeight[b]
  BY <1>1, PastStays DEF HistoryInv
<1>4. /\ t \notin DOMAIN mapWallet /\ Payable(t)
      /\ \A c \in In[t] : c[1] = Foreign \/ InMine(c)
      /\ vWalletUpdated' = vWalletUpdated \cup {t} \cup {c[1] : c \in {d \in In[t] : InMine(d)}}
  BY DEF NewTx
<1>5. /\ DOMAIN mapWallet' = DOMAIN mapWallet \cup {t} /\ mapWallet'[t] = 0
      /\ \A x \in DOMAIN mapWallet : mapWallet'[x] = mapWallet[x]
  BY <1>4 DEF NewTx, InWallet
<1>6. Settled(t)
  BY <1>4 DEF Settled
<1>7. ASSUME NEW x \in DOMAIN mapWallet' PROVE mapWallet'[x] \in {0} \cup DOMAIN vtx' /\ Settled(x)' /\ x \in Txs
  <2>1. x \in Txs /\ Settled(x)
    BY <1>5, <1>6 DEF HistoryInv, WalletInv
  <2>2. Settled(x)'
    BY <1>1, <1>5, <2>1, SettledStays
  <2>3. mapWallet'[x] \in {0} \cup DOMAIN vtx'
    BY <1>3, <1>5 DEF HistoryInv, WalletInv
  <2> QED
    BY <2>1, <2>2, <2>3
<1>8. vWalletUpdated' \subseteq Txs \cup {Foreign}
  BY <1>4, CoinIs DEF HistoryInv, WalletInv
<1>9. WalletInv'
  BY <1>1, <1>7, <1>8 DEF HistoryInv, WalletInv
<1>10. Grows
  BY <1>1, <1>3, <1>4, <1>5 DEF Grows
<1> QED
  BY <1>2, <1>3, <1>9, <1>10 DEF HistoryInv

LEMMA SetBestChainGrows ==
    ASSUME HistoryInv, SetBestChain
    PROVE  HistoryInv' /\ Grows
<1>1. /\ UNCHANGED <<keys, mapAddressBook, mapWallet, vtx, nHeight>> /\ KeysGrow
      /\ chain' = connecting /\ connecting' = <<>>
      /\ vWalletUpdated' = vWalletUpdated \cup {hashPrevBestCoinBase}
  BY DEF SetBestChain, KeysGrow
<1>2. BookInv'
  BY <1>1 DEF HistoryInv, BookInv
<1>3. WalletInv'
  <2>1. \A t \in DOMAIN mapWallet : Settled(t)'
    BY <1>1, SettledStays DEF HistoryInv, WalletInv
  <2> QED
    BY <1>1, <2>1 DEF HistoryInv, WalletInv, BlocksInv
<1>4. hashPrevBestCoinBase' \in Txs \cup {Foreign}
  <2> DEFINE own == vtx[connecting[Len(connecting)]] \cap Coinbases
  <2>1. own \subseteq Txs
    BY HistoryAssumption DEF HistoryAssumption
  <2>2. hashPrevBestCoinBase' = IF own = {} THEN Foreign ELSE CHOOSE t \in own : TRUE
    BY DEF SetBestChain
  <2> HIDE DEF own
  <2> QED
    BY <2>1, <2>2
<1>5. IsChain(chain)' /\ IsChain(connecting)'
  <2>1. IsChain(connecting)
    BY DEF HistoryInv, BlocksInv
  <2>2. IsChain(chain)'
    BY <1>1, <2>1 DEF IsChain
  <2>3. IsChain(connecting)'
    BY <1>1 DEF IsChain
  <2> QED
    BY <2>2, <2>3
<1>6. \A b \in DOMAIN vtx : \A t \in vtx[b] : Payable(t)'
  BY <1>1, PayableStays DEF HistoryInv, BlocksInv
<1>7. BlocksInv'
  BY <1>1, <1>4, <1>5, <1>6 DEF HistoryInv, BlocksInv
<1>8. Grows
  BY <1>1 DEF Grows
<1> QED
  BY <1>2, <1>3, <1>7, <1>8 DEF HistoryInv

LEMMA BookStays ==
    ASSUME BookInv, NEW s \in Strings, NEW l \in Labels, mapAddressBook' = Recorded(mapAddressBook, s, l)
    PROVE  BookInv'
  BY DEF BookInv, Recorded

\* A new key, or a label.
LEMMA KeysGrows ==
    ASSUME HistoryInv, getnewaddress \/ setlabel
    PROVE  HistoryInv' /\ Grows
<1>1. UNCHANGED <<mapWallet, chainVars, vWalletUpdated>> /\ KeysGrow
  BY DEF getnewaddress, setlabel, KeysGrow
<1>2. BookInv'
  <2>1. BookInv
    BY DEF HistoryInv
  <2>2. PICK s \in Strings, l \in Labels : mapAddressBook' = Recorded(mapAddressBook, s, l)
    BY DEF getnewaddress, setlabel
  <2> QED
    BY <2>1, <2>2, BookStays
<1>3. BlocksInv' /\ DOMAIN vtx' = DOMAIN vtx /\ \A b \in DOMAIN vtx : nHeight'[b] = nHeight[b]
  BY <1>1, PastStays DEF HistoryInv
<1>4. WalletInv'
  <2>1. \A t \in DOMAIN mapWallet : Settled(t)'
    BY <1>1, SettledStays DEF HistoryInv, WalletInv
  <2>2. keys' \subseteq FirstKeys \cup NewKeys
    BY <1>1 DEF HistoryInv, WalletInv, KeysGrow
  <2> QED
    BY <1>1, <1>3, <2>1, <2>2 DEF HistoryInv, WalletInv
<1>5. Grows
  BY <1>1, <1>3 DEF Grows
<1> QED
  BY <1>2, <1>3, <1>4, <1>5 DEF HistoryInv

\* What ConnectBlocks makes of the sequences.
IsJoin(w, v, u, S) ==
    /\ w \in Seq(S) /\ Len(w) = Len(v) + Len(u)
    /\ \A i \in 1 .. (Len(v) + Len(u)) : w[i] = IF i <= Len(v) THEN v[i] ELSE u[i - Len(v)]

LEMMA Joined ==
    ASSUME NEW S, NEW v \in Seq(S), NEW u \in Seq(S)
    PROVE  IsJoin(v \o u, v, u, S)
  BY ConcatProperties DEF IsJoin

LEMMA TwoMore ==
    ASSUME NEW S, NEW v \in Seq(S), NEW B \in S, NEW C \in S, NEW w, w = v \o <<B, C>>
    PROVE  /\ w \in Seq(S) /\ Len(w) = Len(v) + 2
           /\ \A b \in 1 .. Len(v) : w[b] = v[b]
           /\ w[Len(v) + 1] = B /\ w[Len(v) + 2] = C
<1> DEFINE u == <<B, C>>
<1>1. u \in Seq(S) /\ Len(u) = 2 /\ u[1] = B /\ u[2] = C
  OBVIOUS
<1>2. w = v \o u
  OBVIOUS
<1> HIDE DEF u
<1>3. /\ w \in Seq(S) /\ Len(w) = Len(v) + Len(u)
      /\ \A i \in 1 .. (Len(v) + Len(u)) : w[i] = IF i <= Len(v) THEN v[i] ELSE u[i - Len(v)]
  <2>1. IsJoin(v \o u, v, u, S)
    BY <1>1, Joined
  <2> QED
    BY <1>2, <2>1 DEF IsJoin
<1>4. Len(v) \in Nat
  BY LenProperties
<1>5. Len(v) + 1 \in 1 .. (Len(v) + 2) /\ Len(v) + 2 \in 1 .. (Len(v) + 2)
  BY <1>4
<1>6. \A b \in 1 .. Len(v) : b \in 1 .. (Len(v) + 2)
  BY <1>4
<1>7. w[Len(v) + 1] = u[1] /\ w[Len(v) + 2] = u[2]
  BY <1>1, <1>3, <1>4, <1>5
<1> QED
  BY <1>1, <1>3, <1>4, <1>6, <1>7

Numbered(w, s, k, m) ==
    /\ w \in Seq(Nat) /\ Len(w) = Len(s) + k
    /\ \A i \in 1 .. Len(s) : w[i] = s[i]
    /\ \A i \in (Len(s) + 1) .. (Len(s) + k) : w[i] = m + (i - Len(s))

LEMMA MoreNumbers ==
    ASSUME NEW s \in Seq(Nat), NEW k \in Nat, NEW m \in Nat, NEW w, w = s \o [i \in 1 .. k |-> m + i]
    PROVE  Numbered(w, s, k, m)
<1> DEFINE u == [i \in 1 .. k |-> m + i]
<1>1. u \in [1 .. k -> Nat] /\ \A i \in 1 .. k : u[i] = m + i
  OBVIOUS
<1>2. w = s \o u
  OBVIOUS
<1> HIDE DEF u
<1>3. u \in Seq(Nat)
  BY <1>1, SeqDef
<1>4. Len(u) = k
  BY <1>1, <1>3, LenProperties
<1>5. /\ w \in Seq(Nat) /\ Len(w) = Len(s) + Len(u)
      /\ \A i \in 1 .. (Len(s) + Len(u)) : w[i] = IF i <= Len(s) THEN s[i] ELSE u[i - Len(s)]
  <2>1. IsJoin(s \o u, s, u, Nat)
    BY <1>3, Joined
  <2> QED
    BY <1>2, <2>1 DEF IsJoin
<1>6. Len(s) \in Nat
  BY LenProperties
<1>7. ASSUME NEW i \in (Len(s) + 1) .. (Len(s) + k) PROVE w[i] = m + (i - Len(s))
  <2>1. i \in 1 .. (Len(s) + k) /\ ~(i <= Len(s)) /\ i - Len(s) \in 1 .. k
    BY <1>6
  <2> QED
    BY <1>1, <1>4, <1>5, <2>1
<1>8. \A i \in 1 .. Len(s) : w[i] = s[i]
  BY <1>4, <1>5, <1>6
<1> QED
  BY <1>4, <1>5, <1>7, <1>8 DEF Numbered

LEMMA BaseIs ==
    ASSUME BlocksInv,
           NEW base \in {chain} \cup (IF chain = <<>> THEN {} ELSE {SubSeq(chain, 1, Len(chain) - 1)})
    PROVE  /\ IsChain(base) /\ Len(chain) - Len(base) + 1 \in {1, 2}
           /\ \A h \in DOMAIN base : h \in DOMAIN chain /\ base[h] = chain[h]
<1>1. IsChain(chain) /\ chain \in Seq(Nat) /\ Len(chain) \in Nat
  BY LenProperties DEF BlocksInv, IsChain
<1>2. CASE base = chain
  BY <1>1, <1>2
<1>3. CASE chain # <<>> /\ base = SubSeq(chain, 1, Len(chain) - 1)
  <2> DEFINE m == Len(chain) - 1
  <2>1. Len(chain) # 0
    BY <1>1, <1>3, EmptySeq
  <2>2. m \in Nat /\ m < Len(chain)
    BY <1>1, <2>1
  <2>3. base \in Seq(Nat) /\ Len(base) = m /\ DOMAIN base = 1 .. m /\ \A h \in 1 .. m : base[h] = chain[h]
    <3>1. 1 \in Int /\ m \in Int /\ \A i \in 1 .. m : i \in 1 .. Len(chain) /\ chain[i] \in Nat
      BY <1>1, <2>2, ElementOfSeq
    <3> HIDE DEF m
    <3>2. base = SubSeq(chain, 1, m)
      BY <1>3 DEF m
    <3>3. /\ base \in Seq(Nat) /\ Len(base) = (IF 1 <= m THEN m - 1 + 1 ELSE 0)
          /\ \A i \in 1 .. m - 1 + 1 : base[i] = chain[1 + i - 1]
      BY <3>1, <3>2, SubSeqProperties
    <3>4. Len(base) = m /\ \A h \in 1 .. m : base[h] = chain[h]
      BY <2>2, <3>3
    <3> QED
      BY <3>3, <3>4, LenProperties
  <2>4. DOMAIN chain = 1 .. Len(chain)
    BY <1>1, LenProperties
  <2>5. \A h \in DOMAIN base : h \in DOMAIN chain /\ base[h] = chain[h]
    BY <1>1, <2>2, <2>3, <2>4
  <2>6. IsChain(base)
    BY <1>1, <2>3, <2>5 DEF IsChain
  <2> QED
    BY <1>1, <2>2, <2>3, <2>5, <2>6
<1> QED
  BY <1>2, <1>3

\* What a block brings to the wallet is settled.
LEMMA BlockTxs ==
    ASSUME NEW base, NEW B \in Blocks(base), \A x \in base : x \in Txs /\ Payable(x), NEW t \in B
    PROVE  /\ t \in Txs /\ Payable(t) /\ t \notin base
           /\ t \notin DOMAIN mapWallet => Settled(t)
<1>1. t \in Txs /\ Payable(t) /\ t \notin base /\ \A x \in B : x \in Txs /\ Payable(x)
  BY DEF Blocks
<1>2. ASSUME t \notin DOMAIN mapWallet, NEW c \in In[t], c[1] # Foreign
      PROVE  c[1] \in Txs /\ Payable(c[1]) /\ ~IsMine(Out[c[1]][c[2]])
  <2>1. c[1] \in base \cup B /\ ~IsMine(Out[c[1]][c[2]])
    BY <1>2 DEF Blocks
  <2> QED
    BY <1>1, <2>1
<1> QED
  BY <1>1, <1>2 DEF Settled

LEMMA ChainedIs ==
    ASSUME BlocksInv, NEW c, IsChain(c)
    PROVE  \A x \in Chained(c) : x \in Txs /\ Payable(x)
<1> SUFFICES ASSUME NEW h \in DOMAIN c, NEW x \in vtx[c[h]] PROVE x \in Txs /\ Payable(x)
  BY DEF Chained
<1>1. c[h] \in DOMAIN vtx /\ vtx \in Seq(SUBSET Txs)
  BY DEF IsChain, BlocksInv
<1>2. vtx[c[h]] \in SUBSET Txs
  BY <1>1, LenProperties, ElementOfSeq
<1> QED
  BY <1>1, <1>2 DEF BlocksInv

Bases == {chain} \cup (IF chain = <<>> THEN {} ELSE {SubSeq(chain, 1, Len(chain) - 1)})
Brought(B, C) == {t \in B \cup C : Mine(t) # {} \/ t \in DOMAIN mapWallet}
Connects(base, k, B, C) ==
    /\ Len(vtx) + k <= MaxBlocks
    /\ B \in Blocks(Chained(base))
    /\ C \in IF k = 2 THEN Blocks(Chained(base) \cup B) ELSE {{}}
    /\ \A t \in B \cup C : Mature(base, t)
    /\ vtx' = IF k = 2 THEN vtx \o <<B, C>> ELSE Append(vtx, B)
    /\ nHeight' = nHeight \o [i \in 1 .. k |-> Len(base) + i]
    /\ connecting' = base \o [i \in 1 .. k |-> Len(vtx) + i]
    /\ mapWallet' = [t \in DOMAIN mapWallet \cup Brought(B, C) |->
                        IF t \in B THEN Len(vtx) + 1
                        ELSE IF t \in C THEN Len(vtx) + 2 ELSE mapWallet[t]]
    /\ vWalletUpdated' = vWalletUpdated \cup Brought(B, C)

LEMMA ConnectBlocksIs ==
    ASSUME ConnectBlocks
    PROVE  /\ connecting = <<>>
           /\ \E base \in Bases : \E B, C : Connects(base, Len(chain) - Len(base) + 1, B, C)
           /\ UNCHANGED <<keys, mapAddressBook, chain, hashPrevBestCoinBase>>
  BY ZenonT(60) DEF ConnectBlocks, Connects, Bases, Brought, HeightsOn

\* The blocks before and after.
LEMMA ConnectsBlocks ==
    ASSUME BlocksInv, NEW base, IsChain(base), NEW k \in {1, 2}, NEW B, NEW C, Connects(base, k, B, C)
    PROVE  /\ \A t \in B \cup C : t \in Txs /\ Payable(t) /\ (t \notin DOMAIN mapWallet => Settled(t))
           /\ B \cap Chained(base) = {} /\ C \cap (B \cup Chained(base)) = {} /\ (k = 1 => C = {})
           /\ vtx' \in Seq(SUBSET Txs) /\ Len(vtx') = Len(vtx) + k
           /\ \A b \in 1 .. Len(vtx) : vtx'[b] = vtx[b]
           /\ vtx'[Len(vtx) + 1] = B /\ (k = 2 => vtx'[Len(vtx) + 2] = C)
<1>1. B \in Blocks(Chained(base)) /\ (k = 2 => C \in Blocks(Chained(base) \cup B)) /\ (k = 1 => C = {})
  BY DEF Connects
<1>2. \A x \in Chained(base) : x \in Txs /\ Payable(x)
  BY ChainedIs
<1>3. \A t \in B : /\ t \in Txs /\ Payable(t) /\ t \notin Chained(base)
                   /\ t \notin DOMAIN mapWallet => Settled(t)
  BY <1>1, <1>2, BlockTxs
<1>4. ASSUME k = 2
      PROVE  \A t \in C : /\ t \in Txs /\ Payable(t) /\ t \notin Chained(base) \cup B
                          /\ t \notin DOMAIN mapWallet => Settled(t)
  <2> DEFINE both == Chained(base) \cup B
  <2>1. C \in Blocks(both) /\ \A x \in both : x \in Txs /\ Payable(x)
    BY <1>1, <1>2, <1>3, <1>4
  <2> HIDE DEF both
  <2>2. \A t \in C : /\ t \in Txs /\ Payable(t) /\ t \notin both
                     /\ t \notin DOMAIN mapWallet => Settled(t)
    BY <2>1, BlockTxs
  <2> QED
    BY <2>2 DEF both
<1>5. B \in SUBSET Txs /\ C \in SUBSET Txs
  BY <1>1, <1>3, <1>4
<1>6. vtx \in Seq(SUBSET Txs) /\ vtx' = IF k = 2 THEN vtx \o <<B, C>> ELSE Append(vtx, B)
  BY DEF BlocksInv, Connects
<1>7. /\ vtx' \in Seq(SUBSET Txs) /\ Len(vtx') = Len(vtx) + k
      /\ \A b \in 1 .. Len(vtx) : vtx'[b] = vtx[b]
      /\ vtx'[Len(vtx) + 1] = B /\ (k = 2 => vtx'[Len(vtx) + 2] = C)
  <2> DEFINE S == SUBSET Txs
             v == vtx
             w == vtx'
  <2>1. v \in Seq(S) /\ B \in S /\ C \in S /\ w = IF k = 2 THEN v \o <<B, C>> ELSE Append(v, B)
    BY <1>5, <1>6
  <2> HIDE DEF S, v, w
  <2>2. CASE k = 1
    <3>1. w = Append(v, B)
      BY <2>1, <2>2
    <3> QED
      BY <2>1, <2>2, <3>1, AppendProperties DEF S, v, w
  <2>3. CASE k = 2
    <3>1. w = v \o <<B, C>>
      BY <2>1, <2>3
    <3>2. /\ w \in Seq(S) /\ Len(w) = Len(v) + 2
          /\ \A b \in 1 .. Len(v) : w[b] = v[b]
          /\ w[Len(v) + 1] = B /\ w[Len(v) + 2] = C
      BY <2>1, <3>1, TwoMore
    <3> QED
      BY <2>3, <3>2 DEF S, v, w
  <2> QED
    BY <2>2, <2>3
<1>8. \A t \in B \cup C : t \in Txs /\ Payable(t) /\ (t \notin DOMAIN mapWallet => Settled(t))
  BY <1>1, <1>3, <1>4
<1>9. B \cap Chained(base) = {} /\ C \cap (B \cup Chained(base)) = {} /\ (k = 1 => C = {})
  BY <1>1, <1>3, <1>4
<1> QED
  BY <1>7, <1>8, <1>9

\* The new chain: the base, then B and C.
NewChain(base, k, B, C) ==
    LET n == Len(vtx)
        m == Len(base)
    IN  /\ connecting' \in Seq(Nat) /\ DOMAIN connecting' = 1 .. (m + k)
        /\ \A h \in 1 .. m : connecting'[h] = base[h]
        /\ \A h \in 1 .. (m + k) :
               /\ connecting'[h] \in DOMAIN vtx' /\ nHeight'[connecting'[h]] = h
               /\ h <= m => vtx'[connecting'[h]] = vtx[base[h]] /\ vtx[base[h]] \subseteq Chained(base)
               /\ h = m + 1 => connecting'[h] = n + 1 /\ vtx'[connecting'[h]] = B
               /\ h = m + 2 => k = 2 /\ connecting'[h] = n + 2 /\ vtx'[connecting'[h]] = C
NewBlocks(k) ==
    /\ nHeight' \in Seq(Nat) /\ Len(nHeight') = Len(vtx) + k /\ DOMAIN vtx' = 1 .. (Len(vtx) + k)
    /\ DOMAIN vtx = 1 .. Len(vtx) /\ Len(vtx) \in Nat
    /\ DOMAIN vtx \subseteq DOMAIN vtx' /\ \A b \in DOMAIN vtx : vtx'[b] = vtx[b] /\ nHeight'[b] = nHeight[b]

LEMMA ConnectsAre ==
    ASSUME BlocksInv, NEW base, IsChain(base), NEW k \in {1, 2}, NEW B, NEW C, Connects(base, k, B, C)
    PROVE  NewChain(base, k, B, C) /\ NewBlocks(k)
<1> DEFINE n == Len(vtx)
           m == Len(base)
<1>1. /\ \A t \in B \cup C : t \in Txs /\ Payable(t)
      /\ B \cap Chained(base) = {} /\ C \cap (B \cup Chained(base)) = {} /\ (k = 1 => C = {})
      /\ vtx' \in Seq(SUBSET Txs) /\ Len(vtx') = n + k
      /\ \A b \in 1 .. n : vtx'[b] = vtx[b]
      /\ vtx'[n + 1] = B /\ (k = 2 => vtx'[n + 2] = C)
  BY ConnectsBlocks
<1>2. /\ vtx \in Seq(SUBSET Txs) /\ nHeight \in Seq(Nat) /\ Len(nHeight) = n /\ n \in Nat
      /\ DOMAIN vtx = 1 .. n /\ base \in Seq(Nat) /\ m \in Nat /\ DOMAIN base = 1 .. m
  BY LenProperties DEF BlocksInv, IsChain
<1>3. DOMAIN vtx' = 1 .. (n + k)
  BY <1>1, LenProperties
<1>4. /\ nHeight' = nHeight \o [i \in 1 .. k |-> m + i] /\ connecting' = base \o [i \in 1 .. k |-> n + i]
      /\ n + k <= MaxBlocks
  BY DEF Connects
<1> HIDE DEF n, m
<1>5. /\ nHeight' \in Seq(Nat) /\ Len(nHeight') = n + k
      /\ \A b \in 1 .. n : nHeight'[b] = nHeight[b]
      /\ \A b \in (n + 1) .. (n + k) : nHeight'[b] = m + (b - n)
  <2> DEFINE w == nHeight'
             s == nHeight
  <2>1. w = s \o [i \in 1 .. k |-> m + i] /\ Len(s) = n /\ s \in Seq(Nat) /\ k \in Nat /\ m \in Nat
    BY <1>2, <1>4
  <2> HIDE DEF w, s
  <2>2. Numbered(w, s, k, m)
    BY <2>1, MoreNumbers
  <2> QED
    BY <2>1, <2>2 DEF Numbered, w, s
<1>6. /\ connecting' \in Seq(Nat) /\ Len(connecting') = m + k
      /\ \A h \in 1 .. m : connecting'[h] = base[h]
      /\ \A h \in (m + 1) .. (m + k) : connecting'[h] = n + (h - m)
  <2> DEFINE w == connecting'
  <2>1. w = base \o [i \in 1 .. k |-> n + i] /\ Len(base) = m /\ base \in Seq(Nat) /\ k \in Nat /\ n \in Nat
    BY <1>2, <1>4 DEF m
  <2> HIDE DEF w
  <2>2. Numbered(w, base, k, n)
    BY <2>1, MoreNumbers
  <2> QED
    BY <2>1, <2>2 DEF Numbered, w
<1>7. DOMAIN connecting' = 1 .. (m + k)
  BY <1>6, LenProperties
<1>8. DOMAIN vtx \subseteq DOMAIN vtx' /\ \A b \in DOMAIN vtx : vtx'[b] = vtx[b] /\ nHeight'[b] = nHeight[b]
  BY <1>1, <1>2, <1>3, <1>5
<1>9. ASSUME NEW h \in 1 .. (m + k)
       PROVE  /\ connecting'[h] \in DOMAIN vtx' /\ nHeight'[connecting'[h]] = h
              /\ h <= m => vtx'[connecting'[h]] = vtx[base[h]] /\ vtx[base[h]] \subseteq Chained(base)
              /\ h = m + 1 => connecting'[h] = n + 1 /\ vtx'[connecting'[h]] = B
              /\ h = m + 2 => k = 2 /\ connecting'[h] = n + 2 /\ vtx'[connecting'[h]] = C
  <2>1. CASE h <= m
    <3>1. h \in 1 .. m /\ connecting'[h] = base[h] /\ base[h] \in DOMAIN vtx /\ nHeight[base[h]] = h
      <4>1. h \in 1 .. m
        BY <1>2, <2>1
      <4>2. base[h] \in DOMAIN vtx /\ nHeight[base[h]] = h
        BY <1>2, <4>1 DEF IsChain
      <4> QED
        BY <1>6, <4>1, <4>2
    <3>2. vtx[base[h]] \subseteq Chained(base)
      BY <1>2, <3>1 DEF Chained
    <3> DEFINE b == base[h]
    <3>3. b \in DOMAIN vtx' /\ vtx'[b] = vtx[b] /\ nHeight'[b] = nHeight[b]
      BY <1>8, <3>1
    <3> HIDE DEF b
    <3>4. connecting'[h] = b /\ nHeight'[b] = h /\ vtx'[b] = vtx[base[h]] /\ vtx[base[h]] \subseteq Chained(base)
      BY <3>1, <3>2, <3>3 DEF b
    <3> QED
      BY <1>2, <2>1, <3>3, <3>4
  <2>2. CASE h = m + 1
    <3>1. h \in (m + 1) .. (m + k) /\ n + 1 \in (n + 1) .. (n + k) /\ n + 1 \in 1 .. (n + k)
      BY <1>2, <2>2
    <3> DEFINE b == n + 1
    <3>2. connecting'[h] = n + (h - m) /\ nHeight'[b] = m + (b - n)
      <4>1. connecting'[h] = n + (h - m)
        BY <1>6, <3>1
      <4>2. b \in (n + 1) .. (n + k)
        BY <3>1
      <4> HIDE DEF b
      <4>3. nHeight'[b] = m + (b - n)
        BY <1>5, <4>2
      <4> QED
        BY <4>1, <4>3
    <3>3. connecting'[h] = n + 1 /\ nHeight'[n + 1] = m + 1
      BY <1>2, <2>2, <3>2
    <3> QED
      BY <1>1, <1>2, <1>3, <2>2, <3>1, <3>3
  <2>3. CASE h = m + 2
    <3>1. k = 2 /\ h \in (m + 1) .. (m + k) /\ n + 2 \in (n + 1) .. (n + k) /\ n + 2 \in 1 .. (n + k)
      BY <1>2, <2>3
    <3> DEFINE b == n + 2
    <3>2. connecting'[h] = n + (h - m) /\ nHeight'[b] = m + (b - n)
      <4>1. connecting'[h] = n + (h - m)
        BY <1>6, <3>1
      <4>2. b \in (n + 1) .. (n + k)
        BY <3>1
      <4> HIDE DEF b
      <4>3. nHeight'[b] = m + (b - n)
        BY <1>5, <4>2
      <4> QED
        BY <4>1, <4>3
    <3>3. connecting'[h] = n + 2 /\ nHeight'[n + 2] = m + 2
      BY <1>2, <2>3, <3>2
    <3> QED
      BY <1>1, <1>2, <1>3, <2>3, <3>1, <3>3
  <2>4. h <= m \/ h = m + 1 \/ h = m + 2
    BY <1>2
  <2> QED
    BY <2>1, <2>2, <2>3, <2>4, Zenon
<1> QED
  BY <1>1, <1>2, <1>3, <1>5, <1>6, <1>7, <1>8, <1>9 DEF NewChain, NewBlocks, n, m

LEMMA ConnectsChains ==
    ASSUME BlocksInv, NEW base, IsChain(base), NEW k \in {1, 2}, NEW B, NEW C, Connects(base, k, B, C),
           UNCHANGED <<chain, hashPrevBestCoinBase>>, KeysGrow
    PROVE  BlocksInv' /\ DOMAIN vtx \subseteq DOMAIN vtx' /\ \A b \in DOMAIN vtx : nHeight'[b] = nHeight[b]
<1> DEFINE n == Len(vtx)
           m == Len(base)
<1>1. /\ \A t \in B \cup C : t \in Txs /\ Payable(t)
      /\ B \cap Chained(base) = {} /\ C \cap (B \cup Chained(base)) = {} /\ (k = 1 => C = {})
      /\ vtx' \in Seq(SUBSET Txs) /\ Len(vtx') = n + k
      /\ vtx'[n + 1] = B /\ (k = 2 => vtx'[n + 2] = C)
  BY ConnectsBlocks
<1>2. NewChain(base, k, B, C) /\ NewBlocks(k)
  BY ConnectsAre
<1>3. m \in Nat /\ n \in Nat /\ DOMAIN base = 1 .. m
  BY <1>2, LenProperties DEF NewBlocks, IsChain
<1>4. n + k <= MaxBlocks
  BY DEF Connects
<1>5. /\ nHeight' \in Seq(Nat) /\ Len(nHeight') = n + k /\ DOMAIN vtx' = 1 .. (n + k) /\ DOMAIN vtx = 1 .. n
      /\ DOMAIN vtx \subseteq DOMAIN vtx' /\ \A b \in DOMAIN vtx : vtx'[b] = vtx[b] /\ nHeight'[b] = nHeight[b]
  BY <1>2 DEF NewBlocks
<1>6. /\ connecting' \in Seq(Nat) /\ DOMAIN connecting' = 1 .. (m + k)
      /\ \A h \in 1 .. m : connecting'[h] = base[h]
  BY <1>2 DEF NewChain
<1>7. ASSUME NEW h \in 1 .. (m + k)
      PROVE  /\ connecting'[h] \in DOMAIN vtx' /\ nHeight'[connecting'[h]] = h
             /\ h <= m => vtx'[connecting'[h]] \subseteq Chained(base)
             /\ h = m + 1 => vtx'[connecting'[h]] = B
             /\ h = m + 2 => vtx'[connecting'[h]] = C
  BY <1>2, Zenon DEF NewChain
<1> HIDE DEF n, m
<1>8. IsChain(chain)'
  <2>1. IsChain(chain)
    BY DEF BlocksInv
  <2>2. DOMAIN vtx \subseteq DOMAIN vtx' /\ \A b \in DOMAIN vtx : vtx'[b] = vtx[b] /\ nHeight'[b] = nHeight[b]
    BY <1>5
  <2> QED
    BY <2>1, <2>2 DEF IsChain
<1>9. ASSUME NEW h \in 1 .. (m + k), NEW g \in 1 .. (m + k), h < g
       PROVE  vtx'[connecting'[h]] \cap vtx'[connecting'[g]] = {}
  <2>1. CASE g <= m
    <3>1. /\ h \in DOMAIN base /\ g \in DOMAIN base
          /\ connecting'[h] = base[h] /\ connecting'[g] = base[g]
      BY <1>3, <1>6, <2>1, <1>9
    <3>2. /\ vtx[base[h]] \cap vtx[base[g]] = {} /\ base[h] \in DOMAIN vtx /\ base[g] \in DOMAIN vtx
      <4>1. /\ \A i \in DOMAIN base : base[i] \in DOMAIN vtx
            /\ \A i, j \in DOMAIN base : i # j => vtx[base[i]] \cap vtx[base[j]] = {}
        BY DEF IsChain
      <4>2. h # g
        BY <1>3, <1>9
      <4> QED
        BY <3>1, <4>1, <4>2
    <3> QED
      BY <1>5, <3>1, <3>2
  <2>2. CASE g = m + 1
    BY <1>1, <1>3, <1>7, <1>9, <2>2
  <2>3. CASE g = m + 2
    BY <1>1, <1>3, <1>7, <1>9, <2>3
  <2> QED
    BY <1>3, <2>1, <2>2, <2>3
<1>10. IsChain(connecting)'
  <2>1. ASSUME NEW h \in 1 .. (m + k), NEW g \in 1 .. (m + k), h # g
        PROVE  vtx'[connecting'[h]] \cap vtx'[connecting'[g]] = {}
    <3>1. CASE h < g
      BY <1>9, <3>1
    <3>2. CASE g < h
      BY <1>9, <3>2
    <3> QED
      BY <1>3, <2>1, <3>1, <3>2
  <2> QED
    BY <1>6, <1>7, <2>1 DEF IsChain
<1>11. ASSUME NEW b \in DOMAIN vtx', NEW t \in vtx'[b] PROVE Payable(t)'
  <2>1. CASE b \in DOMAIN vtx
    <3>1. Payable(t)
      BY <1>5, <1>11, <2>1 DEF BlocksInv
    <3> QED
      BY <3>1, PayableStays
  <2>2. CASE b \notin DOMAIN vtx
    <3>1. b = n + 1 \/ (k = 2 /\ b = n + 2)
      BY <1>3, <1>5, <2>2
    <3>2. Payable(t)
      BY <1>1, <1>11, <3>1
    <3> QED
      BY <3>2, PayableStays
  <2> QED
    BY <2>1, <2>2
<1>12. BlocksInv'
  <2>1. hashPrevBestCoinBase' \in Txs \cup {Foreign}
    BY DEF BlocksInv
  <2>2. Len(nHeight') = Len(vtx') /\ Len(vtx') <= MaxBlocks
    BY <1>1, <1>4, <1>5
  <2> QED
    BY <1>1, <1>5, <1>8, <1>10, <1>11, <2>1, <2>2 DEF BlocksInv
<1> QED
  BY <1>5, <1>12

LEMMA ConnectBlocksGrows ==
    ASSUME HistoryInv, ConnectBlocks
    PROVE  HistoryInv' /\ Grows
<1>1. UNCHANGED <<keys, mapAddressBook, chain, hashPrevBestCoinBase>> /\ KeysGrow
  BY ConnectBlocksIs DEF KeysGrow
<1>2. PICK base \in Bases : \E B, C : Connects(base, Len(chain) - Len(base) + 1, B, C)
  BY ConnectBlocksIs
<1> DEFINE k == Len(chain) - Len(base) + 1
           n == Len(vtx)
<1>3. PICK B, C : Connects(base, k, B, C)
  BY <1>2
<1>4. IsChain(base) /\ k \in {1, 2} /\ BlocksInv
  BY BaseIs DEF HistoryInv, Bases
<1> HIDE DEF k
<1>5. BlocksInv' /\ DOMAIN vtx \subseteq DOMAIN vtx' /\ \A b \in DOMAIN vtx : nHeight'[b] = nHeight[b]
  BY <1>1, <1>3, <1>4, ConnectsChains
<1>6. /\ \A t \in B \cup C : t \in Txs /\ (t \notin DOMAIN mapWallet => Settled(t))
      /\ (k = 1 => C = {}) /\ vtx' \in Seq(SUBSET Txs) /\ Len(vtx') = n + k
  BY <1>3, <1>4, ConnectsBlocks
<1>7. n \in Nat /\ DOMAIN vtx' = 1 .. (n + k)
  BY <1>4, <1>6, LenProperties DEF BlocksInv
<1> DEFINE shown == Brought(B, C)
<1>8. /\ mapWallet' = [t \in DOMAIN mapWallet \cup shown |->
                          IF t \in B THEN n + 1 ELSE IF t \in C THEN n + 2 ELSE mapWallet[t]]
      /\ vWalletUpdated' = vWalletUpdated \cup shown
  BY <1>3 DEF Connects
<1>9. shown \subseteq B \cup C /\ \A t \in DOMAIN mapWallet \ shown : t \notin B \cup C
  BY DEF Brought
<1> HIDE DEF n, shown
<1>10. DOMAIN mapWallet' = DOMAIN mapWallet \cup shown
  BY <1>8
<1>11. ASSUME NEW t \in DOMAIN mapWallet' PROVE mapWallet'[t] \in {0} \cup DOMAIN vtx' /\ Settled(t)' /\ t \in Txs
  <2>1. t \in Txs /\ Settled(t)
    BY <1>6, <1>9, <1>10 DEF HistoryInv, WalletInv
  <2>2. Settled(t)'
    BY <1>1, <1>10, <2>1, SettledStays
  <2>3. mapWallet'[t] \in {0} \cup DOMAIN vtx'
    <3>1. CASE t \in B
      BY <1>4, <1>7, <1>8, <1>10, <3>1
    <3>2. CASE t \notin B /\ t \in C
      <4>1. k = 2
        BY <1>4, <1>6, <3>2
      <4> QED
        BY <1>7, <1>8, <1>10, <3>2, <4>1
    <3>3. CASE t \notin B /\ t \notin C
      <4>1. t \in DOMAIN mapWallet /\ mapWallet'[t] = mapWallet[t]
        BY <1>8, <1>9, <1>10, <3>3
      <4> QED
        BY <1>5, <4>1 DEF HistoryInv, WalletInv
    <3> QED
      BY <3>1, <3>2, <3>3
  <2> QED
    BY <2>1, <2>2, <2>3
<1>12. vWalletUpdated' \subseteq Txs \cup {Foreign}
  BY <1>6, <1>8, <1>9 DEF HistoryInv, WalletInv
<1>13. WalletInv'
  BY <1>1, <1>11, <1>12 DEF HistoryInv, WalletInv
<1>14. \A t \in DOMAIN mapWallet' : t \in vWalletUpdated' \/ (t \in DOMAIN mapWallet /\ mapWallet'[t] = mapWallet[t])
  BY <1>8, <1>9, <1>10
<1>15. Grows
  <2>1. DOMAIN mapWallet \subseteq DOMAIN mapWallet' /\ vWalletUpdated \subseteq vWalletUpdated'
    BY <1>8, <1>10
  <2> QED
    BY <1>1, <1>5, <1>14, <2>1 DEF Grows
<1>16. BookInv'
  BY <1>1 DEF HistoryInv, BookInv
<1> QED
  BY <1>5, <1>13, <1>15, <1>16 DEF HistoryInv

LEMMA HistoryGrows ==
    ASSUME HistoryInv, HistoryNext \/ setlabel
    PROVE  HistoryInv' /\ Grows
<1>1. CASE \E t \in Txs : NewTx(t)
  BY <1>1, NewTxGrows
<1>2. CASE ConnectBlocks
  BY <1>2, ConnectBlocksGrows
<1>3. CASE SetBestChain
  BY <1>3, SetBestChainGrows
<1>4. CASE getnewaddress \/ setlabel
  BY <1>4, KeysGrows
<1> QED
  BY <1>1, <1>2, <1>3, <1>4 DEF HistoryNext

-----------------------------------------------------------------------------
(* The steps of the window.                                                *)

\* The wallet and the chain as they were, but for what waits to be shown.
WalletSame == UNCHANGED <<keys, mapAddressBook, mapWallet, chainVars>>

LEMMA HistorySame ==
    ASSUME HistoryInv, WalletSame, vWalletUpdated' \subseteq vWalletUpdated
    PROVE  HistoryInv'
<1> USE DEF WalletSame, chainVars
<1>1. KeysGrow /\ DOMAIN mapWallet \subseteq DOMAIN mapWallet'
  BY DEF KeysGrow
<1>2. BookInv'
  BY DEF HistoryInv, BookInv
<1>3. BlocksInv'
  BY <1>1, PastStays DEF HistoryInv
<1>4. \A t \in DOMAIN mapWallet : Settled(t)'
  BY <1>1, SettledStays DEF HistoryInv, WalletInv
<1>5. WalletInv'
  BY <1>4 DEF HistoryInv, WalletInv
<1> QED
  BY <1>2, <1>3, <1>5 DEF HistoryInv

LEMMA LinesSame ==
    ASSUME HistoryInv, WalletSame, page' = page
    PROVE  /\ \A l : LinesGood(l) => LinesGood(l)'
           /\ \A l, t : t \in DOMAIN mapWallet \ Coinbases /\ Right(l, t) => Right(l, t)'
<1>1. /\ WalletInv /\ KeysGrow /\ mapWallet' = mapWallet /\ nHeight' = nHeight
      /\ DOMAIN mapWallet \subseteq DOMAIN mapWallet' /\ DOMAIN mapWallet' \subseteq Txs
  BY DEF HistoryInv, WalletInv, WalletSame, chainVars, KeysGrow
<1>2. \A l : LinesGood(l) => LinesGood(l)'
  BY <1>1, LinesStay
<1>3. ASSUME NEW l, NEW t \in DOMAIN mapWallet \ Coinbases, Right(l, t) PROVE Right(l, t)'
  <2>1. strSort(t, 0)' = strSort(t, 0)
    BY <1>1 DEF strSort
  <2> QED
    BY <1>1, <1>3, <2>1, RightStays
<1> QED
  BY <1>2, <1>3

\* What the list becomes.
LEMMA LinesBecome ==
    ASSUME HistoryInv, WalletSame, page' = page, NEW m, lines' = m, LinesGood(m),
           \A t \in filling' : LinesIn(m, t) = {},
           \A t \in DOMAIN mapWallet \ Coinbases : Awaited(t)' \/ Right(m, t)
    PROVE  LinesInv'
<1>1. LinesGood(m)'
  BY LinesSame
<1>2. LinesGood(lines)'
  BY <1>1 DEF LinesGood
<1>3. ASSUME NEW t \in DOMAIN mapWallet' \ Coinbases, ~Awaited(t)' PROVE Right(lines, t)'
  <2>1. t \in DOMAIN mapWallet \ Coinbases
    BY <1>3 DEF WalletSame
  <2>2. Right(m, t)'
    BY <1>3, <2>1, LinesSame
  <2> QED
    BY <2>2 DEF Right
<1> QED
  BY <1>2, <1>3 DEF LinesInv

LEMMA NoLines ==
    /\ \A t : LinesIn(<<>>, t) = {}
    /\ LinesGood(<<>>) /\ LinesGood(<<>>)'
<1>1. DOMAIN <<>> = {} /\ <<>> \in Seq(Line)
  OBVIOUS
<1>2. \A t : LinesIn(<<>>, t) = {}
  BY <1>1 DEF LinesIn
<1>3. <<>> \in List
  BY <1>1 DEF List, Ordered
<1>4. LinesGood(<<>>)
  BY <1>1, <1>2, <1>3 DEF LinesGood, Falling
<1>5. LinesGood(<<>>)'
  BY <1>1, <1>2, <1>3 DEF LinesGood, Falling
<1> QED
  BY <1>2, <1>4, <1>5

LEMMA PageStep ==
    ASSUME ShownInv, OnNotebookPageChanged
    PROVE  ShownInv'
<1>1. /\ filling = {} /\ page' \in Pages /\ fRefreshListCtrl' = TRUE /\ lines' = <<>>
      /\ UNCHANGED <<historyVars, filling, painting, pindexLastBest>>
  BY DEF OnNotebookPageChanged, Busy
<1>2. HistoryInv'
  BY <1>1, HistorySame DEF ShownInv, WalletSame, historyVars, chainVars
<1>3. PageInv'
  BY <1>1 DEF ShownInv, PageInv, historyVars
<1>4. LinesInv'
  <2>1. LinesGood(lines)'
    BY <1>1, NoLines DEF LinesGood
  <2>2. \A t : Awaited(t)'
    BY <1>1 DEF Awaited
  <2> QED
    BY <1>1, <2>1, <2>2 DEF LinesInv
<1> QED
  BY <1>2, <1>3, <1>4 DEF ShownInv

LEMMA IdleStep ==
    ASSUME ShownInv, OnIdle
    PROVE  ShownInv'
<1>1. /\ fRefreshListCtrl' = FALSE /\ vWalletUpdated' = {} /\ lines' = <<>>
      /\ filling' = DOMAIN mapWallet /\ WalletSame
      /\ UNCHANGED <<page, painting, pindexLastBest>>
  BY DEF OnIdle, WalletSame
<1>2. HistoryInv'
  BY <1>1, HistorySame DEF ShownInv
<1>3. PageInv'
  BY <1>1 DEF ShownInv, PageInv, WalletSame, chainVars
<1>4. LinesInv'
  <2>1. LinesGood(lines)'
    BY <1>1, NoLines DEF LinesGood
  <2>2. \A t \in DOMAIN mapWallet' : Awaited(t)'
    BY <1>1 DEF Awaited, WalletSame
  <2>3. \A t : LinesIn(lines', t) = {}
    BY <1>1, NoLines
  <2> QED
    BY <2>1, <2>2, <2>3 DEF LinesInv
<1> QED
  BY <1>2, <1>3, <1>4 DEF ShownInv

LEMMA FillStep ==
    ASSUME ShownInv, Fill
    PROVE  ShownInv'
<1> DEFINE fNew == TRUE
           nIndex == 0
<1>1. PICK t \in filling :
        /\ filling' = filling \ {t} /\ lines' = InsertTransaction(lines, t, fNew, nIndex)
        /\ UNCHANGED <<historyVars, page, fRefreshListCtrl, painting, pindexLastBest>>
  BY DEF Fill
<1>2. WalletSame /\ vWalletUpdated' = vWalletUpdated
  BY <1>1 DEF WalletSame, historyVars, chainVars
<1>3. HistoryInv'
  BY <1>2, HistorySame DEF ShownInv
<1>4. PageInv'
  BY <1>1, <1>2 DEF ShownInv, PageInv, WalletSame, chainVars
<1>5. nIndex = 0 /\ fNew = TRUE
  OBVIOUS
<1> HIDE DEF fNew, nIndex
<1> PICK l, m : l = lines /\ m = InsertTransaction(l, t, fNew, nIndex)
  OBVIOUS
<1>6. /\ t \in DOMAIN mapWallet /\ LinesGood(l) /\ LinesIn(l, t) = {} /\ WalletShows
      /\ Given(l, t, fNew, nIndex)
  BY <1>5, WalletIsShown DEF ShownInv, PageInv, LinesInv, Given
<1>7. LinesGood(m) /\ (\A x : x # t => Kept(l, m, x)) /\ (t \notin Coinbases => Right(m, t))
  BY <1>6, InsertGood
<1>8. l \in Seq(Line) /\ m \in Seq(Line)
  BY <1>6, <1>7 DEF LinesGood, List
<1>9. ASSUME NEW x \in filling' PROVE LinesIn(m, x) = {}
  <2>1. x \in filling /\ x # t
    BY <1>1, <1>9
  <2>2. LinesIn(l, x) = {}
    BY <2>1 DEF ShownInv, LinesInv
  <2> QED
    BY <1>7, <1>8, <2>1, <2>2, KeptIs
<1>10. ASSUME NEW x \in DOMAIN mapWallet \ Coinbases, ~Awaited(x)' PROVE Right(m, x)
  <2>1. CASE x = t
    BY <1>7, <1>10, <2>1
  <2>2. CASE x # t
    <3>1. ~Awaited(x)
      BY <1>1, <1>2, <1>10, <2>2 DEF Awaited
    <3>2. Right(l, x)
      BY <1>10, <3>1 DEF ShownInv, LinesInv
    <3> QED
      BY <1>7, <1>8, <2>2, <3>2, KeptIs
  <2> QED
    BY <2>1, <2>2
<1>11. LinesInv'
  <2>1. HistoryInv /\ page' = page /\ lines' = m
    BY <1>1 DEF ShownInv
  <2> QED
    BY <1>2, <1>7, <1>9, <1>10, <2>1, LinesBecome
<1> QED
  BY <1>3, <1>4, <1>11 DEF ShownInv

LEMMA PaintStep ==
    ASSUME ShownInv, OnPaintListCtrl
    PROVE  ShownInv'
<1> DEFINE S == vWalletUpdated \cap DOMAIN mapWallet
<1>1. PICK ts \in SetToSeqs(S) : lines' = Inserted(lines, ts)
  BY DEF OnPaintListCtrl
<1>2. /\ filling = {} /\ vWalletUpdated' = {} /\ painting' = TRUE /\ WalletSame
      /\ UNCHANGED <<page, fRefreshListCtrl, filling, pindexLastBest>>
  BY DEF OnPaintListCtrl, Busy, WalletSame
<1>3. HistoryInv'
  BY <1>2, HistorySame DEF ShownInv
<1>4. PageInv'
  BY <1>2 DEF ShownInv, PageInv, WalletSame, chainVars
<1>5. S \in SUBSET DOMAIN mapWallet /\ IsFiniteSet(S)
  <2>1. IsFiniteSet(Txs) /\ S \in SUBSET Txs
    BY HistoryAssumption DEF HistoryAssumption, ShownInv, HistoryInv, WalletInv
  <2> HIDE DEF S
  <2>2. IsFiniteSet(S)
    BY <2>1, FS_Subset
  <2> QED
    BY <2>2 DEF S
<1> PICK l, m, U : l = lines /\ m = Inserted(l, ts) /\ U = S
  OBVIOUS
<1>6. LinesGood(l) /\ WalletShows
  BY WalletIsShown DEF ShownInv, LinesInv
<1>7. LinesGood(m) /\ (\A x : x \notin U => Kept(l, m, x)) /\ (\A t \in U : t \notin Coinbases => Right(m, t))
  <2>1. U \in SUBSET DOMAIN mapWallet /\ IsFiniteSet(U) /\ ts \in SetToSeqs(U)
    BY <1>1, <1>5
  <2> QED
    BY <1>6, <2>1, InsertedGood
<1>8. l \in Seq(Line) /\ m \in Seq(Line)
  BY <1>6, <1>7 DEF LinesGood, List
<1>9. ASSUME NEW x \in DOMAIN mapWallet \ Coinbases, ~Awaited(x)' PROVE Right(m, x)
  <2>1. CASE x \in U
    BY <1>7, <1>9, <2>1
  <2>2. CASE x \notin U
    <3>1. x \notin vWalletUpdated
      BY <1>9, <2>2
    <3>2. ~Awaited(x)
      BY <1>2, <1>9, <3>1 DEF Awaited
    <3>3. Right(l, x)
      BY <1>9, <3>2 DEF ShownInv, LinesInv
    <3> QED
      BY <1>7, <1>8, <2>2, <3>3, KeptIs
  <2> QED
    BY <2>1, <2>2
<1>10. LinesInv'
  <2>1. HistoryInv /\ page' = page /\ lines' = m /\ filling' = {}
    BY <1>1, <1>2 DEF ShownInv
  <2> QED
    BY <1>2, <1>7, <1>9, <2>1, LinesBecome
<1> QED
  BY <1>3, <1>4, <1>10 DEF ShownInv

LEMMA StatusStep ==
    ASSUME ShownInv, RefreshStatusColumn
    PROVE  ShownInv'
<1>1. /\ painting' = FALSE /\ pindexLastBest' = Tip
      /\ lines' = IF pindexLastBest = Tip THEN lines ELSE AllRestated(lines)
      /\ UNCHANGED <<historyVars, page, fRefreshListCtrl, filling>>
  BY DEF RefreshStatusColumn
<1>2. WalletSame /\ vWalletUpdated' = vWalletUpdated
  BY <1>1 DEF WalletSame, historyVars, chainVars
<1>3. HistoryInv'
  BY <1>2, HistorySame DEF ShownInv
<1>4. PageInv'
  <2>1. Tip \in {0} \cup DOMAIN vtx
    <3>1. IsChain(chain) /\ chain \in Seq(Nat)
      BY DEF ShownInv, HistoryInv, BlocksInv, IsChain
    <3>2. chain # <<>> => Len(chain) \in DOMAIN chain
      <4>1. Len(chain) \in Nat /\ DOMAIN chain = 1 .. Len(chain) /\ (Len(chain) = 0 => chain = <<>>)
        BY <3>1, LenProperties, EmptySeq
      <4> QED
        BY <4>1
    <3> QED
      BY <3>1, <3>2 DEF Tip, IsChain
  <2> QED
    BY <1>1, <1>2, <2>1 DEF ShownInv, PageInv, WalletSame, chainVars
<1> PICK l, m : l = lines /\ m = lines'
  OBVIOUS
<1>5. LinesGood(l) /\ WalletShows
  BY WalletIsShown DEF ShownInv, LinesInv
<1>6. LinesGood(m) /\ Untouched(l, m)
  <2>1. CASE m = l
    BY <1>5, <2>1, KeptSame DEF Untouched
  <2>2. CASE m = AllRestated(l)
    BY <1>5, <2>2, AllRestatedGood
  <2> QED
    BY <1>1, <2>1, <2>2
<1>7. l \in Seq(Line) /\ m \in Seq(Line)
  BY <1>5, <1>6 DEF LinesGood, List
<1>8. \A t \in filling' : LinesIn(m, t) = {}
  BY <1>1, <1>6 DEF ShownInv, LinesInv, Untouched
<1>9. ASSUME NEW x \in DOMAIN mapWallet \ Coinbases, ~Awaited(x)' PROVE Right(m, x)
  <2>1. ~Awaited(x)
    BY <1>1, <1>2, <1>9 DEF Awaited
  <2>2. Right(l, x)
    BY <1>9, <2>1 DEF ShownInv, LinesInv
  <2>3. Kept(l, m, x)
    BY <1>6, <1>9 DEF Untouched
  <2> QED
    BY <1>7, <2>2, <2>3, KeptIs
<1>10. LinesInv'
  <2>1. HistoryInv /\ page' = page /\ lines' = m
    BY <1>1 DEF ShownInv
  <2> QED
    BY <1>2, <1>6, <1>8, <1>9, <2>1, LinesBecome
<1> QED
  BY <1>3, <1>4, <1>10 DEF ShownInv

-----------------------------------------------------------------------------
(* What this says of the list.                                             *)

LEMMA HistoryTypes ==
    ASSUME HistoryInv
    PROVE  HistoryTypeOK
<1>1. \A c \in {chain, connecting} :
         /\ \A h \in DOMAIN c : c[h] \in DOMAIN vtx /\ nHeight[c[h]] = h
         /\ \A h, g \in DOMAIN c : h # g => vtx[c[h]] \cap vtx[c[g]] = {}
         /\ \A t, x \in Chained(c) : t # x => In[t] \cap In[x] = {}
  <2> SUFFICES ASSUME NEW c, IsChain(c)
               PROVE  /\ \A h \in DOMAIN c : c[h] \in DOMAIN vtx /\ nHeight[c[h]] = h
                      /\ \A h, g \in DOMAIN c : h # g => vtx[c[h]] \cap vtx[c[g]] = {}
                      /\ \A t, x \in Chained(c) : t # x => In[t] \cap In[x] = {}
    BY DEF HistoryInv, BlocksInv
  <2>1. \A t \in Chained(c) : t \in Txs
    BY ChainedIs DEF HistoryInv
  <2>2. \A t, x \in Chained(c) : t # x => In[t] \cap In[x] = {}
    BY <2>1, HistoryAssumption DEF HistoryAssumption
  <2> QED
    BY <2>2 DEF IsChain
<1> QED
  BY <1>1 DEF HistoryInv, BookInv, WalletInv, BlocksInv, HistoryTypeOK

LEMMA ShownListed ==
    ASSUME ShownInv
    PROVE  ListInv
<1> USE DEF ShownInv
<1>1. lines \in List /\ \A i \in DOMAIN lines : lines[i].tx \in DOMAIN mapWallet
  BY DEF LinesInv, LinesGood
<1>2. ListTypeOK
  BY <1>1, HistoryTypes DEF ListTypeOK, PageInv
<1>3. ListComplete
  BY DEF ListComplete, LinesInv, Right
<1>4. \A i, j \in DOMAIN lines : i < j => ~Above(lines[j], lines[i])
  BY <1>1 DEF List, Ordered
<1>5. ASSUME NEW t \in DOMAIN mapWallet, Cardinality(OutsShown(t)) <= 2,
             NEW i \in LinesIn(lines, t), NEW j \in LinesIn(lines, t), i # j
      PROVE  lines[i].out # lines[j].out
  <2>1. Falling(lines, t)
    BY <1>5 DEF LinesInv, LinesGood, Few
  <2>2. i \in Nat /\ j \in Nat /\ lines[i] \in Line /\ lines[j] \in Line
    BY <1>1, LinesInIs DEF List
  <2>3. i < j \/ j < i
    BY <1>5, <2>2
  <2> QED
    BY <2>1, <2>2, <2>3 DEF Falling, Line
<1>6. \A t \in DOMAIN mapWallet \ Coinbases : ~Awaited(t) /\ Kind(t) # "sent" =>
         \A i \in LinesIn(lines, t) : lines[i] = strSort(t, 0)
  BY DEF LinesInv, Right
<1>7. ListSorted
  BY <1>4, <1>5, <1>6 DEF ListSorted
<1> QED
  BY <1>2, <1>3, <1>7 DEF ListInv

LEMMA ShownFirst ==
    ASSUME ListInit
    PROVE  ShownInv
<1> USE DEF ListInit, InitHistory, InitList
<1>1. DOMAIN mapWallet = {} /\ DOMAIN mapAddressBook = {}
  OBVIOUS
<1>2. BookInv /\ WalletInv
  BY <1>1 DEF BookInv, WalletInv
<1>3. BlocksInv
  <2>1. /\ vtx \in Seq(SUBSET Txs) /\ nHeight \in Seq(Nat) /\ Len(vtx) = 0 /\ Len(nHeight) = 0
        /\ DOMAIN vtx = {}
    OBVIOUS
  <2>2. IsChain(chain) /\ IsChain(connecting)
    <3>1. chain \in Seq(Nat) /\ connecting \in Seq(Nat) /\ DOMAIN chain = {} /\ DOMAIN connecting = {}
      OBVIOUS
    <3> QED
      BY <3>1 DEF IsChain
  <2>3. MaxBlocks \in Nat
    BY HistoryAssumption DEF HistoryAssumption
  <2> QED
    BY <2>1, <2>2, <2>3 DEF BlocksInv
<1>4. PageInv
  BY DEF PageInv
<1>5. LinesInv
  <2>1. LinesGood(lines)
    BY NoLines
  <2> QED
    BY <1>1, <2>1 DEF LinesInv
<1> QED
  BY <1>2, <1>3, <1>4, <1>5 DEF ShownInv, HistoryInv

LEMMA ShownStep ==
    ASSUME ShownInv, [ListStep]_<<historyVars, listVars>>
    PROVE  ShownInv'
<1>1. CASE OnNotebookPageChanged
  BY <1>1, PageStep
<1>2. CASE OnIdle
  BY <1>2, IdleStep
<1>3. CASE Fill
  BY <1>3, FillStep
<1>4. CASE OnPaintListCtrl
  BY <1>4, PaintStep
<1>5. CASE RefreshStatusColumn
  BY <1>5, StatusStep
<1>6. CASE (HistoryNext \/ setlabel) /\ UNCHANGED listVars
  <2>1. HistoryInv' /\ Grows
    BY <1>6, HistoryGrows DEF ShownInv
  <2>2. PageInv' /\ LinesInv'
    BY <1>6, <2>1, LinesGrow DEF ShownInv
  <2> QED
    BY <2>1, <2>2 DEF ShownInv
<1>7. CASE UNCHANGED <<historyVars, listVars>>
  <2>1. WalletSame /\ UNCHANGED <<vWalletUpdated, listVars>>
    BY <1>7 DEF WalletSame, historyVars, chainVars
  <2>2. HistoryInv'
    BY <2>1, HistorySame DEF ShownInv
  <2>3. Grows
    BY <2>1 DEF Grows, KeysGrow, WalletSame, chainVars
  <2>4. PageInv' /\ LinesInv'
    BY <2>1, <2>2, <2>3, LinesGrow DEF ShownInv
  <2> QED
    BY <2>2, <2>4 DEF ShownInv
<1> QED
  BY <1>1, <1>2, <1>3, <1>4, <1>5, <1>6, <1>7 DEF ListStep, ListNext

(* CMainFrame's list of transactions, for any wallet, chain and pages, and *)
(* any order in which the window's thread and those that change the wallet *)
(* go on: every transaction of the wallet that the page shows and that is  *)
(* no coinbase has a line or waits for one, no output is shown twice, the  *)
(* lines are sorted, and the one line of a transaction that does not wait  *)
(* is where its block puts it.                                             *)
THEOREM ListShown == ListSpec => []ListInv
<1>1. ListInit => ShownInv
  BY ShownFirst
<1>2. ShownInv /\ [ListStep]_<<historyVars, listVars>> => ShownInv'
  BY ShownStep
<1>3. ShownInv => ListInv
  BY ShownListed
<1> QED
  BY <1>1, <1>2, <1>3, PTL DEF ListSpec
-----------------------------------------------------------------------------
(* Sums.  The sum of a function over a set is the value of a recursive     *)
(* function on its subsets, which exists because the subsets get smaller,  *)
(* and which does not depend on the order in which it takes the elements.  *)

Sum(f, S) == SumFunctionOnSet(f, S)
Numbers(f, S) == IsFiniteSet(S) /\ \A x \in S : f[x] \in Int

One(s) == CHOOSE x \in s : TRUE
Summed(f, g, s) == IF s = {} THEN 0 ELSE f[One(s)] + g[s \ {One(s)}]
SumsUp(f, S, g) == g = [s \in SUBSET S |-> Summed(f, g, s)]

LEMMA SumIs == ASSUME NEW f, NEW S PROVE Sum(f, S) = (CHOOSE g : SumsUp(f, S, g))[S]
  BY DEF Sum, SumFunctionOnSet, FoldFunctionOnSet, MapThenFoldSet, SumsUp, Summed, One

LEMMA OneIn == ASSUME NEW s, s # {} PROVE One(s) \in s
  BY DEF One

\* One element less is one less to count.
LEMMA Fewer ==
    ASSUME NEW S, IsFiniteSet(S), NEW s \in SUBSET S, NEW x \in s
    PROVE  /\ Cardinality(s) \in Nat \ {0} /\ s \ {x} \in SUBSET S
           /\ Cardinality(s \ {x}) = Cardinality(s) - 1
<1>1. IsFiniteSet(s)
  BY FS_Subset
<1>2. Cardinality(s \ {x}) = Cardinality(s) - 1
  BY <1>1, FS_RemoveElement
<1> QED
  BY <1>1, <1>2, FS_CardinalityType, FS_EmptySet


\* A family of subsets that has each whose every subset of one element less it has, has all.
LEMMA SetByElement ==
    ASSUME NEW S, IsFiniteSet(S), NEW P,
           \A T \in SUBSET S : (\A x \in T : T \ {x} \in P) => T \in P
    PROVE  \A T \in SUBSET S : T \in P
<1> DEFINE Bad == {Cardinality(T) : T \in {U \in SUBSET S : U \notin P}}
<1>1. ASSUME NEW n \in Bad PROVE \E k \in Bad : k < n
  <2>1. PICK T \in SUBSET S : T \notin P /\ n = Cardinality(T)
    BY <1>1
  <2>2. PICK x \in T : T \ {x} \notin P
    BY <2>1
  <2>3. /\ Cardinality(T) \in Nat \ {0} /\ T \ {x} \in SUBSET S
        /\ Cardinality(T \ {x}) = Cardinality(T) - 1
    BY Fewer
  <2>4. Cardinality(T \ {x}) \in Bad
    BY <2>2, <2>3
  <2> HIDE DEF Bad
  <2>5. Cardinality(T \ {x}) < n
    BY <2>1, <2>3
  <2> QED
    BY <2>4, <2>5
<1>2. Bad \in SUBSET Nat
  BY FS_Subset, FS_CardinalityType
<1> HIDE DEF Bad
<1>3. Bad = {}
  BY <1>1, <1>2, NoSmallest
<1> QED
  BY <1>3 DEF Bad

LEMMA SumExists == ASSUME NEW f, NEW S, IsFiniteSet(S) PROVE \E g : SumsUp(f, S, g)
<1> DEFINE Upto(g, n) == \A s \in SUBSET S : Cardinality(s) <= n => g[s] = Summed(f, g, s)
           Bad == {n \in Nat : ~\E g : Upto(g, n)}
<1>1. ASSUME NEW n \in Bad PROVE \E k \in Bad : k < n
  <2> SUFFICES ASSUME \A k \in Nat : k < n => k \notin Bad PROVE \E g : Upto(g, n)
    BY <1>1
  <2>1. CASE n = 0
    <3>1. Upto([s \in SUBSET S |-> 0], 0)
      <4> SUFFICES ASSUME NEW s \in SUBSET S, Cardinality(s) <= 0 PROVE s = {}
        BY DEF Summed
      <4>1. s # {} => Cardinality(s) \in Nat \ {0}
        BY Fewer
      <4> QED
        BY <4>1
    <3> QED
      BY <2>1, <3>1
  <2>2. CASE n # 0
    <3>1. n - 1 \in Nat /\ n - 1 < n
      BY <1>1, <2>2
    <3>2. PICK g : Upto(g, n - 1)
      BY <3>1
    <3> DEFINE h == [s \in SUBSET S |-> Summed(f, g, s)]
    <3>3. ASSUME NEW s \in SUBSET S, Cardinality(s) <= n PROVE h[s] = Summed(f, h, s)
      <4>1. CASE s = {}
        BY <4>1 DEF Summed
      <4>2. CASE s # {}
        <5> DEFINE u == s \ {One(s)}
        <5>1. u \in SUBSET S /\ Cardinality(u) <= n - 1
          BY <1>1, <3>3, <4>2, OneIn, Fewer
        <5>2. g[u] = Summed(f, g, u)
          BY <3>2, <5>1
        <5>3. h[u] = g[u]
          BY <5>1, <5>2
        <5> QED
          BY <4>2, <5>3 DEF Summed
      <4> QED
        BY <4>1, <4>2
    <3>4. Upto(h, n)
      BY <3>3
    <3> HIDE DEF h
    <3> QED
      BY <3>4
  <2> QED
    BY <2>1, <2>2
<1>2. Bad = {}
  <2> HIDE DEF Bad
  <2>1. Bad \in SUBSET Nat
    BY DEF Bad
  <2> QED
    BY <1>1, <2>1, NoSmallest
<1>3. Cardinality(S) \in Nat /\ \A s \in SUBSET S : Cardinality(s) <= Cardinality(S)
  BY FS_CardinalityType, FS_Subset
<1>4. PICK g : Upto(g, Cardinality(S))
  BY <1>2, <1>3
<1> DEFINE h == [s \in SUBSET S |-> g[s]]
<1>5. ASSUME NEW s \in SUBSET S PROVE h[s] = Summed(f, h, s)
  BY <1>3, <1>4, OneIn, Fewer DEF Summed
<1>6. SumsUp(f, S, h)
  BY <1>5 DEF SumsUp
<1> QED
  BY <1>6

\* The sum over a subset, or of a function that is the same there, is the value for it.
LEMMA SumOfPart ==
    ASSUME NEW f, NEW S, IsFiniteSet(S), NEW g, SumsUp(f, S, g), NEW T \in SUBSET S,
           NEW e, \A x \in T : e[x] = f[x]
    PROVE  Sum(e, T) = g[T]
<1> DEFINE h == CHOOSE h : SumsUp(e, T, h)
<1>1. IsFiniteSet(T)
  BY FS_Subset
<1>2. SumsUp(e, T, h)
  BY <1>1, SumExists
<1>3. Sum(e, T) = h[T]
  BY SumIs
<1> HIDE DEF h
<1> DEFINE P == {U \in SUBSET T : h[U] = g[U]}
<1>4. ASSUME NEW U \in SUBSET T, \A x \in U : U \ {x} \in P PROVE U \in P
  <2>1. h[U] = Summed(e, h, U) /\ g[U] = Summed(f, g, U)
    BY <1>2, <1>4 DEF SumsUp
  <2>2. U # {} => One(U) \in U
    BY OneIn
  <2> QED
    BY <1>4, <2>1, <2>2 DEF Summed
<1>5. \A U \in SUBSET T : U \in P
  <2> HIDE DEF P
  <2> QED
    BY <1>1, <1>4, SetByElement
<1> QED
  BY <1>3, <1>5

LEMMA SumSame ==
    ASSUME NEW f, NEW S, IsFiniteSet(S), NEW e, \A x \in S : e[x] = f[x]
    PROVE  Sum(e, S) = Sum(f, S)
<1>1. PICK g : SumsUp(f, S, g)
  BY SumExists
<1>2. Sum(e, S) = g[S]
  BY <1>1, SumOfPart
<1>3. Sum(f, S) = g[S]
  <2> DEFINE d == f
  <2>1. \A x \in S : d[x] = f[x]
    OBVIOUS
  <2> HIDE DEF d
  <2>2. Sum(d, S) = g[S]
    BY <1>1, <2>1, SumOfPart
  <2> QED
    BY <2>2 DEF d
<1> QED
  BY <1>2, <1>3

LEMMA SumNone == ASSUME NEW f PROVE Sum(f, {}) = 0
<1>1. PICK g : SumsUp(f, {}, g)
  BY SumExists, FS_EmptySet
<1>2. Sum(f, {}) = g[{}]
  BY <1>1, SumOfPart, FS_EmptySet
<1> QED
  BY <1>1, <1>2 DEF SumsUp, Summed

LEMMA SumInt ==
    ASSUME NEW f, NEW S, Numbers(f, S)
    PROVE  /\ Sum(f, S) \in Int
           /\ (\A x \in S : f[x] \in Nat) => Sum(f, S) \in Nat
<1> USE DEF Numbers
<1>1. PICK g : SumsUp(f, S, g)
  BY SumExists
<1>2. Sum(f, S) = g[S]
  BY <1>1, SumOfPart
<1> DEFINE P == {T \in SUBSET S : g[T] \in Int /\ ((\A x \in S : f[x] \in Nat) => g[T] \in Nat)}
<1>3. ASSUME NEW T \in SUBSET S, \A x \in T : T \ {x} \in P PROVE T \in P
  <2>1. g[T] = Summed(f, g, T)
    BY <1>1 DEF SumsUp
  <2>2. CASE T = {}
    BY <2>1, <2>2 DEF Summed
  <2>3. CASE T # {}
    <3>1. One(T) \in T
      BY <2>3, OneIn
    <3>2. g[T] = f[One(T)] + g[T \ {One(T)}]
      BY <2>1, <2>3 DEF Summed
    <3> QED
      BY <1>3, <3>1, <3>2
  <2> QED
    BY <2>2, <2>3
<1>4. \A T \in SUBSET S : T \in P
  <2> HIDE DEF P
  <2> QED
    BY <1>3, SetByElement
<1> QED
  BY <1>2, <1>4

LEMMA SumLess ==
    ASSUME NEW f, NEW S, Numbers(f, S), NEW x \in S
    PROVE  Sum(f, S) = f[x] + Sum(f, S \ {x})
<1> USE DEF Numbers
<1>1. PICK g : SumsUp(f, S, g)
  BY SumExists
<1>2. \A T \in SUBSET S : Sum(f, T) = g[T]
  BY <1>1, SumOfPart
<1>3. \A T \in SUBSET S : g[T] \in Int
  BY <1>2, SumInt, FS_Subset
<1> DEFINE P == {T \in SUBSET S : \A y \in T : g[T] = f[y] + g[T \ {y}]}
<1>4. ASSUME NEW T \in SUBSET S, \A y \in T : T \ {y} \in P PROVE T \in P
  <2> SUFFICES ASSUME NEW y \in T PROVE g[T] = f[y] + g[T \ {y}]
    OBVIOUS
  <2> DEFINE z == One(T)
  <2>1. z \in T
    BY OneIn
  <2>2. g[T] = f[z] + g[T \ {z}]
    BY <1>1 DEF SumsUp, Summed
  <2> HIDE DEF z
  <2>3. CASE y = z
    BY <2>2, <2>3
  <2>4. CASE y # z
    <3> DEFINE U == (T \ {z}) \ {y}
    <3>1. g[T \ {z}] = f[y] + g[U]
      BY <1>4, <2>1, <2>4
    <3>2. U = (T \ {y}) \ {z}
      OBVIOUS
    <3> HIDE DEF U
    <3>3. g[T \ {y}] = f[z] + g[U]
      BY <1>4, <2>1, <2>4, <3>2
    <3>4. f[y] \in Int /\ f[z] \in Int
      BY <2>1
    <3>5. U \in SUBSET S
      BY DEF U
    <3>6. g[U] \in Int
      BY <1>3, <3>5
    <3> QED
      BY <2>2, <3>1, <3>3, <3>4, <3>6
  <2> QED
    BY <2>3, <2>4
<1>5. \A T \in SUBSET S : T \in P
  <2> HIDE DEF P
  <2> QED
    BY <1>4, SetByElement
<1>6. g[S] = f[x] + g[S \ {x}]
  <2>1. S \in P
    BY <1>5
  <2> QED
    BY <2>1
<1>7. S \ {x} \in SUBSET S
  OBVIOUS
<1> QED
  BY <1>2, <1>6, <1>7

LEMMA SumOne == ASSUME NEW f, NEW x, f[x] \in Int PROVE Sum(f, {x}) = f[x]
<1>1. IsFiniteSet({x})
  BY FS_Singleton
<1>2. Sum(f, {x}) = f[x] + Sum(f, {x} \ {x})
  BY <1>1, SumLess DEF Numbers
<1>3. {x} \ {x} = {}
  OBVIOUS
<1> QED
  BY <1>2, <1>3, SumNone

LEMMA NumbersPart ==
    ASSUME NEW f, NEW S, Numbers(f, S), NEW T \in SUBSET S
    PROVE  Numbers(f, T) /\ Sum(f, T) \in Int
<1>1. Numbers(f, T)
  BY FS_Subset DEF Numbers
<1> QED
  BY <1>1, SumInt

LEMMA SumSplit ==
    ASSUME NEW f, NEW A, NEW B, Numbers(f, A \cup B), A \cap B = {}
    PROVE  Sum(f, A \cup B) = Sum(f, A) + Sum(f, B)
<1> DEFINE P == {T \in SUBSET B : Sum(f, A \cup T) = Sum(f, A) + Sum(f, T)}
<1>1. IsFiniteSet(B) /\ \A T \in SUBSET B : Numbers(f, A \cup T) /\ Numbers(f, T) /\ Sum(f, T) \in Int
  <2>1. \A T \in SUBSET B : A \cup T \in SUBSET (A \cup B) /\ T \in SUBSET (A \cup B)
    OBVIOUS
  <2> QED
    BY <2>1, NumbersPart DEF Numbers
<1>2. Sum(f, A) \in Int
  BY NumbersPart
<1>3. ASSUME NEW T \in SUBSET B, \A x \in T : T \ {x} \in P PROVE T \in P
  <2>1. CASE T = {}
    <3>1. A \cup T = A /\ Sum(f, T) = 0
      BY <2>1, SumNone
    <3> QED
      BY <1>2, <2>1, <3>1
  <2>2. CASE T # {}
    <3>1. PICK x \in T : TRUE
      BY <2>2
    <3> DEFINE U == T \ {x}
    <3>2. Sum(f, A \cup U) = Sum(f, A) + Sum(f, U) /\ U \in SUBSET B
      BY <1>3, <3>1
    <3>3. (A \cup T) \ {x} = A \cup U
      BY <3>1
    <3> HIDE DEF U
    <3>4. Sum(f, A \cup T) = f[x] + Sum(f, A \cup U)
      <4>1. Numbers(f, A \cup T) /\ x \in A \cup T
        BY <1>1, <3>1
      <4>2. Sum(f, A \cup T) = f[x] + Sum(f, (A \cup T) \ {x})
        BY <4>1, SumLess
      <4> QED
        BY <3>3, <4>2
    <3>5. Sum(f, T) = f[x] + Sum(f, U)
      <4>1. Numbers(f, T)
        BY <1>1
      <4> QED
        BY <3>1, <4>1, SumLess DEF U
    <3>6. f[x] \in Int /\ Sum(f, U) \in Int
      BY <1>1, <3>1, <3>2 DEF Numbers
    <3> QED
      BY <1>2, <3>2, <3>4, <3>5, <3>6
  <2> QED
    BY <2>1, <2>2
<1>4. \A T \in SUBSET B : T \in P
  <2> HIDE DEF P
  <2> QED
    BY <1>1, <1>3, SetByElement
<1>5. B \in P
  BY <1>4
<1> QED
  BY <1>5

\* What is zero may be left out.
LEMMA SumNonzero ==
    ASSUME NEW f, NEW S, Numbers(f, S), NEW T \in SUBSET S, \A x \in S \ T : f[x] = 0
    PROVE  Sum(f, S) = Sum(f, T)
<1> DEFINE Rest == S \ T
           P == {U \in SUBSET Rest : Sum(f, U) = 0}
<1>1. Rest \in SUBSET S /\ \A x \in Rest : f[x] = 0
  OBVIOUS
<1> HIDE DEF Rest
<1>2. ASSUME NEW U \in SUBSET Rest, \A x \in U : U \ {x} \in P PROVE U \in P
  <2>1. Numbers(f, U)
    BY <1>1, NumbersPart
  <2>2. CASE U = {}
    BY <2>2, SumNone
  <2>3. CASE U # {}
    <3>1. PICK x \in U : Sum(f, U \ {x}) = 0 /\ f[x] = 0
      BY <1>1, <1>2, <2>3
    <3> QED
      BY <2>1, <3>1, SumLess
  <2> QED
    BY <2>2, <2>3
<1>3. IsFiniteSet(Rest)
  BY <1>1, NumbersPart DEF Numbers
<1>4. Sum(f, Rest) = 0
  <2>1. \A U \in SUBSET Rest : U \in P
    <3> HIDE DEF P
    <3> QED
      BY <1>2, <1>3, SetByElement
  <2> QED
    BY <2>1
<1>5. T \cup Rest = S /\ T \cap Rest = {}
  BY DEF Rest
<1>6. Sum(f, T \cup Rest) = Sum(f, T) + Sum(f, Rest)
  <2>1. Numbers(f, T \cup Rest)
    BY <1>5
  <2> QED
    BY <1>5, <2>1, SumSplit
<1>7. Sum(f, T) \in Int
  BY NumbersPart
<1>8. Sum(f, S) = Sum(f, T) + 0
  BY <1>4, <1>5, <1>6, Zenon
<1> QED
  BY <1>7, <1>8

LEMMA SumPlus ==
    ASSUME NEW f, NEW e, NEW d, NEW S, Numbers(f, S), Numbers(e, S), \A x \in S : d[x] = f[x] + e[x]
    PROVE  Sum(d, S) = Sum(f, S) + Sum(e, S)
<1> DEFINE P == {T \in SUBSET S : Sum(d, T) = Sum(f, T) + Sum(e, T)}
<1>1. IsFiniteSet(S) /\ Numbers(d, S)
  BY DEF Numbers
<1>2. ASSUME NEW T \in SUBSET S, \A x \in T : T \ {x} \in P PROVE T \in P
  <2>1. Numbers(f, T) /\ Numbers(e, T) /\ Numbers(d, T)
    BY <1>1, NumbersPart
  <2>2. CASE T = {}
    BY <2>2, SumNone
  <2>3. CASE T # {}
    <3>1. PICK x \in T : TRUE
      BY <2>3
    <3> DEFINE U == T \ {x}
    <3>2. Sum(d, U) = Sum(f, U) + Sum(e, U) /\ U \in SUBSET S
      BY <1>2, <3>1
    <3>3. Sum(f, T) = f[x] + Sum(f, U) /\ Sum(e, T) = e[x] + Sum(e, U) /\ Sum(d, T) = d[x] + Sum(d, U)
      BY <2>1, <3>1, SumLess
    <3> HIDE DEF U
    <3>4. f[x] \in Int /\ e[x] \in Int /\ d[x] = f[x] + e[x]
      BY <3>1 DEF Numbers
    <3>5. Sum(f, U) \in Int /\ Sum(e, U) \in Int
      BY <3>2, NumbersPart
    <3> QED
      BY <3>2, <3>3, <3>4, <3>5
  <2> QED
    BY <2>2, <2>3
<1>3. \A T \in SUBSET S : T \in P
  <2> HIDE DEF P
  <2> QED
    BY <1>1, <1>2, SetByElement
<1> QED
  BY <1>3

SameSum(f, R, e, S) == Numbers(f, R) /\ Numbers(e, S) /\ Sum(f, R) = Sum(e, S)

\* The elements may be counted by what maps to them, one each.
LEMMA SumMapped ==
    ASSUME NEW f, NEW e, NEW S, IsFiniteSet(S), NEW m, \A x \in S : e[x] = f[m[x]] /\ e[x] \in Int,
           \A x, y \in S : x # y => m[x] # m[y], NEW R, R = {m[x] : x \in S}
    PROVE  SameSum(f, R, e, S)
<1> DEFINE Of(T) == {m[x] : x \in T}
           P == {T \in SUBSET S : Numbers(f, Of(T)) /\ Sum(f, Of(T)) = Sum(e, T)}
<1>1. Numbers(e, S)
  BY DEF Numbers
<1>2. ASSUME NEW T \in SUBSET S, \A x \in T : T \ {x} \in P PROVE T \in P
  <2>1. Numbers(e, T)
    BY <1>1, NumbersPart
  <2>2. CASE T = {}
    <3>1. Of(T) = {}
      BY <2>2
    <3>2. Numbers(f, {})
      BY FS_EmptySet DEF Numbers
    <3> HIDE DEF Of
    <3> QED
      BY <2>2, <3>1, <3>2, SumNone
  <2>3. CASE T # {}
    <3>1. PICK x \in T : T \ {x} \in P
      BY <1>2, <2>3
    <3> DEFINE U == T \ {x}
    <3>2. Of(U) = Of(T) \ {m[x]} /\ Of(T) = Of(U) \cup {m[x]} /\ m[x] \in Of(T)
      <4>1. \A y \in U : m[y] # m[x]
        BY <3>1
      <4> QED
        BY <3>1, <4>1
    <3>3. Numbers(f, Of(U)) /\ Sum(f, Of(U)) = Sum(e, U)
      BY <3>1
    <3> HIDE DEF Of, U
    <3>4. f[m[x]] \in Int /\ e[x] = f[m[x]]
      BY <1>1, <3>1
    <3>5. Numbers(f, Of(T))
      <4>1. IsFiniteSet(Of(T))
        BY <3>2, <3>3, FS_AddElement DEF Numbers
      <4> QED
        BY <3>2, <3>3, <3>4, <4>1 DEF Numbers
    <3>6. Sum(f, Of(T)) = f[m[x]] + Sum(f, Of(U))
      BY <3>2, <3>5, SumLess
    <3>7. Sum(e, T) = e[x] + Sum(e, U)
      BY <2>1, <3>1, SumLess DEF U
    <3> QED
      BY <3>3, <3>4, <3>5, <3>6, <3>7
  <2> QED
    BY <2>2, <2>3
<1>3. \A T \in SUBSET S : T \in P
  <2> HIDE DEF P
  <2> QED
    BY <1>2, SetByElement
<1>4. S \in P
  BY <1>3
<1>5. R = Of(S)
  OBVIOUS
<1> QED
  BY <1>1, <1>4, <1>5 DEF SameSum

\* A sum of sums over sets that have nothing in common is the sum over all that they have.
LEMMA SumNested ==
    ASSUME NEW f, NEW e, NEW S, IsFiniteSet(S), NEW A, \A x \in S : Numbers(f, A[x]) /\ e[x] = Sum(f, A[x]),
           \A x, y \in S : x # y => A[x] \cap A[y] = {}, NEW R, R = UNION {A[x] : x \in S}
    PROVE  SameSum(f, R, e, S)
<1> DEFINE All(T) == UNION {A[x] : x \in T}
           P == {T \in SUBSET S : Numbers(f, All(T)) /\ Sum(e, T) = Sum(f, All(T))}
<1>1. Numbers(e, S)
  BY SumInt DEF Numbers
<1>2. ASSUME NEW T \in SUBSET S, \A x \in T : T \ {x} \in P PROVE T \in P
  <2>1. Numbers(e, T)
    BY <1>1, NumbersPart
  <2>2. CASE T = {}
    <3>1. All(T) = {}
      BY <2>2
    <3>2. Numbers(f, {})
      BY FS_EmptySet DEF Numbers
    <3> HIDE DEF All
    <3> QED
      BY <2>2, <3>1, <3>2, SumNone
  <2>3. CASE T # {}
    <3>1. PICK x \in T : T \ {x} \in P
      BY <1>2, <2>3
    <3> DEFINE U == T \ {x}
    <3>2. All(T) = All(U) \cup A[x] /\ All(U) \cap A[x] = {}
      <4>1. \A y \in U : A[y] \cap A[x] = {}
        BY <3>1
      <4> QED
        BY <3>1, <4>1
    <3>3. Numbers(f, All(U)) /\ Sum(e, U) = Sum(f, All(U))
      BY <3>1
    <3> HIDE DEF All, U
    <3>4. Numbers(f, A[x]) /\ e[x] = Sum(f, A[x])
      BY <3>1
    <3>5. Numbers(f, All(U) \cup A[x])
      <4>1. IsFiniteSet(All(U) \cup A[x])
        BY <3>3, <3>4, FS_Union DEF Numbers
      <4> QED
        BY <3>3, <3>4, <4>1 DEF Numbers
    <3>6. Sum(f, All(U) \cup A[x]) = Sum(f, All(U)) + Sum(f, A[x])
      BY <3>2, <3>5, SumSplit
    <3>7. Sum(e, T) = e[x] + Sum(e, U)
      BY <2>1, <3>1, SumLess DEF U
    <3>8. Sum(f, All(U)) \in Int /\ Sum(f, A[x]) \in Int
      BY <3>3, <3>4, SumInt
    <3>9. Sum(f, All(T)) = Sum(f, All(U)) + Sum(f, A[x]) /\ Numbers(f, All(T))
      BY <3>2, <3>5, <3>6, Zenon
    <3>10. Sum(e, T) = Sum(f, A[x]) + Sum(f, All(U))
      BY <3>3, <3>4, <3>7
    <3> QED
      BY <3>8, <3>9, <3>10
  <2> QED
    BY <2>2, <2>3
<1>3. \A T \in SUBSET S : T \in P
  <2> HIDE DEF P
  <2> QED
    BY <1>2, SetByElement
<1>4. S \in P
  BY <1>3
<1>5. R = All(S)
  OBVIOUS
<1> QED
  BY <1>1, <1>4, <1>5 DEF SameSum

\* The sum of a function is that over its domain.
LEMMA FunctionSum == ASSUME NEW f PROVE SumFunction(f) = Sum(f, DOMAIN f)
  BY DEF SumFunction, Sum

-----------------------------------------------------------------------------
(* What a transaction is worth to the wallet.                              *)

Held == {c \in Txs \X Nat : c[2] \in DOMAIN Out[c[1]]}
Worth == [c \in Held |-> Out[c[1]][c[2]].value]
Outputs(t) == [i \in DOMAIN Out[t] |-> Out[t][i].value]

\* What every wallet has: its transactions are of Txs.
Known == DOMAIN mapWallet \subseteq Txs

LEMMA OutsAre ==
    ASSUME NEW t \in Txs
    PROVE  /\ IsFiniteSet(DOMAIN Out[t]) /\ DOMAIN Out[t] \subseteq Nat
           /\ \A i \in DOMAIN Out[t] : Out[t][i].value \in Nat
<1>1. /\ Len(Out[t]) \in Nat /\ DOMAIN Out[t] = 1 .. Len(Out[t])
      /\ \A i \in DOMAIN Out[t] : Out[t][i].value \in Nat
  BY HistoryAssumption DEF HistoryAssumption
<1>2. IsFiniteSet(1 .. Len(Out[t]))
  BY <1>1, FS_Interval
<1> QED
  BY <1>1, <1>2

LEMMA HeldIs ==
    ASSUME NEW c \in Held
    PROVE  c[1] \in Txs /\ c[2] \in DOMAIN Out[c[1]] /\ Worth[c] = Out[c[1]][c[2]].value /\ Worth[c] \in Nat
<1>1. c[1] \in Txs /\ c[2] \in DOMAIN Out[c[1]]
  BY DEF Held
<1> QED
  BY <1>1, OutsAre DEF Worth

LEMMA ValueIs ==
    ASSUME NEW t \in Txs, NEW outs \in SUBSET DOMAIN Out[t]
    PROVE  /\ Numbers(Outputs(t), outs) /\ ValueOf(t, outs) = Sum(Outputs(t), outs)
           /\ ValueOf(t, outs) \in Nat
<1>1. IsFiniteSet(outs) /\ \A i \in outs : Outputs(t)[i] = Out[t][i].value /\ Outputs(t)[i] \in Nat
  BY OutsAre, FS_Subset DEF Outputs
<1>2. Numbers(Outputs(t), outs)
  BY <1>1 DEF Numbers
<1> DEFINE f == [i \in outs |-> Out[t][i].value]
<1>3. ValueOf(t, outs) = Sum(f, outs)
  BY FunctionSum DEF ValueOf
<1>4. \A i \in outs : f[i] = Outputs(t)[i]
  BY <1>1
<1> HIDE DEF f
<1>5. Sum(f, outs) = Sum(Outputs(t), outs)
  BY <1>1, <1>4, SumSame
<1> QED
  BY <1>1, <1>2, <1>3, <1>5, SumInt

LEMMA CoinsAre ==
    ASSUME NEW coins \in SUBSET Held, IsFiniteSet(coins)
    PROVE  Numbers(Worth, coins) /\ CoinsOf(coins) = Sum(Worth, coins) /\ CoinsOf(coins) \in Nat
<1>1. \A c \in coins : Worth[c] = Out[c[1]][c[2]].value /\ Worth[c] \in Nat
  BY HeldIs
<1>2. Numbers(Worth, coins)
  BY <1>1 DEF Numbers
<1> DEFINE f == [c \in coins |-> Out[c[1]][c[2]].value]
<1>3. CoinsOf(coins) = Sum(f, coins)
  BY FunctionSum DEF CoinsOf
<1>4. \A c \in coins : f[c] = Worth[c]
  BY <1>1
<1> HIDE DEF f
<1>5. Sum(f, coins) = Sum(Worth, coins)
  BY <1>4, SumSame
<1> QED
  BY <1>1, <1>2, <1>3, <1>5, SumInt

\* The coins of the wallet that a transaction spends.
MyCoins(t) == {c \in In[t] : InMine(c)}

LEMMA MyCoinsAre ==
    ASSUME Known, NEW t \in Txs
    PROVE  /\ MyCoins(t) \in SUBSET Held /\ IsFiniteSet(MyCoins(t))
           /\ GetDebit(t) = Sum(Worth, MyCoins(t)) /\ GetDebit(t) \in Nat
           /\ Numbers(Worth, MyCoins(t))
<1>1. ASSUME NEW c \in MyCoins(t) PROVE c \in Held
  <2>1. c \in In[t] /\ c[1] \in Txs /\ c \in (Txs \cup {Foreign}) \X Nat
    BY HistoryAssumption DEF MyCoins, InMine, Known, HistoryAssumption
  <2>2. c[2] \in DOMAIN Out[c[1]] /\ c = <<c[1], c[2]>> /\ c[2] \in Nat
    BY <2>1, CoinIs
  <2> QED
    BY <2>1, <2>2 DEF Held
<1>2. IsFiniteSet(MyCoins(t))
  BY HistoryAssumption, FS_Subset DEF HistoryAssumption, MyCoins
<1>3. GetDebit(t) = CoinsOf(MyCoins(t))
  BY DEF GetDebit, MyCoins
<1> QED
  BY <1>1, <1>2, <1>3, CoinsAre

LEMMA CreditIs ==
    ASSUME NEW t \in Txs
    PROVE  /\ GetCredit(t) \in Nat /\ GetCredit(t) \in {0, ValueOf(t, Mine(t))}
           /\ t \notin Coinbases => GetCredit(t) = ValueOf(t, Mine(t))
           /\ GetValueOut(t) = ValueOf(t, Mine(t)) + ValueOf(t, Others(t))
           /\ ValueOf(t, Mine(t)) \in Nat /\ ValueOf(t, Others(t)) \in Nat
<1>1. Mine(t) \in SUBSET DOMAIN Out[t] /\ Others(t) \in SUBSET DOMAIN Out[t]
  BY DEF Mine, Others
<1>2. Mine(t) \cup Others(t) = DOMAIN Out[t] /\ Mine(t) \cap Others(t) = {}
  BY DEF Mine, Others
<1>3. ValueOf(t, Mine(t)) \in Nat /\ ValueOf(t, Others(t)) \in Nat
  BY <1>1, ValueIs
<1>4. GetValueOut(t) = ValueOf(t, Mine(t)) + ValueOf(t, Others(t))
  <2> DEFINE A == Mine(t)
             B == Others(t)
  <2>1. Numbers(Outputs(t), A \cup B) /\ A \cap B = {} /\ GetValueOut(t) = Sum(Outputs(t), A \cup B)
    BY <1>2, ValueIs DEF GetValueOut
  <2>2. ValueOf(t, A) = Sum(Outputs(t), A) /\ ValueOf(t, B) = Sum(Outputs(t), B)
    BY <1>1, ValueIs
  <2> HIDE DEF A, B
  <2>3. Sum(Outputs(t), A \cup B) = Sum(Outputs(t), A) + Sum(Outputs(t), B)
    BY <2>1, SumSplit
  <2> QED
    BY <2>1, <2>2, <2>3 DEF A, B
<1>5. t \notin Coinbases => GetCredit(t) = ValueOf(t, Mine(t))
  BY DEF GetCredit, GetBlocksToMaturity
<1>6. GetCredit(t) \in {0, ValueOf(t, Mine(t))}
  BY DEF GetCredit
<1> QED
  BY <1>3, <1>4, <1>5, <1>6

LEMMA MinIn == ASSUME NEW S \in SUBSET Nat, S # {} PROVE Min(S) \in S
<1>1. \E n \in S : \A k \in S : ~(k < n)
  BY NoSmallest
<1>2. \E n \in S : \A k \in S : n <= k
  BY <1>1
<1> QED
  BY <1>2 DEF Min

\* The amounts of what is sent, of which one has the fee.
LEMMA OneHasFee ==
    ASSUME NEW S, NEW w, Numbers(w, S), NEW fee \in Int, NEW m \in S, NEW f,
           \A i \in S : f[i] = -w[i] + IF i = m THEN fee ELSE 0
    PROVE  Numbers(f, S) /\ Sum(f, S) = fee - Sum(w, S)
<1> DEFINE g == [i \in S |-> IF i = m THEN fee ELSE 0]
<1>1. IsFiniteSet(S) /\ \A i \in S : w[i] \in Int
  BY DEF Numbers
<1>2. Numbers(f, S)
  BY <1>1 DEF Numbers
<1>3. \A i \in S : g[i] = f[i] + w[i]
  BY <1>1
<1>4. Numbers(g, S) /\ \A i \in S \ {m} : g[i] = 0
  BY <1>1 DEF Numbers
<1>5. g[m] = fee
  OBVIOUS
<1> HIDE DEF g
<1>6. Sum(g, S) = Sum(f, S) + Sum(w, S)
  BY <1>2, <1>3, SumPlus
<1>7. {m} \in SUBSET S
  OBVIOUS
<1>8. Sum(g, S) = Sum(g, {m})
  BY <1>4, <1>7, SumNonzero
<1>9. Sum(g, {m}) = fee
  BY <1>5, SumOne
<1>10. Sum(f, S) \in Int /\ Sum(w, S) \in Int
  BY <1>2, SumInt
<1> QED
  BY <1>2, <1>6, <1>8, <1>9, <1>10

-----------------------------------------------------------------------------
(* The list, and the answers on one transaction.                           *)

LEMMA NetIs ==
    ASSUME Known, NEW t \in Txs
    PROVE  Net(t) \in Int /\ gettransaction(t).amount = Net(t) /\ Net(t) = GetCredit(t) - GetDebit(t)
<1>1. GetCredit(t) \in Nat /\ GetDebit(t) \in Nat
  BY CreditIs, MyCoinsAre
<1>2. gettransaction(t).amount = GetCredit(t) - GetDebit(t)
  BY DEF gettransaction
<1> QED
  BY <1>1, <1>2 DEF Net

LEMMA ShownIsNet ==
    ASSUME Known, NEW t \in DOMAIN mapWallet, Kind(t) # "self"
    PROVE  SumFunction([i \in OutsShown(t) |-> AmountShown(t, i)]) = Net(t)
<1> DEFINE f == [i \in OutsShown(t) |-> AmountShown(t, i)]
<1>1. t \in Txs /\ Net(t) \in Int /\ Net(t) = GetCredit(t) - GetDebit(t)
  BY NetIs DEF Known
<1>2. SumFunction(f) = Sum(f, OutsShown(t))
  BY FunctionSum
<1>3. CASE Kind(t) = "sent"
  <2>1. Others(t) # {} /\ t \notin Coinbases /\ OutsShown(t) = Others(t)
    BY <1>3 DEF Kind, OutsShown
  <2> DEFINE fee == GetDebit(t) - GetValueOut(t)
             m == Min(Others(t))
             w == Outputs(t)
             S == Others(t)
  <2>2. \A i \in S : f[i] = -(Out[t][i].value + IF i = m THEN fee ELSE 0)
    BY <1>3, <2>1 DEF AmountShown
  <2>3. S \in SUBSET DOMAIN Out[t] /\ DOMAIN Out[t] \subseteq Nat
    BY <1>1, OutsAre DEF Others
  <2>4. m \in S
    BY <2>1, <2>3, MinIn
  <2>5. /\ ValueOf(t, Mine(t)) \in Nat /\ ValueOf(t, S) \in Nat /\ GetDebit(t) \in Nat
        /\ GetCredit(t) = ValueOf(t, Mine(t)) /\ GetValueOut(t) = ValueOf(t, Mine(t)) + ValueOf(t, S)
    BY <1>1, <2>1, CreditIs, MyCoinsAre
  <2>6. Numbers(w, S) /\ ValueOf(t, S) = Sum(w, S) /\ \A i \in S : w[i] = Out[t][i].value /\ w[i] \in Int
    <3>1. \A i \in S : w[i] = Out[t][i].value
      BY <2>3 DEF Outputs
    <3> QED
      BY <1>1, <2>3, <3>1, ValueIs DEF Numbers
  <2>7. fee \in Int
    BY <2>5
  <2>8. f[m] \in Int /\ -fee \in Int
    BY <2>2, <2>4, <2>6, <2>7
  <2> HIDE DEF f, fee, m, w, S
  <2>9. \A i \in S : f[i] = -w[i] + IF i = m THEN -fee ELSE 0
    BY <2>2, <2>6, <2>7
  <2>10. Sum(f, S) = -fee - Sum(w, S)
    BY <2>4, <2>6, <2>8, <2>9, OneHasFee
  <2>11. Sum(f, S) = ValueOf(t, Mine(t)) - GetDebit(t)
    BY <2>5, <2>6, <2>10 DEF fee
  <2> QED
    BY <1>1, <1>2, <2>1, <2>5, <2>11 DEF S, f
<1>4. CASE Kind(t) # "sent"
  <2>1. OutsShown(t) = {0} /\ f[0] = Net(t)
    BY <1>4 DEF OutsShown, AmountShown
  <2> HIDE DEF f
  <2>2. Sum(f, {0}) = Net(t)
    BY <1>1, <2>1, SumOne
  <2> QED
    BY <1>2, <2>1, <2>2 DEF f
<1> QED
  BY <1>3, <1>4

LEMMA ShownAgrees == ASSUME Known PROVE ShownAddsUp
  BY ShownIsNet DEF ShownAddsUp

SentOuts(t) == IF GetDebit(t) > 0 THEN Others(t) ELSE {}
ReceivedOuts(t) == IF GetCredit(t) > 0 THEN Mine(t) ELSE {}

LEMMA EntriesAre ==
    ASSUME NEW t
    PROVE  /\ \A e \in EntriesOf(t) : e.txid = t
           /\ \A i \in Others(t) : /\ SentEntry(t, i).category = "send" /\ SentEntry(t, i).n = i
                                   /\ SentEntry(t, i).amount = -Out[t][i].value
                                   /\ SentEntry(t, i).fee = IF i = Min(Others(t))
                                                            THEN GetValueOut(t) - GetDebit(t) ELSE 0
           /\ \A i \in Mine(t) : /\ t \notin Coinbases => Entry(t, i).category = "receive"
                                 /\ Entry(t, i).n = i /\ Entry(t, i).amount = Out[t][i].value
           /\ t \notin Coinbases =>
                 EntriesOf(t) = {SentEntry(t, i) : i \in SentOuts(t)} \cup {Entry(t, i) : i \in ReceivedOuts(t)}
<1>1. \A i \in Mine(t) : i \notin Others(t)
  BY DEF Others
<1>2. \A i : /\ Entry(t, i).txid = t /\ SentEntry(t, i).txid = t
             /\ Entry(t, i).category = Detail(t, i).category /\ SentEntry(t, i).category = Detail(t, i).category
             /\ Entry(t, i).n = i /\ SentEntry(t, i).n = i
             /\ Entry(t, i).amount = Detail(t, i).amount /\ SentEntry(t, i).amount = Detail(t, i).amount
             /\ SentEntry(t, i).fee = IF i = Min(Others(t)) THEN GetValueOut(t) - GetDebit(t) ELSE 0
  BY DEF Entry, SentEntry, Detail
<1>3. \A e \in EntriesOf(t) : e.txid = t
  BY <1>2 DEF EntriesOf
<1>4. \A i \in Others(t) : Detail(t, i).category = "send" /\ Detail(t, i).amount = -Out[t][i].value
  BY DEF Detail
<1>5. \A i \in Mine(t) : /\ t \notin Coinbases => Detail(t, i).category = "receive"
                         /\ Detail(t, i).amount = Out[t][i].value
  BY <1>1 DEF Detail
<1>6. t \notin Coinbases =>
         EntriesOf(t) = {SentEntry(t, i) : i \in SentOuts(t)} \cup {Entry(t, i) : i \in ReceivedOuts(t)}
  BY DEF EntriesOf, SentOuts, ReceivedOuts
<1> QED
  BY <1>2, <1>3, <1>4, <1>5, <1>6

LEMMA ListedIs ==
    ASSUME NEW t \in DOMAIN mapWallet
    PROVE  {e \in listtransactions(TRUE) : e.txid = t} = IF Listable(t, TRUE) THEN EntriesOf(t) ELSE {}
<1> DEFINE listable == {x \in DOMAIN mapWallet : Listable(x, TRUE)}
<1>1. listtransactions(TRUE) = UNION {EntriesOf(x) : x \in listable}
  BY DEF listtransactions
<1>2. \A x \in listable : \A e \in EntriesOf(x) : e.txid = x
  BY EntriesAre
<1>3. t \in listable <=> Listable(t, TRUE)
  OBVIOUS
<1> HIDE DEF listable
<1> QED
  BY <1>1, <1>2, <1>3

\* What the entries of a transaction say of what it sends.
LEMMA SentSum ==
    ASSUME Known, NEW t \in Txs \ Coinbases, SentOuts(t) # {}
    PROVE  LET sent == {SentEntry(t, i) : i \in SentOuts(t)}
           IN  Amounts(sent) + Fees(sent) = Net(t)
<1> DEFINE S == SentOuts(t)
           w == Outputs(t)
           m == [i \in S |-> SentEntry(t, i)]
           sent == {m[i] : i \in S}
           a == [e \in sent |-> e.amount]
           f == [e \in sent |-> e.fee]
           fee == GetValueOut(t) - GetDebit(t)
           first == Min(Others(t))
<1>1. S = Others(t) /\ S # {} /\ S \in SUBSET DOMAIN Out[t] /\ DOMAIN Out[t] \subseteq Nat /\ IsFiniteSet(S)
  BY OutsAre, FS_Subset DEF SentOuts, Others
<1>2. first \in S
  BY <1>1, MinIn
<1>3. /\ ValueOf(t, Mine(t)) \in Nat /\ ValueOf(t, S) \in Nat /\ GetDebit(t) \in Nat
      /\ Net(t) = ValueOf(t, Mine(t)) - GetDebit(t) /\ fee = ValueOf(t, Mine(t)) + ValueOf(t, S) - GetDebit(t)
  <2>1. GetCredit(t) = ValueOf(t, Mine(t)) /\ GetValueOut(t) = ValueOf(t, Mine(t)) + ValueOf(t, S)
    BY <1>1, CreditIs
  <2> QED
    BY <1>1, <2>1, CreditIs, MyCoinsAre, NetIs
<1>4. Numbers(w, S) /\ ValueOf(t, S) = Sum(w, S) /\ \A i \in S : w[i] = Out[t][i].value /\ w[i] \in Int
  <2>1. \A i \in S : w[i] = Out[t][i].value
    BY <1>1 DEF Outputs
  <2> QED
    BY <1>1, <2>1, ValueIs DEF Numbers
<1>5. \A i \in S : /\ m[i] = SentEntry(t, i) /\ m[i] \in sent /\ m[i].n = i /\ m[i].amount = -w[i]
                   /\ m[i].fee = IF i = first THEN fee ELSE 0
  <2>1. \A i \in S : m[i] = SentEntry(t, i) /\ m[i] \in sent
    OBVIOUS
  <2>2. \A i \in S : /\ SentEntry(t, i).n = i /\ SentEntry(t, i).amount = -w[i]
                     /\ SentEntry(t, i).fee = IF i = first THEN fee ELSE 0
    BY <1>1, <1>4, EntriesAre
  <2> HIDE DEF m, sent, w, fee, first, S
  <2> QED
    BY <2>1, <2>2
<1>6. Amounts(sent) = Sum(a, sent) /\ Fees(sent) = Sum(f, sent)
  BY FunctionSum DEF Amounts, Fees
<1>7. \A i \in S : a[m[i]] = -w[i] /\ f[m[i]] = IF i = first THEN fee ELSE 0
  <2>1. \A e \in sent : a[e] = e.amount /\ f[e] = e.fee
    OBVIOUS
  <2> HIDE DEF m, sent, w, fee, first, S, a, f
  <2> QED
    BY <1>5, <2>1
<1>8. fee \in Int
  BY <1>3
<1> DEFINE neg == [i \in S |-> -w[i]]
           fees == [i \in S |-> IF i = first THEN fee ELSE 0]
           both == [i \in S |-> -w[i] + IF i = first THEN fee ELSE 0]
<1>9. \A i \in S : /\ neg[i] = -w[i] /\ fees[i] = (IF i = first THEN fee ELSE 0)
                   /\ both[i] = -w[i] + IF i = first THEN fee ELSE 0
  OBVIOUS
<1>10. sent = {SentEntry(t, i) : i \in S}
  OBVIOUS
<1>20. sent = {m[i] : i \in S}
  OBVIOUS
<1> HIDE DEF S, w, m, a, f, fee, first, neg, fees, both, sent
<1>11. \A i, j \in S : i # j => m[i] # m[j]
  BY <1>5
<1>12. \A i \in S : neg[i] = a[m[i]] /\ neg[i] \in Int /\ fees[i] = f[m[i]] /\ fees[i] \in Int
                    /\ both[i] = neg[i] + fees[i]
  BY <1>4, <1>7, <1>8, <1>9
<1>13. SameSum(a, sent, neg, S)
  BY <1>1, <1>11, <1>12, <1>20, SumMapped
<1>14. SameSum(f, sent, fees, S)
  BY <1>1, <1>11, <1>12, <1>20, SumMapped
<1>15. Numbers(neg, S) /\ Numbers(fees, S)
  BY <1>1, <1>12 DEF Numbers
<1>16. Sum(both, S) = Sum(neg, S) + Sum(fees, S)
  BY <1>12, <1>15, SumPlus
<1>17. Sum(both, S) = fee - Sum(w, S)
  BY <1>2, <1>4, <1>8, <1>9, OneHasFee
<1>18. Amounts(sent) + Fees(sent) = fee - Sum(w, S)
  BY <1>6, <1>13, <1>14, <1>16, <1>17 DEF SameSum
<1>19. Amounts(sent) + Fees(sent) = Net(t)
  BY <1>3, <1>4, <1>8, <1>18
<1> QED
  BY <1>10, <1>19 DEF S

LEMMA ReceivedSum ==
    ASSUME NEW t \in Txs \ Coinbases
    PROVE  Amounts({Entry(t, i) : i \in ReceivedOuts(t)}) = GetCredit(t)
<1> DEFINE S == ReceivedOuts(t)
           w == Outputs(t)
           m == [i \in S |-> Entry(t, i)]
           got == {m[i] : i \in S}
           a == [e \in got |-> e.amount]
<1>1. S \in SUBSET Mine(t) /\ S \in SUBSET DOMAIN Out[t] /\ IsFiniteSet(S)
  BY OutsAre, FS_Subset DEF ReceivedOuts, Mine
<1>2. Numbers(w, S) /\ ValueOf(t, S) = Sum(w, S) /\ \A i \in S : w[i] = Out[t][i].value /\ w[i] \in Int
  <2>1. \A i \in S : w[i] = Out[t][i].value
    BY <1>1 DEF Outputs
  <2> QED
    BY <1>1, <2>1, ValueIs DEF Numbers
<1>3. \A i \in S : m[i] \in got /\ m[i].n = i /\ m[i].amount = w[i]
  <2>1. \A i \in S : m[i] = Entry(t, i) /\ m[i] \in got
    OBVIOUS
  <2>2. \A i \in S : Entry(t, i).n = i /\ Entry(t, i).amount = w[i]
    BY <1>1, <1>2, EntriesAre
  <2> HIDE DEF m, got, w, S
  <2> QED
    BY <2>1, <2>2
<1>4. Amounts(got) = Sum(a, got)
  BY FunctionSum DEF Amounts
<1>5. \A i \in S : a[m[i]] = w[i]
  <2>1. \A e \in got : a[e] = e.amount
    OBVIOUS
  <2> HIDE DEF m, got, w, S, a
  <2> QED
    BY <1>3, <2>1
<1>6. got = {Entry(t, i) : i \in S}
  OBVIOUS
<1>7. GetCredit(t) = ValueOf(t, S)
  <2>1. GetCredit(t) = ValueOf(t, Mine(t)) /\ GetCredit(t) \in Nat
    BY CreditIs
  <2>2. CASE GetCredit(t) > 0
    BY <2>1, <2>2 DEF ReceivedOuts
  <2>3. CASE ~(GetCredit(t) > 0)
    <3>1. S = {} /\ GetCredit(t) = 0
      BY <2>1, <2>3 DEF ReceivedOuts
    <3> QED
      BY <1>2, <3>1, SumNone
  <2> QED
    BY <2>2, <2>3
<1>12. got = {m[i] : i \in S}
  OBVIOUS
<1> HIDE DEF S, w, m, a, got
<1>8. \A i, j \in S : i # j => m[i] # m[j]
  BY <1>3
<1>9. \A i \in S : w[i] = a[m[i]] /\ w[i] \in Int
  BY <1>2, <1>5
<1>10. SameSum(a, got, w, S)
  BY <1>1, <1>8, <1>9, <1>12, SumMapped
<1>11. Amounts(got) = GetCredit(t)
  BY <1>2, <1>4, <1>7, <1>10 DEF SameSum
<1> QED
  BY <1>6, <1>11 DEF S

LEMMA ListedAgrees == ASSUME Known PROVE ListedAddsUp
<1> SUFFICES ASSUME NEW t \in DOMAIN mapWallet
             PROVE  LET entries == {e \in listtransactions(TRUE) : e.txid = t}
                        sent == {e \in entries : e.category = "send"}
                    IN  /\ sent # {} => Amounts(sent) + Fees(sent) = gettransaction(t).amount
                        /\ entries # {} => Amounts(entries \ sent) = GetCredit(t)
                        /\ entries = {} => \/ t \in Coinbases
                                           \/ GetDebit(t) = GetCredit(t) + gettransaction(t).fee
  BY DEF ListedAddsUp
<1> DEFINE entries == {e \in listtransactions(TRUE) : e.txid = t}
           sent == {e \in entries : e.category = "send"}
<1>1. entries = IF Listable(t, TRUE) THEN EntriesOf(t) ELSE {}
  BY ListedIs
<1>2. t \in Txs /\ gettransaction(t).amount = Net(t)
  BY NetIs DEF Known
<1>3. sent = {e \in entries : e.category = "send"}
  OBVIOUS
<1> HIDE DEF entries, sent
<1>4. CASE ~Listable(t, TRUE)
  <2>1. t \in Coinbases /\ entries = {} /\ sent = {}
    BY <1>1, <1>3, <1>4 DEF Listable
  <2> QED
    BY <2>1 DEF entries, sent
<1>5. CASE Listable(t, TRUE) /\ t \in Coinbases
  <2> DEFINE e0 == [txid |-> t, category |-> "generate", n |-> 0, address |-> Nowhere, fee |-> 0,
                    amount |-> GetCredit(t), confirmations |-> GetDepthInMainChain(t)]
             a == [e \in {e0} |-> e.amount]
  <2>1. entries = {e0} /\ e0.category = "generate" /\ e0.amount = GetCredit(t)
    BY <1>1, <1>5 DEF EntriesOf
  <2>2. Amounts({e0}) = Sum(a, {e0})
    BY FunctionSum DEF Amounts
  <2>3. a[e0] = GetCredit(t) /\ GetCredit(t) \in Int
    BY <1>2, <2>1, CreditIs
  <2> HIDE DEF e0, a
  <2>4. Amounts({e0}) = GetCredit(t)
    BY <2>2, <2>3, SumOne
  <2>5. sent = {} /\ entries \ sent = {e0}
    BY <1>3, <2>1
  <2> QED
    BY <1>5, <2>1, <2>4, <2>5 DEF entries, sent
<1>6. CASE Listable(t, TRUE) /\ t \notin Coinbases
  <2> DEFINE SE == {SentEntry(t, i) : i \in SentOuts(t)}
             RE == {Entry(t, i) : i \in ReceivedOuts(t)}
  <2>1. entries = SE \cup RE
    BY <1>1, <1>6, EntriesAre
  <2>2. sent = SE /\ entries \ sent = RE
    <3>1. SentOuts(t) \subseteq Others(t) /\ ReceivedOuts(t) \subseteq Mine(t)
      BY DEF SentOuts, ReceivedOuts
    <3>2. \A e \in SE : e.category = "send"
      BY <3>1, EntriesAre
    <3>3. \A e \in RE : e.category = "receive"
      BY <1>6, <3>1, EntriesAre
    <3> HIDE DEF SE, RE
    <3> QED
      BY <1>3, <2>1, <3>2, <3>3
  <2>3. SE # {} => Amounts(SE) + Fees(SE) = Net(t)
    <3>1. SE # {} => SentOuts(t) # {}
      OBVIOUS
    <3> QED
      BY <1>2, <1>6, <3>1, SentSum
  <2>4. Amounts(RE) = GetCredit(t)
    BY <1>2, <1>6, ReceivedSum
  <2>5. entries = {} => GetDebit(t) = GetCredit(t) + gettransaction(t).fee
    <3> SUFFICES ASSUME entries = {} PROVE GetDebit(t) = GetCredit(t) + gettransaction(t).fee
      OBVIOUS
    <3>1. SentOuts(t) = {} /\ ReceivedOuts(t) = {}
      BY <2>1
    <3>2. /\ GetCredit(t) = ValueOf(t, Mine(t)) /\ GetValueOut(t) = ValueOf(t, Mine(t)) + ValueOf(t, Others(t))
          /\ GetCredit(t) \in Nat /\ GetDebit(t) \in Nat /\ ValueOf(t, Others(t)) \in Nat
      BY <1>2, <1>6, CreditIs, MyCoinsAre
    <3>3. ValueOf(t, {}) = 0
      BY <1>2, ValueIs, SumNone
    <3>4. GetCredit(t) = 0
      <4>1. ReceivedOuts(t) = IF GetCredit(t) > 0 THEN Mine(t) ELSE {}
        BY DEF ReceivedOuts
      <4> QED
        BY <3>1, <3>2, <3>3, <4>1
    <3>5. gettransaction(t).fee = IF GetDebit(t) > 0 THEN GetDebit(t) - GetValueOut(t) ELSE 0
      BY DEF gettransaction
    <3>6. GetDebit(t) > 0 => ValueOf(t, Others(t)) = 0
      <4>1. SentOuts(t) = IF GetDebit(t) > 0 THEN Others(t) ELSE {}
        BY DEF SentOuts
      <4> QED
        BY <3>1, <3>3, <4>1
    <3>7. CASE GetDebit(t) > 0
      <4>1. GetValueOut(t) = 0
        BY <3>2, <3>4, <3>6, <3>7
      <4>2. gettransaction(t).fee = GetDebit(t) - 0
        BY <3>5, <3>7, <4>1
      <4> QED
        BY <3>2, <3>4, <4>2
    <3>8. CASE ~(GetDebit(t) > 0)
      <4>1. GetDebit(t) = 0 /\ gettransaction(t).fee = 0
        BY <3>2, <3>5, <3>8
      <4> QED
        BY <3>4, <4>1
    <3> QED
      BY <3>7, <3>8
  <2> HIDE DEF SE, RE
  <2> QED
    BY <1>2, <2>2, <2>3, <2>4, <2>5 DEF entries, sent
<1> QED
  BY <1>4, <1>5, <1>6

-----------------------------------------------------------------------------
(* What addresses and labels have received.                                *)

\* The coins of a transaction among these outputs.
CoinsAt(t, outs) == {c \in Held : c[1] = t /\ c[2] \in outs}

LEMMA ValueAsCoins ==
    ASSUME NEW t \in Txs, NEW outs \in SUBSET DOMAIN Out[t]
    PROVE  Numbers(Worth, CoinsAt(t, outs)) /\ Sum(Worth, CoinsAt(t, outs)) = ValueOf(t, outs)
<1> DEFINE w == Outputs(t)
           m == [i \in outs |-> <<t, i>>]
           R == CoinsAt(t, outs)
<1>1. IsFiniteSet(outs) /\ DOMAIN Out[t] \subseteq Nat
  BY OutsAre, FS_Subset
<1>2. \A i \in outs : w[i] = Out[t][i].value /\ w[i] \in Int
  BY OutsAre DEF Outputs
<1>3. \A i \in outs : m[i] = <<t, i>> /\ m[i] \in Held /\ m[i][1] = t /\ m[i][2] = i
  BY <1>1 DEF Held
<1>4. R = {m[i] : i \in outs}
  <2>1. \A c \in R : c = <<t, c[2]>> /\ c[2] \in outs
    BY DEF CoinsAt, Held
  <2>2. \A i \in outs : m[i] \in R
    BY <1>3 DEF CoinsAt
  <2>3. \A c \in R : c = m[c[2]]
    BY <2>1
  <2> HIDE DEF m, R
  <2> QED
    BY <2>1, <2>2, <2>3
<1>5. ValueOf(t, outs) = Sum(w, outs)
  BY ValueIs
<1> HIDE DEF m, R, w
<1>6. \A i \in outs : w[i] = Worth[m[i]] /\ w[i] \in Int
  BY <1>2, <1>3, HeldIs
<1>7. \A i, j \in outs : i # j => m[i] # m[j]
  BY <1>3
<1>8. SameSum(Worth, R, w, outs)
  BY <1>1, <1>4, <1>6, <1>7, SumMapped
<1> QED
  BY <1>5, <1>8 DEF R, SameSum

PaidTo(t, hashes) == UNION {Paid(t, h) : h \in hashes}
PaidCoins(hashes, d) == UNION {CoinsAt(t, PaidTo(t, hashes)) : t \in Counting(d)}

LEMMA ReceivedIs ==
    ASSUME Known, NEW hashes, NEW d
    PROVE  /\ Numbers(Worth, PaidCoins(hashes, d)) /\ Received(hashes, d) = Sum(Worth, PaidCoins(hashes, d))
           /\ Received(hashes, d) \in Nat
<1> DEFINE S == Counting(d)
           A == [t \in S |-> CoinsAt(t, PaidTo(t, hashes))]
           e == [t \in S |-> ValueOf(t, PaidTo(t, hashes))]
           all == PaidCoins(hashes, d)
<1>1. S \subseteq Txs /\ IsFiniteSet(S)
  <2>1. IsFiniteSet(Txs) /\ S \subseteq Txs
    BY HistoryAssumption DEF HistoryAssumption, Known, Counting
  <2> QED
    BY <2>1, FS_Subset
<1>2. \A t \in S : PaidTo(t, hashes) \in SUBSET DOMAIN Out[t]
  BY DEF PaidTo, Paid
<1>3. \A t \in S : Numbers(Worth, A[t]) /\ e[t] = Sum(Worth, A[t])
  <2> SUFFICES ASSUME NEW t \in S PROVE Numbers(Worth, A[t]) /\ e[t] = Sum(Worth, A[t])
    OBVIOUS
  <2>1. A[t] = CoinsAt(t, PaidTo(t, hashes)) /\ e[t] = ValueOf(t, PaidTo(t, hashes))
    OBVIOUS
  <2>2. t \in Txs /\ PaidTo(t, hashes) \in SUBSET DOMAIN Out[t]
    BY <1>1, <1>2
  <2> HIDE DEF A, e
  <2> QED
    BY <2>1, <2>2, ValueAsCoins
<1>4. \A t, x \in S : t # x => A[t] \cap A[x] = {}
  BY DEF CoinsAt
<1>5. all = UNION {A[t] : t \in S}
  BY DEF PaidCoins
<1>6. Received(hashes, d) = Sum(e, S)
  BY FunctionSum DEF Received, PaidTo
<1> HIDE DEF S, A, e, all
<1>8. SameSum(Worth, all, e, S)
  BY <1>1, <1>3, <1>4, <1>5, SumNested
<1>7. Numbers(Worth, all) /\ Sum(Worth, all) = Sum(e, S)
  BY <1>8 DEF SameSum
<1>9. \A c \in all : Worth[c] \in Nat
  BY HeldIs DEF all, PaidCoins, CoinsAt
<1>10. Sum(Worth, all) \in Nat
  BY <1>7, <1>9, SumInt
<1> QED
  BY <1>6, <1>7, <1>10 DEF all

\* What several have received is what each has.
LEMMA ReceivedBySeveral ==
    ASSUME Known, NEW hashes, IsFiniteSet(hashes), NEW d
    PROVE  LET r == [h \in hashes |-> Received({h}, d)]
           IN  Numbers(r, hashes) /\ Sum(r, hashes) = Received(hashes, d)
<1> DEFINE r == [h \in hashes |-> Received({h}, d)]
           A == [h \in hashes |-> PaidCoins({h}, d)]
           all == PaidCoins(hashes, d)
<1>1. \A h \in hashes : r[h] = Received({h}, d) /\ A[h] = PaidCoins({h}, d)
  OBVIOUS
<1>2. ASSUME NEW h, NEW c
      PROVE  c \in PaidCoins({h}, d) <=>
                c \in Held /\ c[1] \in Counting(d) /\ c[2] \in Paid(c[1], h)
  BY DEF PaidCoins, CoinsAt, PaidTo
<1>3. ASSUME NEW c
      PROVE  c \in all <=> c \in Held /\ c[1] \in Counting(d) /\ \E h \in hashes : c[2] \in Paid(c[1], h)
  BY DEF PaidCoins, CoinsAt, PaidTo
<1>4. \A c : c \in all <=> \E h \in hashes : c \in PaidCoins({h}, d)
  BY <1>2, <1>3
<1> HIDE DEF r, A, all
<1>5. all = UNION {A[h] : h \in hashes}
  BY <1>1, <1>4
<1>6. \A h, g \in hashes : h # g => A[h] \cap A[g] = {}
  <2>1. \A t, h, g, i : i \in Paid(t, h) /\ i \in Paid(t, g) => h = g
    BY DEF Paid
  <2>2. ASSUME NEW h \in hashes, NEW g \in hashes, h # g PROVE PaidCoins({h}, d) \cap PaidCoins({g}, d) = {}
    <3> SUFFICES ASSUME NEW c, c \in PaidCoins({h}, d), c \in PaidCoins({g}, d) PROVE h = g
      BY <2>2
    <3>1. c[2] \in Paid(c[1], h) /\ c[2] \in Paid(c[1], g)
      BY <1>2
    <3> QED
      BY <2>1, <3>1
  <2> QED
    BY <1>1, <2>2
<1>7. \A h \in hashes : Numbers(Worth, A[h]) /\ r[h] = Sum(Worth, A[h])
  BY <1>1, ReceivedIs
<1>8. SameSum(Worth, all, r, hashes)
  BY <1>5, <1>6, <1>7, SumNested
<1>9. Received(hashes, d) = Sum(Worth, all)
  BY ReceivedIs DEF all
<1>10. Sum(r, hashes) = Received(hashes, d)
  BY <1>8, <1>9 DEF SameSum
<1> QED
  BY <1>8, <1>10 DEF r, SameSum

\* The wallet has a label for finitely many strings, and no key is Invalid.
Labelling == IsFiniteSet(DOMAIN mapAddressBook) /\ keys \subseteq FirstKeys \cup NewKeys

LEMMA TalliedIs ==
    ASSUME Known, NEW h, NEW d
    PROVE  /\ h \in Tallied(d) => h \in keys
           /\ h \in keys /\ h \notin Tallied(d) => Received({h}, d) = 0
<1>1. h \in Tallied(d) => h \in keys
  BY DEF Tallied
<1>2. ASSUME h \in keys, h \notin Tallied(d) PROVE Received({h}, d) = 0
  <2>1. \A t \in Counting(d) : PaidTo(t, {h}) = {}
    BY <1>2 DEF Tallied, PaidTo
  <2>2. PaidCoins({h}, d) = {}
    BY <2>1 DEF PaidCoins, CoinsAt
  <2> QED
    BY <2>2, ReceivedIs, SumNone
<1> QED
  BY <1>1, <1>2

\* What is listed for an address is what is asked for it alone.
LEMMA AmountIs ==
    ASSUME Known, NEW s, NEW d
    PROVE  AmountAt(s, d) = getreceivedbyaddress(s, d) /\ AmountAt(s, d) \in Nat
<1> DEFINE h == AddressOf[s]
<1>1. Received({h}, d) \in Nat
  BY ReceivedIs
<1>2. AmountAt(s, d) = IF h \in Tallied(d) THEN Received({h}, d) ELSE 0
  BY DEF AmountAt, TallyAmount
<1>3. getreceivedbyaddress(s, d) = IF h \in keys THEN Received({h}, d) ELSE 0
  BY DEF getreceivedbyaddress
<1> HIDE DEF h
<1> QED
  BY <1>1, <1>2, <1>3, TalliedIs

LEMMA FiniteImage ==
    ASSUME NEW S, IsFiniteSet(S), NEW f
    PROVE  IsFiniteSet({f[s] : s \in S})
<1> DEFINE T == {f[s] : s \in S}
           g == [s \in S |-> f[s]]
<1>1. g \in Surjection(S, T)
  BY DEF Surjection
<1> HIDE DEF g, T
<1>2. IsFiniteSet(T)
  BY <1>1, FS_Surjection
<1> QED
  BY <1>2 DEF T

\* The keys a label has addresses of.
KeysOf(l) == {AddressOf[s] : s \in Labelled(l)} \cap keys

LEMMA KeysFinite == ASSUME Labelling, NEW l PROVE IsFiniteSet(Labelled(l)) /\ IsFiniteSet(KeysOf(l))
<1>1. IsFiniteSet(Labelled(l))
  BY FS_Subset DEF Labelled, Labelling
<1>2. IsFiniteSet({AddressOf[s] : s \in Labelled(l)})
  BY <1>1, FiniteImage
<1> QED
  BY <1>1, <1>2, FS_Subset DEF KeysOf

\* A label has what its addresses have, if no two are the same.
LEMMA LabelSum ==
    ASSUME Known, Labelling, NEW l, NEW d, ~SameAddress(l)
    PROVE  LET items == {s \in Reported(d, TRUE) : mapAddressBook[s] = l}
           IN  SumFunction([s \in items |-> AmountAt(s, d)]) = Received(KeysOf(l), d)
<1> DEFINE items == {s \in Reported(d, TRUE) : mapAddressBook[s] = l}
           a == [s \in items |-> AmountAt(s, d)]
           own == {s \in items : AddressOf[s] \in keys}
           H == KeysOf(l)
           r == [h \in H |-> Received({h}, d)]
<1>1. items = {s \in Labelled(l) : AddressOf[s] # Invalid}
  BY DEF Reported, Labelled
<1>2. Invalid \notin keys
  BY HistoryAssumption DEF HistoryAssumption, Labelling
<1>3. own = {s \in Labelled(l) : AddressOf[s] \in keys}
  BY <1>1, <1>2
<1>4. IsFiniteSet(items) /\ IsFiniteSet(own) /\ IsFiniteSet(H)
  BY <1>1, KeysFinite, FS_Subset
<1>5. \A s \in items : a[s] = AmountAt(s, d) /\ a[s] \in Nat
  BY AmountIs
<1>6. \A s \in items \ own : a[s] = 0
  <2> SUFFICES ASSUME NEW s \in items \ own PROVE AmountAt(s, d) = 0
    OBVIOUS
  <2>1. AddressOf[s] \notin keys
    OBVIOUS
  <2>2. getreceivedbyaddress(s, d) = 0
    BY <2>1 DEF getreceivedbyaddress
  <2> QED
    BY <2>2, AmountIs
<1>7. \A s \in own : a[s] = r[AddressOf[s]] /\ AddressOf[s] \in H
  <2> SUFFICES ASSUME NEW s \in own PROVE AmountAt(s, d) = Received({AddressOf[s]}, d) /\ AddressOf[s] \in H
    OBVIOUS
  <2>1. AddressOf[s] \in keys /\ AddressOf[s] \in H
    BY <1>3 DEF KeysOf
  <2>2. getreceivedbyaddress(s, d) = Received({AddressOf[s]}, d)
    BY <2>1 DEF getreceivedbyaddress
  <2> QED
    BY <2>1, <2>2, AmountIs
<1>8. H = {AddressOf[s] : s \in own}
  BY <1>3 DEF KeysOf
<1>9. \A s, x \in own : s # x => AddressOf[s] # AddressOf[x]
  BY <1>3 DEF SameAddress
<1>10. Sum(r, H) = Received(H, d)
  BY <1>4, ReceivedBySeveral
<1>11. SumFunction(a) = Sum(a, items)
  BY FunctionSum
<1>12. own \in SUBSET items
  OBVIOUS
<1> HIDE DEF items, a, own, H, r
<1>13. Numbers(a, items)
  BY <1>4, <1>5 DEF Numbers
<1>14. Sum(a, items) = Sum(a, own)
  BY <1>6, <1>12, <1>13, SumNonzero
<1>15. \A s \in own : a[s] = r[AddressOf[s]] /\ a[s] \in Int
  BY <1>5, <1>7, <1>12
<1>16. SameSum(r, H, a, own)
  BY <1>4, <1>8, <1>9, <1>15, SumMapped
<1>17. SumFunction(a) = Received(H, d)
  BY <1>10, <1>11, <1>14, <1>16 DEF SameSum
<1> QED
  BY <1>17 DEF a, items, H

LEMMA ReceivedAgrees == ASSUME Known, Labelling PROVE ReceivedAgree
<1> SUFFICES ASSUME NEW d \in Depths
             PROVE  LET list == listreceivedbyaddress(d, FALSE)
                    IN  /\ \A e \in list : e.amount = getreceivedbyaddress(e.address, d)
                        /\ \A s \in DOMAIN mapAddressBook :
                              getreceivedbyaddress(s, d) > 0 => \E e \in list : e.address = s
                        /\ \A l \in Labels :
                              getreceivedbylabel(l, d) =
                                  SumFunction([h \in {AddressOf[s] : s \in Labelled(l)} \cap keys |->
                                                  Received({h}, d)])
                        /\ \A e \in listreceivedbylabel(d, TRUE) :
                              SameAddress(e.label) \/ e.amount = getreceivedbylabel(e.label, d)
  BY DEF ReceivedAgree
<1> DEFINE list == listreceivedbyaddress(d, FALSE)
           item(s) == [address |-> s, label |-> mapAddressBook[s], amount |-> AmountAt(s, d),
                       confirmations |-> ConfAt(s, d) % NoConf]
<1>1. list = {item(s) : s \in Reported(d, FALSE)}
  BY DEF listreceivedbyaddress
<1>2. \A s : item(s).address = s /\ item(s).amount = AmountAt(s, d)
  OBVIOUS
<1>3. ASSUME NEW e \in list PROVE e.amount = getreceivedbyaddress(e.address, d)
  <2> HIDE DEF list, item
  <2>1. PICK s : e = item(s)
    BY <1>1
  <2>2. e.address = s /\ e.amount = AmountAt(s, d)
    BY <1>2, <2>1
  <2> QED
    BY <2>2, AmountIs
<1>4. ASSUME NEW s \in DOMAIN mapAddressBook, getreceivedbyaddress(s, d) > 0
      PROVE  \E e \in list : e.address = s
  <2>1. AddressOf[s] \in keys /\ getreceivedbyaddress(s, d) = Received({AddressOf[s]}, d)
    BY <1>4 DEF getreceivedbyaddress
  <2>2. Received({AddressOf[s]}, d) # 0
    BY <1>4, <2>1
  <2>3. AddressOf[s] \in Tallied(d)
    BY <2>1, <2>2, TalliedIs
  <2>4. AddressOf[s] # Invalid
    BY <2>1, HistoryAssumption DEF HistoryAssumption, Labelling
  <2>5. s \in Reported(d, FALSE)
    BY <2>3, <2>4 DEF Reported
  <2> HIDE DEF list, item
  <2>6. item(s) \in list
    BY <1>1, <2>5
  <2> QED
    BY <1>2, <2>6
<1>5. ASSUME NEW l
      PROVE  getreceivedbylabel(l, d) = Received(KeysOf(l), d)
  BY DEF getreceivedbylabel, KeysOf
<1>6. ASSUME NEW l \in Labels
      PROVE  getreceivedbylabel(l, d) =
                 SumFunction([h \in {AddressOf[s] : s \in Labelled(l)} \cap keys |-> Received({h}, d)])
  <2> DEFINE r == [h \in KeysOf(l) |-> Received({h}, d)]
  <2>1. SumFunction(r) = Sum(r, KeysOf(l))
    BY FunctionSum
  <2>2. Sum(r, KeysOf(l)) = Received(KeysOf(l), d)
    BY KeysFinite, ReceivedBySeveral
  <2>3. r = [h \in {AddressOf[s] : s \in Labelled(l)} \cap keys |-> Received({h}, d)]
    BY DEF KeysOf
  <2> HIDE DEF r
  <2> QED
    BY <1>5, <2>1, <2>2, <2>3
<1>7. ASSUME NEW e \in listreceivedbylabel(d, TRUE), ~SameAddress(e.label)
      PROVE  e.amount = getreceivedbylabel(e.label, d)
  <2> DEFINE items(l) == {s \in Reported(d, TRUE) : mapAddressBook[s] = l}
  <2> DEFINE total(l) == SumFunction([s \in items(l) |-> AmountAt(s, d)])
             entry(l) == [label |-> l, amount |-> total(l),
                          confirmations |-> Min({ConfAt(s, d) : s \in items(l)}) % NoConf]
  <2>3. listreceivedbylabel(d, TRUE) = {entry(l) : l \in {mapAddressBook[s] : s \in Reported(d, TRUE)}}
    BY DEF listreceivedbylabel
  <2>4. \A l : entry(l).label = l /\ entry(l).amount = total(l)
    OBVIOUS
  <2>1. PICK l : e.label = l /\ e.amount = total(l)
    <3> HIDE DEF entry, total, items
    <3>1. PICK l : e = entry(l)
      BY <1>7, <2>3
    <3> QED
      BY <2>4, <3>1
  <2>2. SumFunction([s \in items(l) |-> AmountAt(s, d)]) = Received(KeysOf(l), d)
    BY <1>7, <2>1, LabelSum
  <2> HIDE DEF items
  <2> QED
    BY <1>5, <2>1, <2>2 DEF total
<1> QED
  BY <1>3, <1>4, <1>6, <1>7

-----------------------------------------------------------------------------
(* The history and the coins.  What the chain has, and the wallet knows of *)
(* it: the chain that is the main chain once all its blocks are connected. *)

Best == IF connecting = <<>> THEN chain ELSE connecting

\* Nothing of the wallet is paid or spent.
Foreignly(t) ==
    /\ Mine(t) = {}
    /\ \A c \in In[t] : c[1] = Foreign \/ (c[1] \in Txs /\ Payable(c[1]) /\ ~IsMine(Out[c[1]][c[2]]))

\* A transaction of the wallet has the block it is in, ...
Placed(c) == \A h \in DOMAIN c : \A t \in DOMAIN mapWallet : mapWallet[t] = c[h] <=> t \in vtx[c[h]]
\* ... the rest of the chain is of others, ...
Strangers(c) == \A h \in DOMAIN c : \A t \in vtx[c[h]] \ DOMAIN mapWallet : Foreignly(t)
\* ... and what is spent came before.
Parents(c) ==
    \A h \in DOMAIN c : \A t \in vtx[c[h]] : \A o \in In[t] :
        o[1] = Foreign \/ \E g \in 1 .. h : o[1] \in vtx[c[g]]

\* The wallet has spent no coinbase of its own that is too young.
Ripe == \A t \in DOMAIN mapWallet : \A o \in In[t] : InMine(o) => GetBlocksToMaturity(o[1]) = 0
\* The chain that is being connected is longer by one, and leaves at most the tip.
Ahead == connecting # <<>> => /\ Len(connecting) = Len(chain) + 1
                              /\ \A h \in DOMAIN chain : h < Len(chain) => connecting[h] = chain[h]

CoinsInv == /\ IsFiniteSet(DOMAIN mapAddressBook)
            /\ Placed(Best) /\ Strangers(Best) /\ Parents(Best)
            /\ Ripe /\ Ahead

LEMMA MaturityIsNat ==
    Maturity \in Nat /\ CoinbaseMaturity \in Nat /\ (Maturity = 0 \/ Maturity >= 2)
  BY HistoryAssumption DEF HistoryAssumption, Maturity

LEMMA MaxTwo == ASSUME NEW n \in Int PROVE Max({0, n}) = IF n > 0 THEN n ELSE 0
<1>1. \E x \in {0, n} : \A y \in {0, n} : x >= y
  OBVIOUS
<1>2. Max({0, n}) \in {0, n} /\ \A y \in {0, n} : Max({0, n}) >= y
  BY <1>1 DEF Max
<1> QED
  BY <1>2

LEMMA ChainIs ==
    ASSUME NEW c, IsChain(c)
    PROVE  /\ Len(c) \in Nat /\ DOMAIN c = 1 .. Len(c)
           /\ \A h, g \in DOMAIN c : c[h] = c[g] => h = g
           /\ \A h \in DOMAIN c : c[h] \in Nat /\ c[h] \in DOMAIN vtx
<1>1. c \in Seq(Nat)
  BY DEF IsChain
<1> QED
  BY <1>1, LenProperties, ElementOfSeq DEF IsChain

\* How deep a transaction that says it is in block b is in chain c.
Depth(c, b) ==
    LET h == IF \E g \in DOMAIN c : c[g] = b THEN CHOOSE g \in DOMAIN c : c[g] = b ELSE 0
    IN  IF h = 0 THEN 0 ELSE Len(c) - h + 1

LEMMA DepthOf ==
    ASSUME NEW c, Len(c) \in Nat, DOMAIN c = 1 .. Len(c), \A h, g \in DOMAIN c : c[h] = c[g] => h = g, NEW b
    PROVE  /\ \A h \in DOMAIN c : b = c[h] => Depth(c, b) = Len(c) - h + 1
           /\ (\A h \in DOMAIN c : b # c[h]) => Depth(c, b) = 0
           /\ Depth(c, b) \in Nat
<1> DEFINE HeightIn == IF \E g \in DOMAIN c : c[g] = b THEN CHOOSE g \in DOMAIN c : c[g] = b ELSE 0
<1>1. Depth(c, b) = IF HeightIn = 0 THEN 0 ELSE Len(c) - HeightIn + 1
  BY DEF Depth
<1>2. ASSUME NEW h \in DOMAIN c, b = c[h] PROVE HeightIn = h
  BY <1>2
<1>3. ASSUME \A h \in DOMAIN c : b # c[h] PROVE HeightIn = 0
  BY <1>3
<1> HIDE DEF HeightIn
<1>4. ASSUME NEW h \in DOMAIN c, b = c[h] PROVE Depth(c, b) = Len(c) - h + 1
  BY <1>1, <1>2, <1>4
<1>5. ASSUME \A h \in DOMAIN c : b # c[h] PROVE Depth(c, b) = 0
  BY <1>1, <1>3, <1>5
<1>6. Depth(c, b) \in Nat
  <2>1. CASE \A h \in DOMAIN c : b # c[h]
    BY <1>5, <2>1
  <2>2. CASE \E h \in DOMAIN c : b = c[h]
    <3>1. PICK h \in 1 .. Len(c) : Depth(c, b) = Len(c) - h + 1
      BY <1>4, <2>2
    <3> QED
      BY <3>1
  <2> QED
    BY <2>1, <2>2
<1> QED
  BY <1>4, <1>5, <1>6

LEMMA DepthIs ==
    ASSUME IsChain(chain), NEW t
    PROVE  /\ \A h \in DOMAIN chain : mapWallet[t] = chain[h] => GetDepthInMainChain(t) = Len(chain) - h + 1
           /\ (\A h \in DOMAIN chain : mapWallet[t] # chain[h]) => GetDepthInMainChain(t) = 0
           /\ GetDepthInMainChain(t) \in Nat
<1>1. GetDepthInMainChain(t) = Depth(chain, mapWallet[t])
  BY DEF GetDepthInMainChain, HeightOf, Depth
<1> QED
  BY <1>1, ChainIs, DepthOf

\* How long it takes to mature.
Wait(t, d) == IF t \in Coinbases THEN Max({0, Maturity - d}) ELSE 0

LEMMA WaitIs ==
    ASSUME NEW t, NEW d \in Nat
    PROVE  /\ Wait(t, d) \in Nat
           /\ Wait(t, d) = 0 <=> t \notin Coinbases \/ d >= Maturity
<1>1. Maturity \in Nat
  BY MaturityIsNat
<1> DEFINE n == Maturity - d
<1>2. n \in Int
  BY <1>1
<1>3. Wait(t, d) = IF t \in Coinbases THEN Max({0, n}) ELSE 0
  BY DEF Wait
<1>4. Max({0, n}) = IF n > 0 THEN n ELSE 0
  BY <1>2, MaxTwo
<1> QED
  BY <1>1, <1>3, <1>4

LEMMA MaturityIs ==
    ASSUME IsChain(chain), NEW t
    PROVE  /\ GetBlocksToMaturity(t) \in Nat
           /\ GetBlocksToMaturity(t) = 0 <=> t \notin Coinbases \/ GetDepthInMainChain(t) >= Maturity
<1>1. GetBlocksToMaturity(t) = Wait(t, GetDepthInMainChain(t))
  BY DEF GetBlocksToMaturity, Wait
<1> QED
  BY <1>1, DepthIs, WaitIs

Deep == {t \in DOMAIN mapWallet : GetDepthInMainChain(t) > 0}
Spendable(t) == IF GetBlocksToMaturity(t) > 0 THEN {} ELSE Mine(t)

LEMMA DeepIs ==
    ASSUME IsChain(chain), Placed(chain), NEW t \in DOMAIN mapWallet
    PROVE  /\ t \in Deep <=> t \in Chained(chain)
           /\ \A h \in DOMAIN chain : t \in vtx[chain[h]] => GetDepthInMainChain(t) = Len(chain) - h + 1
<1>1. \A h \in DOMAIN chain : mapWallet[t] = chain[h] <=> t \in vtx[chain[h]]
  BY DEF Placed
<1>2. t \in Chained(chain) <=> \E h \in DOMAIN chain : t \in vtx[chain[h]]
  BY DEF Chained
<1>3. \A h \in DOMAIN chain : t \in vtx[chain[h]] => GetDepthInMainChain(t) = Len(chain) - h + 1
  BY <1>1, DepthIs
<1>4. t \in Deep => t \in Chained(chain)
  <2> SUFFICES ASSUME t \in Deep, t \notin Chained(chain) PROVE FALSE
    OBVIOUS
  <2>1. \A h \in DOMAIN chain : mapWallet[t] # chain[h]
    BY <1>1, <1>2
  <2>2. GetDepthInMainChain(t) = 0
    BY <2>1, DepthIs
  <2> QED
    BY <2>2 DEF Deep
<1>5. t \in Chained(chain) => t \in Deep
  <2> SUFFICES ASSUME NEW h \in DOMAIN chain, t \in vtx[chain[h]] PROVE GetDepthInMainChain(t) > 0
    BY <1>2 DEF Deep
  <2>1. Len(chain) \in Nat /\ h \in 1 .. Len(chain)
    BY ChainIs
  <2> QED
    BY <1>3, <2>1
<1> QED
  BY <1>3, <1>4, <1>5

\* What a transaction of the chain spends of the wallet was there to be spent.
LEMMA SpentWasThere ==
    ASSUME Known, IsChain(chain), Placed(chain), Parents(chain), Ripe, NEW x \in Deep, NEW c \in MyCoins(x)
    PROVE  c[1] \in Deep /\ c[2] \in Spendable(c[1])
<1>1. x \in DOMAIN mapWallet /\ c \in In[x] /\ c[1] \in DOMAIN mapWallet /\ IsMine(Out[c[1]][c[2]])
  BY DEF Deep, MyCoins, InMine
<1>2. c[1] \in Txs /\ c[1] # Foreign /\ x \in Txs
  BY <1>1, HistoryAssumption DEF Known, HistoryAssumption
<1>3. c[2] \in DOMAIN Out[c[1]]
  BY <1>1, <1>2, CoinIs
<1>4. PICK h \in DOMAIN chain : x \in vtx[chain[h]]
  BY <1>1, DeepIs DEF Chained
<1>5. PICK g \in 1 .. h : c[1] \in vtx[chain[g]]
  BY <1>1, <1>2, <1>4 DEF Parents
<1>6. Len(chain) \in Nat /\ h \in 1 .. Len(chain) /\ g \in DOMAIN chain /\ g <= h
  BY <1>4, <1>5, ChainIs
<1>7. c[1] \in Chained(chain)
  BY <1>5, <1>6 DEF Chained
<1>8. c[1] \in Deep
  BY <1>1, <1>7, DeepIs
<1>9. GetBlocksToMaturity(c[1]) = 0
  BY <1>1 DEF Ripe, MyCoins
<1>10. c[2] \in Mine(c[1])
  BY <1>1, <1>3 DEF Mine
<1> QED
  BY <1>8, <1>9, <1>10 DEF Spendable

\* What the chain has given to the wallet, taken from it, and left to it.
GivenBy(t) == CoinsAt(t, Spendable(t))
AllGiven == UNION {GivenBy(t) : t \in Deep}
AllTaken == UNION {MyCoins(t) : t \in Deep}

LEMMA CreditAsCoins ==
    ASSUME Known, IsChain(chain), NEW t \in DOMAIN mapWallet
    PROVE  /\ GivenBy(t) \in SUBSET Held /\ Numbers(Worth, GivenBy(t))
           /\ GetCredit(t) = Sum(Worth, GivenBy(t))
<1>1. t \in Txs /\ Mine(t) \in SUBSET DOMAIN Out[t] /\ Spendable(t) \in SUBSET DOMAIN Out[t]
  BY DEF Known, Mine, Spendable
<1>2. Numbers(Worth, GivenBy(t)) /\ Sum(Worth, GivenBy(t)) = ValueOf(t, Spendable(t))
  BY <1>1, ValueAsCoins DEF GivenBy
<1>3. GetCredit(t) = ValueOf(t, Spendable(t))
  <2>1. CASE GetBlocksToMaturity(t) > 0
    <3>1. ValueOf(t, {}) = 0
      BY <1>1, ValueIs, SumNone
    <3> QED
      BY <2>1, <3>1 DEF GetCredit, Spendable
  <2>2. CASE ~(GetBlocksToMaturity(t) > 0)
    BY <2>2 DEF GetCredit, Spendable
  <2> QED
    BY <2>1, <2>2
<1>4. GivenBy(t) \in SUBSET Held
  BY DEF GivenBy, CoinsAt
<1> QED
  BY <1>2, <1>3, <1>4

\* The amounts of the history are the coins given without those taken.
LEMMA HistorySum ==
    ASSUME Known, IsChain(chain), AllTaken \subseteq AllGiven
    PROVE  LET left == AllGiven \ AllTaken
           IN  /\ Numbers(Worth, left) /\ left \in SUBSET Held
               /\ SumFunction([t \in Deep |-> gettransaction(t).amount]) = Sum(Worth, left)
<1> DEFINE S == Deep
           net == [t \in S |-> gettransaction(t).amount]
           credit == [t \in S |-> GetCredit(t)]
           debit == [t \in S |-> GetDebit(t)]
           A == [t \in S |-> GivenBy(t)]
           D == [t \in S |-> MyCoins(t)]
           left == AllGiven \ AllTaken
<1>1. S \subseteq DOMAIN mapWallet /\ S \subseteq Txs /\ IsFiniteSet(S)
  <2>1. IsFiniteSet(Txs) /\ S \subseteq DOMAIN mapWallet /\ S \subseteq Txs
    BY HistoryAssumption DEF HistoryAssumption, Known, Deep
  <2> QED
    BY <2>1, FS_Subset
<1>2. \A t \in S : /\ Numbers(Worth, A[t]) /\ credit[t] = Sum(Worth, A[t]) /\ credit[t] \in Int
                   /\ Numbers(Worth, D[t]) /\ debit[t] = Sum(Worth, D[t]) /\ debit[t] \in Int
                   /\ net[t] = credit[t] - debit[t]
  <2> SUFFICES ASSUME NEW t \in S
               PROVE  /\ Numbers(Worth, A[t]) /\ credit[t] = Sum(Worth, A[t]) /\ credit[t] \in Int
                      /\ Numbers(Worth, D[t]) /\ debit[t] = Sum(Worth, D[t]) /\ debit[t] \in Int
                      /\ net[t] = credit[t] - debit[t]
    OBVIOUS
  <2>1. /\ net[t] = gettransaction(t).amount /\ credit[t] = GetCredit(t) /\ debit[t] = GetDebit(t)
        /\ A[t] = GivenBy(t) /\ D[t] = MyCoins(t)
    OBVIOUS
  <2>2. t \in Txs /\ t \in DOMAIN mapWallet
    BY <1>1
  <2>3. gettransaction(t).amount = GetCredit(t) - GetDebit(t)
    BY <2>2, NetIs
  <2>4. GetCredit(t) \in Int /\ GetDebit(t) \in Int
    BY <2>2, CreditIs, MyCoinsAre
  <2> HIDE DEF S, net, credit, debit, A, D
  <2> QED
    BY <2>1, <2>2, <2>3, <2>4, CreditAsCoins, MyCoinsAre
<1>3. AllGiven = UNION {A[t] : t \in S} /\ AllTaken = UNION {D[t] : t \in S}
  BY DEF AllGiven, AllTaken
<1>4. \A t, x \in S : t # x => A[t] \cap A[x] = {}
  BY DEF GivenBy, CoinsAt
<1>5. \A t, x \in S : t # x => D[t] \cap D[x] = {}
  <2>1. \A t, x \in Txs : t # x => In[t] \cap In[x] = {}
    BY HistoryAssumption DEF HistoryAssumption
  <2> QED
    BY <1>1, <2>1 DEF MyCoins
<1>6. SumFunction(net) = Sum(net, S)
  BY FunctionSum
<1>7. left \cup AllTaken = AllGiven /\ left \cap AllTaken = {} /\ left \in SUBSET AllGiven
  OBVIOUS
<1>8. \A c \in AllGiven : c \in Held
  BY DEF AllGiven, GivenBy, CoinsAt
<1> HIDE DEF S, net, credit, debit, A, D, left
<1>9. SameSum(Worth, AllGiven, credit, S)
  <2>1. \A t \in S : Numbers(Worth, A[t]) /\ credit[t] = Sum(Worth, A[t])
    BY <1>2
  <2>2. AllGiven = UNION {A[t] : t \in S} /\ IsFiniteSet(S)
    BY <1>1, <1>3
  <2> QED
    BY <1>4, <2>1, <2>2, SumNested
<1>10. SameSum(Worth, AllTaken, debit, S)
  <2>1. \A t \in S : Numbers(Worth, D[t]) /\ debit[t] = Sum(Worth, D[t])
    BY <1>2
  <2>2. AllTaken = UNION {D[t] : t \in S} /\ IsFiniteSet(S)
    BY <1>1, <1>3
  <2> QED
    BY <1>5, <2>1, <2>2, SumNested
<1>11. Numbers(net, S) /\ Numbers(debit, S) /\ \A t \in S : credit[t] = net[t] + debit[t]
  BY <1>1, <1>2 DEF Numbers
<1>12. Sum(credit, S) = Sum(net, S) + Sum(debit, S)
  BY <1>11, SumPlus
<1>13. Numbers(Worth, left) /\ Sum(Worth, left) \in Int
  BY <1>7, <1>9, NumbersPart DEF SameSum
<1>14. Sum(Worth, AllGiven) = Sum(Worth, left) + Sum(Worth, AllTaken)
  <2>1. Numbers(Worth, left \cup AllTaken)
    BY <1>7, <1>9 DEF SameSum
  <2>2. Sum(Worth, left \cup AllTaken) = Sum(Worth, left) + Sum(Worth, AllTaken)
    BY <1>7, <2>1, SumSplit
  <2> QED
    BY <1>7, <2>2, Zenon
<1>15. Sum(net, S) \in Int /\ Sum(debit, S) \in Int
  BY <1>11, SumInt
<1>16. Sum(net, S) = Sum(Worth, left)
  BY <1>9, <1>10, <1>12, <1>13, <1>14, <1>15 DEF SameSum
<1>17. left \in SUBSET Held
  BY <1>7, <1>8
<1> QED
  BY <1>6, <1>13, <1>16, <1>17 DEF left, net, S

Unspent(c) == [txid |-> c[1], vout |-> c[2], amount |-> Out[c[1]][c[2]].value,
               confirmations |-> GetDepthInMainChain(c[1])]

\* The coins left are those that listunspent lists.
LEMMA LeftIs ==
    ASSUME Known, IsChain(chain), Placed(chain), Strangers(chain)
    PROVE  listunspent(1) = {Unspent(c) : c \in AllGiven \ AllTaken}
<1> DEFINE open == {x \in DOMAIN mapWallet : /\ GetBlocksToMaturity(x) = 0
                                             /\ GetDepthInMainChain(x) >= 1
                                             /\ x \in Chained(chain)}
           outs(t) == {j \in Mine(t) : ~SpentInChain(t, j)}
           left == AllGiven \ AllTaken
<1>1. listunspent(1) = UNION {{Unspent(<<t, i>>) : i \in outs(t)} : t \in open}
  BY DEF listunspent, Unspent
<1>2. ASSUME NEW c PROVE c \in AllGiven <=> c \in Held /\ c[1] \in open /\ c[2] \in Mine(c[1])
  <2>1. c \in AllGiven <=> c \in Held /\ c[1] \in Deep /\ c[2] \in Spendable(c[1])
    BY DEF AllGiven, GivenBy, CoinsAt
  <2>2. ASSUME NEW t \in DOMAIN mapWallet
        PROVE  t \in open <=> t \in Deep /\ ~(GetBlocksToMaturity(t) > 0)
    <3>1. GetBlocksToMaturity(t) \in Nat /\ GetDepthInMainChain(t) \in Nat
      BY MaturityIs, DepthIs
    <3>2. t \in Deep <=> t \in Chained(chain)
      BY DeepIs
    <3>3. t \in Deep <=> GetDepthInMainChain(t) > 0
      BY DEF Deep
    <3> QED
      BY <3>1, <3>2, <3>3
  <2>3. Deep \subseteq DOMAIN mapWallet /\ open \subseteq DOMAIN mapWallet
    BY DEF Deep
  <2>4. \A t : Spendable(t) = IF GetBlocksToMaturity(t) > 0 THEN {} ELSE Mine(t)
    BY DEF Spendable
  <2> HIDE DEF open
  <2> QED
    BY <2>1, <2>2, <2>3, <2>4
<1>3. ASSUME NEW c \in AllGiven PROVE c \in AllTaken <=> SpentInChain(c[1], c[2])
  <2>1. c \in Held /\ c[1] \in DOMAIN mapWallet /\ c[2] \in Mine(c[1]) /\ c = <<c[1], c[2]>>
    <3>1. c \in Held /\ c[1] \in open /\ c[2] \in Mine(c[1])
      BY <1>2, <1>3
    <3> QED
      BY <3>1 DEF Held
  <2>2. InMine(c) /\ c[1] # Foreign
    <3>1. c[1] \in Txs
      BY <2>1 DEF Known
    <3> QED
      BY <2>1, <3>1, HistoryAssumption DEF InMine, Mine, HistoryAssumption
  <2>3. c \in AllTaken <=> \E x \in Deep : c \in In[x]
    BY <2>2 DEF AllTaken, MyCoins
  <2>4. SpentInChain(c[1], c[2]) <=> \E x \in Chained(chain) : c \in In[x]
    BY <2>1 DEF SpentInChain
  <2>5. ASSUME NEW x \in Deep PROVE x \in Chained(chain)
    BY DeepIs DEF Deep
  <2>6. ASSUME NEW x \in Chained(chain), c \in In[x] PROVE x \in Deep
    <3>1. CASE x \in DOMAIN mapWallet
      BY <3>1, DeepIs
    <3>2. CASE x \notin DOMAIN mapWallet
      <4>1. Foreignly(x)
        BY <3>2 DEF Strangers, Chained
      <4>2. ~IsMine(Out[c[1]][c[2]])
        BY <2>2, <2>6, <4>1 DEF Foreignly
      <4> QED
        BY <2>2, <4>2 DEF InMine
    <3> QED
      BY <3>1, <3>2
  <2> QED
    BY <2>3, <2>4, <2>5, <2>6
<1>4. ASSUME NEW t \in open, NEW i \in outs(t) PROVE <<t, i>> \in left
  <2>1. t \in Txs /\ i \in DOMAIN Out[t] /\ i \in Mine(t) /\ ~SpentInChain(t, i)
    BY DEF Known, Mine
  <2>2. <<t, i>> \in Held
    BY <2>1, OutsAre DEF Held
  <2>3. <<t, i>> \in AllGiven
    BY <1>2, <2>1, <2>2
  <2> QED
    BY <1>3, <2>1, <2>3
<1>5. ASSUME NEW c \in left PROVE c = <<c[1], c[2]>> /\ c[1] \in open /\ c[2] \in outs(c[1])
  <2>1. c \in AllGiven /\ c \notin AllTaken
    BY <1>5
  <2>2. c \in Held /\ c[1] \in open /\ c[2] \in Mine(c[1])
    BY <1>2, <2>1
  <2>3. ~SpentInChain(c[1], c[2])
    BY <1>3, <2>1
  <2> QED
    BY <2>2, <2>3 DEF Held
<1> HIDE DEF open, outs, left
<1>6. \A e : e \in listunspent(1) <=> \E t \in open : \E i \in outs(t) : e = Unspent(<<t, i>>)
  BY <1>1
<1>7. \A e : e \in listunspent(1) <=> \E c \in left : e = Unspent(c)
  BY <1>4, <1>5, <1>6, Zenon
<1>8. listunspent(1) = {Unspent(c) : c \in left}
  BY <1>7
<1> QED
  BY <1>8 DEF left

LEMMA HistoryAgrees ==
    ASSUME Known, IsChain(chain), CoinsInv, connecting = <<>>
    PROVE  SumFunction([t \in {x \in DOMAIN mapWallet : GetDepthInMainChain(x) > 0} |->
                           gettransaction(t).amount])
               = Amounts(listunspent(1))
<1> DEFINE left == AllGiven \ AllTaken
           list == listunspent(1)
           a == [e \in list |-> e.amount]
           m == [c \in left |-> Unspent(c)]
<1>1. Placed(chain) /\ Strangers(chain) /\ Parents(chain) /\ Ripe
  BY DEF CoinsInv, Best
<1>2. AllTaken \subseteq AllGiven
  <2> SUFFICES ASSUME NEW x \in Deep, NEW c \in MyCoins(x) PROVE c \in AllGiven
    BY DEF AllTaken
  <2>1. c[1] \in Deep /\ c[2] \in Spendable(c[1])
    BY <1>1, SpentWasThere
  <2>2. x \in Txs
    BY DEF Deep, Known
  <2>3. c \in Held
    BY <2>2, MyCoinsAre
  <2> QED
    BY <2>1, <2>3 DEF AllGiven, GivenBy, CoinsAt
<1>3. /\ Numbers(Worth, left) /\ left \in SUBSET Held
      /\ SumFunction([t \in Deep |-> gettransaction(t).amount]) = Sum(Worth, left)
  BY <1>2, HistorySum
<1>4. list = {Unspent(c) : c \in left}
  BY <1>1, LeftIs
<1>5. Amounts(list) = Sum(a, list)
  BY FunctionSum DEF Amounts
<1>6. \A c \in left : /\ m[c] = Unspent(c) /\ Unspent(c).txid = c[1] /\ Unspent(c).vout = c[2]
                      /\ Unspent(c).amount = Out[c[1]][c[2]].value
  BY DEF Unspent
<1>7. list = {m[c] : c \in left}
  BY <1>4
<1>8. \A e \in list : a[e] = e.amount
  OBVIOUS
<1> HIDE DEF left, list, a, m
<1>9. \A c \in left : Worth[c] = a[m[c]] /\ Worth[c] \in Int
  <2> SUFFICES ASSUME NEW c \in left PROVE Worth[c] = a[m[c]] /\ Worth[c] \in Int
    OBVIOUS
  <2>1. m[c] \in list /\ c \in Held
    BY <1>3, <1>7
  <2>2. a[m[c]] = Out[c[1]][c[2]].value
    BY <1>6, <1>8, <2>1
  <2> QED
    BY <2>1, <2>2, HeldIs
<1>10. \A c, d \in left : c # d => m[c] # m[d]
  <2>1. \A c \in left : c = <<c[1], c[2]>>
    BY <1>3 DEF Held
  <2>2. \A c \in left : m[c].txid = c[1] /\ m[c].vout = c[2]
    BY <1>6
  <2> QED
    BY <2>1, <2>2
<1>11. IsFiniteSet(left)
  BY <1>3 DEF Numbers
<1>12. SameSum(a, list, Worth, left)
  BY <1>7, <1>9, <1>10, <1>11, SumMapped
<1> QED
  BY <1>3, <1>5, <1>12 DEF SameSum, Deep, list, left

-----------------------------------------------------------------------------
(* The coins stay where the chain and the wallet have them.                *)

LEMMA ForeignlyStays ==
    ASSUME NEW t \in Txs, Payable(t), Foreignly(t), KeysGrow
    PROVE  Foreignly(t)'
<1>1. Mine(t)' = {}
  BY MineStays DEF Foreignly, Mine
<1>2. ASSUME NEW c \in In[t], c[1] # Foreign
      PROVE  c[1] \in Txs /\ Payable(c[1])' /\ ~IsMine(Out[c[1]][c[2]])'
  <2>1. c[1] \in Txs /\ Payable(c[1]) /\ ~IsMine(Out[c[1]][c[2]])
    BY <1>2 DEF Foreignly
  <2>2. c[2] \in DOMAIN Out[c[1]]
    BY <1>2, CoinIs
  <2>3. Payable(c[1])'
    BY <2>1, PayableStays
  <2> QED
    BY <2>1, <2>2, <2>3, MineStays
<1> QED
  BY <1>1, <1>2 DEF Foreignly

\* The chain that is to be the main chain, before the blocks that a step adds to it.
LEMMA BestIs ==
    ASSUME BlocksInv
    PROVE  IsChain(Best) /\ \A h \in DOMAIN Best : \A t \in vtx[Best[h]] : t \in Txs /\ Payable(t)
<1>1. IsChain(Best)
  BY DEF BlocksInv, Best
<1> PICK c : c = Best
  OBVIOUS
<1>2. \A x \in Chained(c) : x \in Txs /\ Payable(x)
  BY <1>1, ChainedIs
<1> QED
  BY <1>1, <1>2 DEF Chained

LEMMA PlacesSame ==
    ASSUME BlocksInv, CoinsInv, KeysGrow, mapWallet' = mapWallet, vtx' = vtx, Best' = Best
    PROVE  Placed(Best)' /\ Strangers(Best)' /\ Parents(Best)'
<1>1. Placed(Best) /\ Strangers(Best) /\ Parents(Best)
  BY DEF CoinsInv
<1>2. Placed(Best)'
  BY <1>1 DEF Placed
<1>3. Strangers(Best)'
  BY <1>1, BestIs, ForeignlyStays DEF Strangers
<1>4. Parents(Best)'
  BY <1>1 DEF Parents
<1> QED
  BY <1>2, <1>3, <1>4

\* What a transaction of the wallet spent of it was in it before, and has not changed.
LEMMA OldCoins ==
    ASSUME HistoryInv, Ripe, KeysGrow, DOMAIN mapWallet \subseteq DOMAIN mapWallet', DOMAIN mapWallet' \subseteq Txs,
           NEW t \in DOMAIN mapWallet, NEW o \in In[t], InMine(o)'
    PROVE  InMine(o) /\ o[1] \in DOMAIN mapWallet /\ GetBlocksToMaturity(o[1]) = 0
<1>1. t \in Txs /\ Settled(t) /\ DOMAIN mapWallet \subseteq Txs
  BY DEF HistoryInv, WalletInv
<1>2. InMine(o)
  BY <1>1, CoinsStay
<1> QED
  BY <1>2 DEF Ripe, InMine

LEMMA CoinsSame ==
    ASSUME HistoryInv, CoinsInv, KeysGrow, mapWallet' = mapWallet, vtx' = vtx, chain' = chain,
           connecting' = connecting, IsFiniteSet(DOMAIN mapAddressBook')
    PROVE  CoinsInv'
<1>1. Best' = Best /\ BlocksInv /\ Ripe /\ Ahead
  BY DEF Best, HistoryInv, CoinsInv
<1>2. Placed(Best)' /\ Strangers(Best)' /\ Parents(Best)'
  BY <1>1, PlacesSame
<1>3. Ripe'
  <2> SUFFICES ASSUME NEW t \in DOMAIN mapWallet, NEW o \in In[t], InMine(o)'
               PROVE  GetBlocksToMaturity(o[1])' = 0
    BY DEF Ripe
  <2>1. GetBlocksToMaturity(o[1]) = 0
    BY <1>1, OldCoins DEF HistoryInv, WalletInv
  <2> QED
    BY <2>1 DEF GetBlocksToMaturity, GetDepthInMainChain, HeightOf
<1>4. Ahead'
  BY <1>1 DEF Ahead
<1> QED
  BY <1>2, <1>3, <1>4 DEF CoinsInv

LEMMA CoinsFirst ==
    ASSUME ListInit
    PROVE  CoinsInv
<1>1. mapAddressBook = <<>> /\ Best = <<>>
  BY DEF ListInit, InitHistory, Best
<1>2. DOMAIN <<>> = {}
  OBVIOUS
<1>3. IsFiniteSet(DOMAIN mapAddressBook)
  BY <1>1, <1>2, FS_EmptySet
<1> QED
  BY <1>1, <1>2, <1>3 DEF CoinsInv, Placed, Strangers, Parents, Ripe, Ahead, ListInit, InitHistory

LEMMA NewTxCoins ==
    ASSUME HistoryInv, CoinsInv, NEW t \in Txs, NewTx(t)
    PROVE  CoinsInv'
<1>1. /\ UNCHANGED <<keys, mapAddressBook, chainVars>> /\ KeysGrow
      /\ t \notin DOMAIN mapWallet /\ (Mine(t) # {} \/ GetDebit(t) > 0)
  BY DEF NewTx, KeysGrow
<1>2. /\ DOMAIN mapWallet' = DOMAIN mapWallet \cup {t} /\ mapWallet'[t] = 0
      /\ \A x \in DOMAIN mapWallet : mapWallet'[x] = mapWallet[x]
  BY <1>1 DEF NewTx, InWallet
<1>3. Known
  BY DEF Known, HistoryInv, WalletInv
<1>4. ~Foreignly(t)
  <2> SUFFICES ASSUME Foreignly(t) PROVE FALSE
    OBVIOUS
  <2>1. MyCoins(t) = {}
    <3> SUFFICES ASSUME NEW c \in In[t], InMine(c) PROVE FALSE
      BY DEF MyCoins
    <3>1. c[1] # Foreign
      BY <1>3, HistoryAssumption DEF Known, InMine, HistoryAssumption
    <3> QED
      BY <3>1 DEF Foreignly, InMine
  <2>2. GetDebit(t) = Sum(Worth, MyCoins(t))
    BY <1>3, MyCoinsAre
  <2>3. GetDebit(t) = 0
    BY <2>1, <2>2, SumNone
  <2> QED
    BY <1>1, <2>3 DEF Foreignly
<1>5. Best' = Best /\ vtx' = vtx
  BY <1>1 DEF Best, chainVars
<1>6. /\ \A h \in DOMAIN Best : Best[h] \in DOMAIN vtx /\ \A x \in vtx[Best[h]] : x \in Txs /\ Payable(x)
      /\ DOMAIN vtx \subseteq Nat \ {0}
  <2>1. BlocksInv
    BY DEF HistoryInv
  <2>2. DOMAIN vtx = 1 .. Len(vtx) /\ Len(vtx) \in Nat
    BY <2>1, LenProperties DEF BlocksInv
  <2> QED
    BY <2>1, <2>2, BestIs DEF IsChain
<1>7. Placed(Best) /\ Strangers(Best) /\ Parents(Best)
  BY DEF CoinsInv
<1>8. \A h \in DOMAIN Best : t \notin vtx[Best[h]]
  BY <1>1, <1>4, <1>7 DEF Strangers
<1>9. Placed(Best)'
  <2> SUFFICES ASSUME NEW h \in DOMAIN Best, NEW x \in DOMAIN mapWallet'
               PROVE  mapWallet'[x] = Best[h] <=> x \in vtx[Best[h]]
    BY <1>5 DEF Placed
  <2>1. CASE x = t
    BY <1>2, <1>6, <1>8, <2>1
  <2>2. CASE x # t
    BY <1>2, <1>7, <2>2 DEF Placed
  <2> QED
    BY <2>1, <2>2
<1>10. Strangers(Best)'
  <2> SUFFICES ASSUME NEW h \in DOMAIN Best, NEW x \in vtx[Best[h]] \ DOMAIN mapWallet' PROVE Foreignly(x)'
    BY <1>5 DEF Strangers
  <2>1. x \in vtx[Best[h]] \ DOMAIN mapWallet
    BY <1>2
  <2>2. Foreignly(x) /\ x \in Txs /\ Payable(x)
    BY <1>6, <1>7, <2>1 DEF Strangers
  <2> QED
    BY <1>1, <2>2, ForeignlyStays
<1>11. Parents(Best)'
  BY <1>5, <1>7 DEF Parents
<1>12. Ripe'
  <2> SUFFICES ASSUME NEW x \in DOMAIN mapWallet', NEW o \in In[x], InMine(o)'
               PROVE  GetBlocksToMaturity(o[1])' = 0
    BY DEF Ripe
  <2>1. o[1] \in DOMAIN mapWallet /\ GetBlocksToMaturity(o[1]) = 0
    <3>1. CASE x = t
      <4>1. o[1] = Foreign \/ (InMine(o) /\ GetBlocksToMaturity(o[1]) = 0)
        BY <3>1 DEF NewTx
      <4>2. o[1] # Foreign
        BY <1>2, <1>3, HistoryAssumption DEF Known, InMine, HistoryAssumption
      <4> QED
        BY <4>1, <4>2 DEF InMine
    <3>2. CASE x # t
      <4>1. x \in DOMAIN mapWallet /\ DOMAIN mapWallet' \subseteq Txs /\ Ripe
        BY <1>2, <1>3, <3>2 DEF Known, CoinsInv
      <4> QED
        BY <1>1, <1>2, <4>1, OldCoins
    <3> QED
      BY <3>1, <3>2
  <2>2. mapWallet'[o[1]] = mapWallet[o[1]] /\ chain' = chain
    BY <1>1, <1>2, <2>1 DEF chainVars
  <2> QED
    BY <2>1, <2>2 DEF GetBlocksToMaturity, GetDepthInMainChain, HeightOf
<1>13. Ahead'
  BY <1>1 DEF Ahead, CoinsInv, chainVars
<1> QED
  BY <1>1, <1>9, <1>10, <1>11, <1>12, <1>13 DEF CoinsInv

LEMMA BookFinite ==
    ASSUME IsFiniteSet(DOMAIN mapAddressBook), NEW s, NEW l, mapAddressBook' = Recorded(mapAddressBook, s, l)
    PROVE  IsFiniteSet(DOMAIN mapAddressBook')
<1>1. DOMAIN mapAddressBook' = DOMAIN mapAddressBook \cup {s}
  BY DEF Recorded
<1> QED
  BY <1>1, FS_AddElement

LEMMA KeysCoins ==
    ASSUME HistoryInv, CoinsInv, getnewaddress \/ setlabel
    PROVE  CoinsInv'
<1>1. UNCHANGED <<mapWallet, chainVars>> /\ KeysGrow
  BY DEF getnewaddress, setlabel, KeysGrow
<1>2. PICK s \in Strings, l \in Labels : mapAddressBook' = Recorded(mapAddressBook, s, l)
  BY DEF getnewaddress, setlabel
<1>3. IsFiniteSet(DOMAIN mapAddressBook')
  BY <1>2, BookFinite DEF CoinsInv
<1>4. mapWallet' = mapWallet /\ vtx' = vtx /\ chain' = chain /\ connecting' = connecting
  BY <1>1 DEF chainVars
<1> QED
  BY <1>1, <1>3, <1>4, CoinsSame

LEMMA SetBestChainCoins ==
    ASSUME HistoryInv, CoinsInv, SetBestChain
    PROVE  CoinsInv'
<1>1. /\ UNCHANGED <<keys, mapAddressBook, mapWallet, vtx>> /\ KeysGrow
      /\ connecting # <<>> /\ chain' = connecting /\ connecting' = <<>>
  BY DEF SetBestChain, KeysGrow
<1>2. Best' = Best
  BY <1>1 DEF Best
<1>3. Placed(Best)' /\ Strangers(Best)' /\ Parents(Best)'
  BY <1>1, <1>2, PlacesSame DEF HistoryInv
<1>4. IsChain(chain) /\ IsChain(connecting)
  BY DEF HistoryInv, BlocksInv
<1>5. ASSUME NEW t, t \in Coinbases => GetDepthInMainChain(t) >= Maturity
      PROVE  GetBlocksToMaturity(t)' = 0
  <2> PICK c, b : c = connecting /\ b = mapWallet[t]
    OBVIOUS
  <2>1. /\ Len(c) = Len(chain) + 1
        /\ \A h \in DOMAIN chain : h < Len(chain) => c[h] = chain[h]
    BY <1>1 DEF CoinsInv, Ahead
  <2>2. /\ Len(c) \in Nat /\ DOMAIN c = 1 .. Len(c) /\ \A h, g \in DOMAIN c : c[h] = c[g] => h = g
        /\ Len(chain) \in Nat /\ DOMAIN chain = 1 .. Len(chain)
    BY <1>4, ChainIs
  <2>3. /\ \A h \in DOMAIN c : b = c[h] => Depth(c, b) = Len(c) - h + 1
        /\ Depth(c, b) \in Nat
    BY <2>2, DepthOf
  <2>4. t \in Coinbases => Depth(c, b) >= Maturity
    <3>1. Maturity \in Nat /\ (Maturity = 0 \/ Maturity >= 2)
      BY MaturityIsNat
    <3>2. CASE Maturity = 0
      BY <2>3, <3>2
    <3>3. CASE Maturity >= 2 /\ t \in Coinbases
      <4>1. GetDepthInMainChain(t) >= 2
        BY <1>4, <1>5, <3>1, <3>3, DepthIs
      <4>2. PICK h \in DOMAIN chain : b = chain[h]
        BY <1>4, <4>1, DepthIs
      <4>3. GetDepthInMainChain(t) = Len(chain) - h + 1
        BY <1>4, <4>2, DepthIs
      <4>4. h < Len(chain) /\ h \in DOMAIN c
        BY <2>1, <2>2, <4>1, <4>3
      <4>5. Depth(c, b) = Len(c) - h + 1
        BY <2>1, <2>3, <4>2, <4>4
      <4> QED
        BY <1>5, <2>1, <2>2, <3>1, <3>3, <4>3, <4>5
    <3> QED
      BY <3>1, <3>2, <3>3
  <2>5. GetBlocksToMaturity(t)' = Wait(t, Depth(c, b))
    BY <1>1 DEF GetBlocksToMaturity, GetDepthInMainChain, HeightOf, Depth, Wait
  <2> QED
    BY <2>3, <2>4, <2>5, WaitIs
<1>6. Ripe'
  <2> SUFFICES ASSUME NEW t \in DOMAIN mapWallet, NEW o \in In[t], InMine(o)'
               PROVE  GetBlocksToMaturity(o[1])' = 0
    BY <1>1 DEF Ripe
  <2>1. GetBlocksToMaturity(o[1]) = 0
    BY <1>1, OldCoins DEF HistoryInv, WalletInv, CoinsInv
  <2> QED
    BY <1>4, <1>5, <2>1, MaturityIs
<1>7. Ahead'
  BY <1>1 DEF Ahead
<1> QED
  BY <1>1, <1>3, <1>6, <1>7 DEF CoinsInv

\* The new chain, block by block.
NewBest(base, k, B, C) ==
    /\ \A h \in 1 .. Len(base) : Best'[h] = base[h] /\ vtx'[Best'[h]] = vtx[base[h]] /\ base[h] \in 1 .. Len(vtx)
    /\ Best'[Len(base) + 1] = Len(vtx) + 1 /\ vtx'[Len(vtx) + 1] = B
    /\ k = 2 => Best'[Len(base) + 2] = Len(vtx) + 2 /\ vtx'[Len(vtx) + 2] = C
    /\ DOMAIN Best' = 1 .. (Len(base) + k)

LEMMA NewBestIs ==
    ASSUME BlocksInv, NEW base, IsChain(base), NEW k \in {1, 2}, NEW B, NEW C, Connects(base, k, B, C)
    PROVE  NewBest(base, k, B, C)
<1> DEFINE n == Len(vtx)
           m == Len(base)
<1>1. NewChain(base, k, B, C) /\ NewBlocks(k)
  BY ConnectsAre
<1>2. /\ DOMAIN vtx = 1 .. n /\ n \in Nat /\ m \in Nat /\ DOMAIN base = 1 .. m
      /\ \A h \in DOMAIN base : base[h] \in DOMAIN vtx
  BY <1>1, ChainIs DEF NewBlocks
<1>3. /\ DOMAIN connecting' = 1 .. (m + k)
      /\ \A h \in 1 .. m : connecting'[h] = base[h]
      /\ \A h \in 1 .. (m + k) :
           /\ h <= m => vtx'[connecting'[h]] = vtx[base[h]]
           /\ h = m + 1 => connecting'[h] = n + 1 /\ vtx'[connecting'[h]] = B
           /\ h = m + 2 => connecting'[h] = n + 2 /\ vtx'[connecting'[h]] = C
  BY <1>1 DEF NewChain
<1>4. Best' = connecting'
  <2>1. 1 \in DOMAIN connecting'
    BY <1>2, <1>3
  <2>2. connecting' # <<>>
    BY <2>1
  <2> QED
    BY <2>2 DEF Best
<1> HIDE DEF n, m
<1>5. \A h \in 1 .. m : Best'[h] = base[h] /\ vtx'[Best'[h]] = vtx[base[h]] /\ base[h] \in 1 .. n
  <2> SUFFICES ASSUME NEW h \in 1 .. m
               PROVE  Best'[h] = base[h] /\ vtx'[Best'[h]] = vtx[base[h]] /\ base[h] \in 1 .. n
    OBVIOUS
  <2>1. h \in 1 .. (m + k) /\ h <= m /\ base[h] \in 1 .. n
    BY <1>2
  <2> QED
    BY <1>3, <1>4, <2>1
<1>6. Best'[m + 1] = n + 1 /\ vtx'[n + 1] = B
  <2>1. m + 1 \in 1 .. (m + k)
    BY <1>2
  <2> QED
    BY <1>3, <1>4, <2>1
<1>7. ASSUME k = 2 PROVE Best'[m + 2] = n + 2 /\ vtx'[n + 2] = C
  <2>1. m + 2 \in 1 .. (m + k)
    BY <1>2, <1>7
  <2> QED
    BY <1>3, <1>4, <2>1
<1> QED
  BY <1>3, <1>4, <1>5, <1>6, <1>7 DEF NewBest, n, m

\* What is in a block spends what came before it or with it.
LEMMA BlockFollows ==
    ASSUME NEW base, NEW B \in Blocks(base), NEW t \in B, NEW o \in In[t], o[1] # Foreign
    PROVE  /\ o[1] \in base \cup B
           /\ t \notin DOMAIN mapWallet => ~IsMine(Out[o[1]][o[2]])
  BY DEF Blocks

LEMMA ConnectsParents ==
    ASSUME BlocksInv, NEW base, IsChain(base), Parents(base), NEW k \in {1, 2}, NEW B, NEW C,
           Connects(base, k, B, C)
    PROVE  Parents(Best)'
<1> DEFINE n == Len(vtx)
           m == Len(base)
<1>1. NewBest(base, k, B, C)
  BY NewBestIs
<1>2. /\ n \in Nat /\ m \in Nat /\ DOMAIN base = 1 .. m
  BY ChainIs, LenProperties DEF BlocksInv
<1>3. /\ B \in Blocks(Chained(base)) /\ (k = 2 => C \in Blocks(Chained(base) \cup B))
  BY DEF Connects
<1> HIDE DEF n, m
<1>4. /\ \A h \in 1 .. m : vtx'[Best'[h]] = vtx[base[h]]
      /\ vtx'[Best'[m + 1]] = B /\ (k = 2 => vtx'[Best'[m + 2]] = C)
      /\ DOMAIN Best' = 1 .. (m + k)
  BY <1>1 DEF NewBest, n, m
<1>5. \A x \in Chained(base) : \E g \in 1 .. m : x \in vtx'[Best'[g]]
  BY <1>2, <1>4 DEF Chained
<1>6. ASSUME NEW h \in DOMAIN Best', NEW t \in vtx'[Best'[h]], NEW o \in In[t], o[1] # Foreign
      PROVE  \E g \in 1 .. h : o[1] \in vtx'[Best'[g]]
  <2>1. CASE h <= m
    <3>1. h \in 1 .. m /\ t \in vtx[base[h]]
      BY <1>2, <1>4, <1>6, <2>1
    <3>2. PICK g \in 1 .. h : o[1] \in vtx[base[g]]
      BY <1>2, <1>6, <3>1 DEF Parents
    <3>3. g \in 1 .. m
      BY <1>2, <3>1, <3>2
    <3> QED
      BY <1>4, <3>2, <3>3
  <2>2. CASE h = m + 1
    <3>1. o[1] \in Chained(base) \cup B
      BY <1>3, <1>4, <1>6, <2>2, BlockFollows
    <3>2. h \in 1 .. h /\ \A g \in 1 .. m : g \in 1 .. h
      BY <1>2, <2>2
    <3> QED
      BY <1>4, <1>5, <2>2, <3>1, <3>2
  <2>3. CASE h = m + 2
    <3>1. k = 2 /\ t \in C /\ C \in Blocks(Chained(base) \cup B)
      BY <1>2, <1>3, <1>4, <1>6, <2>3
    <3>2. o[1] \in (Chained(base) \cup B) \cup C
      BY <1>6, <3>1, BlockFollows
    <3>3. h \in 1 .. h /\ m + 1 \in 1 .. h /\ \A g \in 1 .. m : g \in 1 .. h
      BY <1>2, <2>3
    <3> QED
      BY <1>4, <1>5, <2>3, <3>1, <3>2, <3>3
  <2> QED
    BY <1>2, <1>4, <2>1, <2>2, <2>3
<1> QED
  BY <1>6 DEF Parents

LEMMA ConnectsCoins ==
    ASSUME HistoryInv, CoinsInv, NEW base, IsChain(base), NEW k \in {1, 2}, NEW B, NEW C, Connects(base, k, B, C),
           k = Len(chain) - Len(base) + 1, connecting = <<>>, \A h \in DOMAIN base : h \in DOMAIN chain /\ base[h] = chain[h],
           KeysGrow, UNCHANGED <<keys, chain, mapAddressBook>>
    PROVE  CoinsInv'
<1> DEFINE n == Len(vtx)
           m == Len(base)
           shown == Brought(B, C)
<1>0. Len(chain) \in Nat /\ DOMAIN chain = 1 .. Len(chain) /\ m \in Nat /\ k = Len(chain) - m + 1
  <2>1. IsChain(chain)
    BY DEF HistoryInv, BlocksInv
  <2> QED
    BY <2>1, ChainIs
<1>1. NewBest(base, k, B, C) /\ BlocksInv
  BY NewBestIs DEF HistoryInv
<1>2. n \in Nat /\ m \in Nat /\ DOMAIN base = 1 .. m
  BY <1>1, ChainIs, LenProperties DEF BlocksInv
<1>3. /\ \A t \in B \cup C : t \in Txs /\ Payable(t)
      /\ B \cap Chained(base) = {} /\ C \cap (B \cup Chained(base)) = {} /\ (k = 1 => C = {})
  BY <1>1, ConnectsBlocks
<1>4. Placed(base) /\ Strangers(base) /\ Parents(base)
  <2>1. Placed(chain) /\ Strangers(chain) /\ Parents(chain)
    BY DEF CoinsInv, Best
  <2>2. Placed(base) /\ Strangers(base)
    BY <2>1 DEF Placed, Strangers
  <2>3. ASSUME NEW h \in DOMAIN base, NEW t \in vtx[base[h]], NEW o \in In[t], o[1] # Foreign
        PROVE  \E g \in 1 .. h : o[1] \in vtx[base[g]]
    <3>1. h \in DOMAIN chain /\ base[h] = chain[h] /\ h \in 1 .. m
      BY <1>2
    <3>2. t \in vtx[chain[h]]
      BY <2>3, <3>1
    <3>3. PICK g \in 1 .. h : o[1] \in vtx[chain[g]]
      BY <2>1, <2>3, <3>1, <3>2 DEF Parents
    <3>4. g \in DOMAIN base
      BY <1>2, <3>1
    <3> QED
      BY <3>3, <3>4
  <2>4. Parents(base)
    BY <2>3 DEF Parents
  <2> QED
    BY <2>2, <2>4
<1>5. /\ mapWallet' = [t \in DOMAIN mapWallet \cup shown |->
                          IF t \in B THEN n + 1 ELSE IF t \in C THEN n + 2 ELSE mapWallet[t]]
      /\ B \in Blocks(Chained(base)) /\ (k = 2 => C \in Blocks(Chained(base) \cup B))
  BY DEF Connects
<1>6. /\ shown \subseteq B \cup C /\ \A t \in DOMAIN mapWallet \ shown : t \notin B \cup C
      /\ \A t \in B \cup C : t \notin shown => t \notin DOMAIN mapWallet /\ Mine(t) = {}
  BY DEF Brought
<1>7. \A t \in DOMAIN mapWallet : mapWallet[t] \in {0} \cup 1 .. n
  BY <1>1, LenProperties DEF HistoryInv, WalletInv, BlocksInv
<1> HIDE DEF n, m, shown
<1>8. /\ \A h \in 1 .. m : Best'[h] = base[h] /\ vtx'[Best'[h]] = vtx[base[h]] /\ base[h] \in 1 .. n
      /\ Best'[m + 1] = n + 1 /\ vtx'[Best'[m + 1]] = B
      /\ (k = 2 => Best'[m + 2] = n + 2 /\ vtx'[Best'[m + 2]] = C)
      /\ DOMAIN Best' = 1 .. (m + k)
  BY <1>1 DEF NewBest, n, m
<1>9. ASSUME NEW h \in DOMAIN Best'
      PROVE  \/ h \in 1 .. m
             \/ h = m + 1
             \/ h = m + 2 /\ k = 2
  BY <1>2, <1>8
<1>10. \A h \in 1 .. m : vtx[base[h]] \subseteq Chained(base)
  BY <1>2 DEF Chained
<1>11. ASSUME NEW t \in DOMAIN mapWallet'
       PROVE  /\ t \in B => mapWallet'[t] = n + 1
              /\ t \in C => mapWallet'[t] = n + 2
              /\ t \notin B \cup C => t \in DOMAIN mapWallet /\ mapWallet'[t] = mapWallet[t]
  BY <1>3, <1>5, <1>6
<1>12. Placed(Best)'
  <2> SUFFICES ASSUME NEW h \in DOMAIN Best', NEW t \in DOMAIN mapWallet'
               PROVE  mapWallet'[t] = Best'[h] <=> t \in vtx'[Best'[h]]
    BY DEF Placed
  <2>1. CASE t \in B
    <3>1. mapWallet'[t] = n + 1 /\ t \notin Chained(base) /\ t \notin C
      BY <1>3, <1>11, <2>1
    <3>2. CASE h \in 1 .. m
      <4>1. Best'[h] \in 1 .. n /\ t \notin vtx'[Best'[h]]
        BY <1>8, <1>10, <3>1, <3>2
      <4> QED
        BY <1>2, <3>1, <4>1
    <3>3. CASE h = m + 1
      BY <1>8, <2>1, <3>1, <3>3
    <3>4. CASE h = m + 2 /\ k = 2
      <4>1. Best'[h] = n + 2 /\ t \notin vtx'[Best'[h]]
        BY <1>8, <3>1, <3>4
      <4> QED
        BY <1>2, <3>1, <4>1
    <3> QED
      BY <1>9, <3>2, <3>3, <3>4
  <2>2. CASE t \in C
    <3>1. mapWallet'[t] = n + 2 /\ t \notin Chained(base) /\ t \notin B /\ k = 2
      BY <1>3, <1>11, <2>2
    <3>2. CASE h \in 1 .. m
      <4>1. Best'[h] \in 1 .. n /\ t \notin vtx'[Best'[h]]
        BY <1>8, <1>10, <3>1, <3>2
      <4> QED
        BY <1>2, <3>1, <4>1
    <3>3. CASE h = m + 1
      <4>1. Best'[h] = n + 1 /\ t \notin vtx'[Best'[h]]
        BY <1>8, <3>1, <3>3
      <4> QED
        BY <1>2, <3>1, <4>1
    <3>4. CASE h = m + 2 /\ k = 2
      BY <1>8, <2>2, <3>1, <3>4
    <3> QED
      BY <1>9, <3>2, <3>3, <3>4
  <2>3. CASE t \notin B \cup C
    <3>1. t \in DOMAIN mapWallet /\ mapWallet'[t] = mapWallet[t] /\ mapWallet[t] \in {0} \cup 1 .. n
      BY <1>7, <1>11, <2>3
    <3>2. CASE h \in 1 .. m
      <4>1. h \in DOMAIN base /\ Best'[h] = base[h] /\ vtx'[Best'[h]] = vtx[base[h]]
        BY <1>2, <1>8, <3>2
      <4>2. mapWallet[t] = base[h] <=> t \in vtx[base[h]]
        BY <1>4, <3>1, <4>1 DEF Placed
      <4> QED
        BY <3>1, <4>1, <4>2
    <3>3. CASE h = m + 1
      <4>1. Best'[h] = n + 1 /\ t \notin vtx'[Best'[h]]
        BY <1>8, <2>3, <3>3
      <4> QED
        BY <1>2, <3>1, <4>1
    <3>4. CASE h = m + 2 /\ k = 2
      <4>1. Best'[h] = n + 2 /\ t \notin vtx'[Best'[h]]
        BY <1>8, <2>3, <3>4
      <4> QED
        BY <1>2, <3>1, <4>1
    <3> QED
      BY <1>9, <3>2, <3>3, <3>4
  <2> QED
    BY <2>1, <2>2, <2>3
<1>13. Strangers(Best)'
  <2> SUFFICES ASSUME NEW h \in DOMAIN Best', NEW t \in vtx'[Best'[h]] \ DOMAIN mapWallet'
               PROVE  Foreignly(t)'
    BY DEF Strangers
  <2>1. t \notin DOMAIN mapWallet /\ t \notin shown
    BY <1>5
  <2>2. ASSUME NEW before, NEW A \in Blocks(before), t \in A, t \in B \cup C,
               \A x \in before \cup A : x \in Txs /\ Payable(x)
        PROVE  Foreignly(t)
    <3>1. Mine(t) = {}
      BY <1>6, <2>1, <2>2
    <3>2. ASSUME NEW c \in In[t], c[1] # Foreign
          PROVE  c[1] \in Txs /\ Payable(c[1]) /\ ~IsMine(Out[c[1]][c[2]])
      <4>1. c[1] \in before \cup A /\ ~IsMine(Out[c[1]][c[2]])
        BY <2>1, <2>2, <3>2 DEF Blocks
      <4> QED
        BY <2>2, <4>1
    <3> QED
      BY <3>1, <3>2 DEF Foreignly
  <2>3. \A x \in Chained(base) : x \in Txs /\ Payable(x)
    BY <1>1, ChainedIs
  <2>4. Foreignly(t) /\ t \in Txs /\ Payable(t)
    <3>1. CASE h \in 1 .. m
      <4>1. h \in DOMAIN base /\ t \in vtx[base[h]]
        BY <1>2, <1>8, <3>1
      <4>2. Foreignly(t)
        BY <1>4, <2>1, <4>1 DEF Strangers
      <4>3. t \in Chained(base)
        BY <4>1 DEF Chained
      <4> QED
        BY <2>3, <4>2, <4>3
    <3>2. CASE h = m + 1
      <4>1. t \in B
        BY <1>8, <3>2
      <4>2. t \in B \cup C /\ \A x \in Chained(base) \cup B : x \in Txs /\ Payable(x)
        BY <1>3, <2>3, <4>1
      <4>3. Foreignly(t)
        BY <1>5, <2>2, <4>1, <4>2
      <4> QED
        BY <4>1, <4>2, <4>3
    <3>3. CASE h = m + 2 /\ k = 2
      <4> DEFINE both == Chained(base) \cup B
      <4>1. t \in C /\ C \in Blocks(both)
        BY <1>5, <1>8, <3>3
      <4>2. t \in B \cup C /\ \A x \in both \cup C : x \in Txs /\ Payable(x)
        BY <1>3, <2>3, <4>1
      <4> HIDE DEF both
      <4>3. Foreignly(t)
        BY <2>2, <4>1, <4>2
      <4> QED
        BY <4>1, <4>2, <4>3
    <3> QED
      BY <1>9, <3>1, <3>2, <3>3
  <2> QED
    BY <2>4, ForeignlyStays
<1>14. Parents(Best)'
  BY <1>1, <1>4, ConnectsParents
<1>15. IsFiniteSet(DOMAIN mapAddressBook')
  BY DEF CoinsInv
<1>16. Ahead'
  <2> DEFINE c == connecting'
  <2>1. /\ Len(c) = m + k /\ \A h \in 1 .. m : c[h] = base[h]
    <3>1. NewChain(base, k, B, C)
      BY <1>1, ConnectsAre
    <3>2. c \in Seq(Nat) /\ DOMAIN c = 1 .. (m + k) /\ \A h \in 1 .. m : c[h] = base[h]
      BY <3>1 DEF NewChain, m
    <3>3. Len(c) \in Nat /\ DOMAIN c = 1 .. Len(c) /\ m + k \in Nat
      BY <1>2, <3>2, LenProperties
    <3> QED
      BY <3>2, <3>3
  <2>2. m + k = Len(chain) + 1 /\ DOMAIN chain = 1 .. Len(chain) /\ Len(chain) \in Nat
    BY <1>0
  <2>3. ASSUME NEW h \in DOMAIN chain, h < Len(chain) PROVE c[h] = chain[h]
    <3>1. h \in 1 .. m
      BY <1>2, <2>2, <2>3
    <3> QED
      BY <1>2, <2>1, <3>1
  <2>4. chain' = chain
    OBVIOUS
  <2> HIDE DEF c
  <2>5. Len(c) = Len(chain) + 1
    BY <2>1, <2>2
  <2> QED
    BY <2>3, <2>4, <2>5 DEF Ahead, c
<1>17. Ripe'
  <2> SUFFICES ASSUME NEW t \in DOMAIN mapWallet', NEW o \in In[t], InMine(o)'
               PROVE  GetBlocksToMaturity(o[1])' = 0
    BY DEF Ripe
  <2>1. DOMAIN mapWallet' \subseteq Txs /\ DOMAIN mapWallet \subseteq DOMAIN mapWallet'
    BY <1>3, <1>5, <1>6 DEF HistoryInv, WalletInv
  <2>2. o[1] # Foreign /\ IsMine(Out[o[1]][o[2]])
    BY <2>1, HistoryAssumption DEF HistoryAssumption, InMine, IsMine
  <2>3. t \in DOMAIN mapWallet
    <3> SUFFICES ASSUME t \notin DOMAIN mapWallet PROVE FALSE
      OBVIOUS
    <3>1. t \in B \/ (t \in C /\ k = 2)
      BY <1>3, <1>11
    <3> QED
      BY <1>5, <2>2, <3>1, BlockFollows
  <2>4. o[1] \in DOMAIN mapWallet /\ GetBlocksToMaturity(o[1]) = 0
    BY <2>1, <2>3, OldCoins DEF CoinsInv
  <2> PICK u, c, b : u = o[1] /\ c = chain /\ b = mapWallet'[u]
    OBVIOUS
  <2>5. IsChain(chain)
    BY <1>1 DEF BlocksInv
  <2>6. /\ Len(c) \in Nat /\ DOMAIN c = 1 .. Len(c) /\ \A h, g \in DOMAIN c : c[h] = c[g] => h = g
    BY <2>5, ChainIs
  <2>7. Depth(c, b) \in Nat
    BY <2>6, DepthOf
  <2>8. GetBlocksToMaturity(u)' = Wait(u, Depth(c, b))
    BY DEF GetBlocksToMaturity, GetDepthInMainChain, HeightOf, Depth, Wait
  <2>9. ASSUME u \in Coinbases PROVE Depth(c, b) >= Maturity
    <3>1. Maturity \in Nat /\ (Maturity = 0 \/ Maturity >= 2)
      BY MaturityIsNat
    <3>2. CASE Maturity = 0
      BY <2>7, <3>2
    <3>3. CASE Maturity >= 2
      <4>1. GetDepthInMainChain(u) >= Maturity /\ GetDepthInMainChain(u) \in Nat
        BY <2>4, <2>5, <2>9, MaturityIs, DepthIs
      <4>2. PICK h \in DOMAIN chain : mapWallet[u] = chain[h]
        BY <2>5, <3>1, <3>3, <4>1, DepthIs
      <4>3. GetDepthInMainChain(u) = Len(chain) - h + 1
        BY <2>5, <4>2, DepthIs
      <4>4. Len(chain) \in Nat /\ h \in 1 .. Len(chain) /\ h < Len(chain)
        BY <2>6, <3>1, <3>3, <4>1, <4>3
      <4>5. h \in DOMAIN base /\ base[h] = chain[h]
        <5>1. h \in 1 .. m
          BY <1>0, <4>4
        <5> QED
          BY <1>2, <5>1
      <4>6. u \in Chained(base)
        <5>1. u \in vtx[base[h]]
          BY <1>4, <2>4, <4>2, <4>5 DEF Placed
        <5> QED
          BY <4>5, <5>1 DEF Chained
      <4>7. mapWallet'[u] = mapWallet[u]
        <5>1. u \notin B \cup C /\ u \in DOMAIN mapWallet'
          BY <1>3, <2>1, <2>4, <4>6
        <5> QED
          BY <1>11, <5>1
      <4>8. GetDepthInMainChain(u) = Depth(c, b)
        BY <4>7 DEF GetDepthInMainChain, HeightOf, Depth
      <4> QED
        BY <4>1, <4>8
    <3> QED
      BY <3>1, <3>2, <3>3
  <2> QED
    BY <2>7, <2>8, <2>9, WaitIs
<1> QED
  BY <1>12, <1>13, <1>14, <1>15, <1>16, <1>17 DEF CoinsInv

LEMMA ConnectBlocksCoins ==
    ASSUME HistoryInv, CoinsInv, ConnectBlocks
    PROVE  CoinsInv'
<1>1. UNCHANGED <<keys, chain, mapAddressBook>> /\ KeysGrow /\ connecting = <<>>
  BY ConnectBlocksIs DEF KeysGrow
<1>2. PICK base \in Bases : \E B, C : Connects(base, Len(chain) - Len(base) + 1, B, C)
  BY ConnectBlocksIs
<1> DEFINE k == Len(chain) - Len(base) + 1
<1>3. PICK B, C : Connects(base, k, B, C)
  BY <1>2
<1>4. IsChain(base) /\ k \in {1, 2} /\ \A h \in DOMAIN base : h \in DOMAIN chain /\ base[h] = chain[h]
  BY BaseIs DEF HistoryInv, Bases
<1>5. k = Len(chain) - Len(base) + 1
  OBVIOUS
<1> HIDE DEF k
<1> QED
  BY <1>1, <1>3, <1>4, <1>5, ConnectsCoins

LEMMA CoinsStep ==
    ASSUME HistoryInv, CoinsInv, [ListStep]_<<historyVars, listVars>>
    PROVE  CoinsInv'
<1>1. CASE \E t \in Txs : NewTx(t)
  BY <1>1, NewTxCoins
<1>2. CASE ConnectBlocks
  BY <1>2, ConnectBlocksCoins
<1>3. CASE SetBestChain
  BY <1>3, SetBestChainCoins
<1>4. CASE getnewaddress \/ setlabel
  BY <1>4, KeysCoins
<1>5. CASE ListNext \/ UNCHANGED <<historyVars, listVars>>
  <2>1. WalletSame
    BY <1>5 DEF ListNext, OnNotebookPageChanged, OnIdle, Fill, OnPaintListCtrl, RefreshStatusColumn,
                WalletSame, historyVars, chainVars
  <2>2. /\ KeysGrow /\ mapWallet' = mapWallet /\ mapAddressBook' = mapAddressBook
        /\ vtx' = vtx /\ chain' = chain /\ connecting' = connecting
    BY <2>1 DEF WalletSame, chainVars, KeysGrow
  <2> QED
    BY <2>2, CoinsSame DEF CoinsInv
<1> QED
  BY <1>1, <1>2, <1>3, <1>4, <1>5 DEF ListStep, HistoryNext

LEMMA AmountsAre ==
    ASSUME HistoryInv, CoinsInv
    PROVE  AmountsAgree
<1>1. Known /\ Labelling /\ IsChain(chain)
  BY DEF HistoryInv, WalletInv, BlocksInv, CoinsInv, Known, Labelling
<1>2. HistoryAddsUp
  BY <1>1, HistoryAgrees DEF HistoryAddsUp
<1> QED
  BY <1>1, <1>2, ListedAgrees, ReceivedAgrees, ShownAgrees DEF AmountsAgree

(* The amounts agree that balance, reports and window show, each by code   *)
(* of its own: CWalletTx::GetCredit and GetDebit summed over the wallet's  *)
(* transactions in the main chain are what listunspent lists, whatever the *)
(* transactions, their values, and the reorganizations they go through;    *)
(* what listtransactions lists of a transaction, and the lines the window  *)
(* has of it, are what gettransaction says it amounts to; and the amounts  *)
(* received by address and by label are of the same outputs.               *)
THEOREM AmountsShown == ListSpec => []AmountsAgree
<1>1. ListInit => ShownInv /\ CoinsInv
  BY ShownFirst, CoinsFirst
<1>2. ShownInv /\ CoinsInv /\ [ListStep]_<<historyVars, listVars>> => (ShownInv /\ CoinsInv)'
  BY ShownStep, CoinsStep DEF ShownInv
<1>3. ShownInv /\ CoinsInv => AmountsAgree
  BY AmountsAre DEF ShownInv
<1> QED
  BY <1>1, <1>2, <1>3, PTL DEF ListSpec
-----------------------------------------------------------------------------
(* The dialog of a payment to an IP address.  Until the worker forbids     *)
(* cancelling nothing is paid, whoever is told has cancelled in time, and  *)
(* only then the window says that it is done, which the worker finds once. *)
Step == {"do", "status", "abort", "cancelled", "test", "store", "allow", "finish"}

DialogTypeOK ==
    /\ fCanCancel \in BOOLEAN /\ fAbort \in BOOLEAN /\ fUIDone \in BOOLEAN /\ fWorkDone \in BOOLEAN
    /\ pressed \in BOOLEAN /\ told \in BOOLEAN /\ paid \in BOOLEAN /\ late \in BOOLEAN
    /\ work \in (DOMAIN Follows \cup {"decide", "end"}) \X Step
    /\ window \in {"shown", "close", "leave", "closed"}
    /\ destroyed \in Nat

Paying == work[1] \in {"send", "commit"} \/ Tested

WorkInv ==
    /\ fCanCancel => ~paid /\ work[1] \notin {"send", "commit"} /\ ~At("decide", "test")
    /\ At("decide", "allow") => fAbort
    /\ work[1] = "restored" => fCanCancel /\ fAbort
    /\ work[1] = "sent" => paid
    /\ work[1] \in Silent => work[2] = "do"
    /\ paid => work[1] \in {"sent", "reply3", "done", "error", "end"}
    /\ fAbort /\ ~late => ~Tested
    /\ told => fAbort
    /\ told /\ ~late => ~paid /\ ~Paying

WindowInv ==
    /\ fUIDone => told /\ window = "closed"
    /\ window \in {"close", "leave"} => told
    /\ ~late /\ destroyed # 0 => /\ destroyed = 1 /\ window = "closed"
                                 /\ fUIDone => work[1] = "end"

DialogInv == DialogTypeOK /\ WorkInv /\ WindowInv

LEMMA PartsOfWork == {"send", "restored", "error", "done", "reply3"} \subseteq DOMAIN Follows
  BY DEF Follows

LEMMA DialogStart == InitDialog => DialogInv
<1> USE DEF InitDialog
<1>1. InitDialog => DialogTypeOK
  <2>1. "begin" \in DOMAIN Follows /\ "do" \in Step
    BY DEF Follows, Step
  <2>2. InitDialog => work \in (DOMAIN Follows \cup {"decide", "end"}) \X Step /\ destroyed \in Nat
    BY <2>1
  <2>3. InitDialog => /\ fCanCancel \in BOOLEAN /\ fAbort \in BOOLEAN /\ fUIDone \in BOOLEAN
                      /\ fWorkDone \in BOOLEAN /\ pressed \in BOOLEAN /\ told \in BOOLEAN
                      /\ paid \in BOOLEAN /\ late \in BOOLEAN
    BY Zenon
  <2> QED
    BY <2>2, <2>3 DEF DialogTypeOK
<1>2. InitDialog => WorkInv
  BY DEF WorkInv, Paying, Tested, At, Silent
<1>3. InitDialog => WindowInv
  BY DEF WindowInv
<1> QED
  BY <1>1, <1>2, <1>3 DEF DialogInv

\* What the worker does.
LEMMA DialogDo == DialogInv /\ Do => DialogInv'
<1> SUFFICES ASSUME DialogInv, Do PROVE DialogInv'
  OBVIOUS
<1> USE DEF DialogInv
<1>1. PICK part \in DOMAIN Follows \ {"error", "done"} :
         /\ At(part, "do")
         /\ \/ part \notin Silent /\ work' = <<part, "status">>
            \/ part \in Silent /\ \E p \in Follows[part] : work' = <<p, "do">>
            \/ "error" \in Follows[part] /\ part \notin Silent /\ work' = <<"error", "do">>
  BY DEF Do
<1>2. UNCHANGED <<flags, ui, late, destroyed>> /\ paid' = (paid \/ work' = <<"sent", "do">>)
  BY DEF Do
<1>3. CASE part \notin Silent /\ work' = <<part, "status">>
  BY <1>1, <1>2, <1>3 DEF DialogTypeOK, WorkInv, WindowInv, Paying, Tested, At, Silent, Step, flags, ui
<1>4. CASE part \in Silent /\ \E p \in Follows[part] : work' = <<p, "do">>
  <2>1. PICK p \in Follows[part] : work' = <<p, "do">>
    BY <1>4
  <2>2. <<part, p>> \in {<<"request", "reply2">>, <<"reply2", "accepted">>, <<"commit", "sent">>,
                         <<"commit", "error">>, <<"reply3", "done">>, <<"reply3", "error">>}
    BY <1>4, <2>1 DEF Follows, Silent
  <2>3. p \in DOMAIN Follows /\ "do" \in Step
    BY <2>2 DEF Follows, Step
  <2>4. DialogTypeOK'
    BY <1>2, <2>1, <2>3 DEF DialogTypeOK, flags, ui
  <2>5. WorkInv'
    BY <1>1, <1>2, <2>1, <2>2 DEF DialogTypeOK, WorkInv, Paying, Tested, At, Silent, flags, ui
  <2>6. WindowInv'
    BY <1>1, <1>2, <2>1, <2>2 DEF DialogTypeOK, WorkInv, WindowInv, At, flags, ui
  <2> QED
    BY <2>4, <2>5, <2>6
<1>5. CASE "error" \in Follows[part] /\ part \notin Silent /\ work' = <<"error", "do">>
  BY <1>1, <1>2, <1>5 DEF DialogTypeOK, WorkInv, WindowInv, Paying, Tested, At, Silent, Step, flags, ui, Follows
<1> QED
  BY <1>1, <1>3, <1>4, <1>5

LEMMA DialogStatus == DialogInv /\ (StatusUIDone \/ StatusAbort \/ StatusCancelled) => DialogInv'
<1> SUFFICES ASSUME DialogInv, StatusUIDone \/ StatusAbort \/ StatusCancelled PROVE DialogInv'
  OBVIOUS
<1> USE DEF DialogInv
<1>1. CASE StatusUIDone
  <2>1. PICK part \in DOMAIN Follows :
           /\ At(part, "status")
           /\ \/ ~fUIDone /\ work' = <<part, "abort">> /\ UNCHANGED destroyed
              \/ /\ fUIDone /\ destroyed' = destroyed + 1
                 /\ work' = <<IF part = "sent" THEN "reply3" ELSE "end", "do">>
    BY <1>1 DEF StatusUIDone
  <2>2. UNCHANGED <<flags, ui, paid, late>>
    BY <1>1 DEF StatusUIDone
  <2> QED
    BY <2>1, <2>2 DEF DialogTypeOK, WorkInv, WindowInv, Paying, Tested, At, Silent, Step, flags, ui, Follows
<1>2. CASE StatusAbort
  <2>1. PICK part \in DOMAIN Follows :
           /\ At(part, "abort")
           /\ \/ fAbort /\ fCanCancel /\ work' = <<part, "cancelled">>
              \/ ~(fAbort /\ fCanCancel) /\ \E p \in Passed(part) : work' = <<p, "do">>
    BY <1>2 DEF StatusAbort
  <2>2. UNCHANGED <<flags, ui, paid, late, destroyed>>
    BY <1>2 DEF StatusAbort
  <2>3. CASE fAbort /\ fCanCancel /\ work' = <<part, "cancelled">>
    BY <2>1, <2>2, <2>3 DEF DialogTypeOK, WorkInv, WindowInv, Paying, Tested, At, Silent, Step, flags, ui
  <2>4. CASE ~(fAbort /\ fCanCancel) /\ \E p \in Passed(part) : work' = <<p, "do">>
    <3>1. PICK p \in Passed(part) : work' = <<p, "do">>
      BY <2>4
    <3>2. part \notin Silent
      BY <2>1 DEF WorkInv, At
    <3>3. /\ p \in DOMAIN Follows \cup {"decide", "end"} /\ p \notin {"restored", "sent"}
          /\ p = "send" => part = "restored"
          /\ p = "commit" => part = "send"
          /\ part \in {"sent", "error", "done"} => p \in {"reply3", "end"}
          /\ part \notin {"end", "reply3"}
      BY <2>1, <3>1, <3>2 DEF Passed, Follows, Silent
    <3>4. "do" \in Step /\ work[1] = part /\ work'[1] = p /\ work'[2] = "do"
      BY <2>1, <3>1 DEF Step, At
    <3>5. DialogTypeOK'
      BY <2>2, <3>1, <3>3, <3>4 DEF DialogTypeOK, flags, ui
    <3>6. WorkInv'
      BY <2>1, <2>2, <2>4, <3>1, <3>3, <3>4 DEF DialogTypeOK, WorkInv, Paying, Tested, At, Silent, flags, ui
    <3>7. WindowInv'
      BY <2>1, <2>2, <2>4, <3>1, <3>3, <3>4 DEF DialogTypeOK, WorkInv, WindowInv, At, flags, ui
    <3> QED
      BY <3>5, <3>6, <3>7
  <2> QED
    BY <2>1, <2>3, <2>4
<1>3. CASE StatusCancelled
  <2>1. PICK part \in DOMAIN Follows :
           At(part, "cancelled") /\ work' = <<IF part = "sent" THEN "reply3" ELSE "end", "do">>
    BY <1>3 DEF StatusCancelled
  <2>2. UNCHANGED <<fCanCancel, fAbort, fUIDone, ui, paid, late, destroyed>> /\ fWorkDone' = TRUE
    BY <1>3 DEF StatusCancelled
  <2> QED
    BY <2>1, <2>2 DEF DialogTypeOK, WorkInv, WindowInv, Paying, Tested, At, Silent, Step, ui, Follows
<1> QED
  BY <1>1, <1>2, <1>3

LEMMA DialogDecide == DialogInv /\ (Forbid \/ TestAbort \/ Allow) => DialogInv'
<1> SUFFICES ASSUME DialogInv, Forbid \/ TestAbort \/ Allow PROVE DialogInv'
  OBVIOUS
<1> USE DEF DialogInv, DialogTypeOK, WorkInv, WindowInv, Paying, Tested, At, Silent, Step, flags, ui
<1> USE PartsOfWork
<1>1. CASE Forbid
  <2>1. CASE At("decide", "do") /\ work' = <<"decide", "test">>
    BY <1>1, <2>1 DEF Forbid
  <2>2. CASE At("decide", "store") /\ work' = <<"send", "do">>
    BY <1>1, <2>2 DEF Forbid
  <2> QED
    BY <1>1, <2>1, <2>2 DEF Forbid
<1>2. CASE TestAbort
  BY <1>2 DEF TestAbort
<1>3. CASE Allow
  BY <1>3 DEF Allow
<1> QED
  BY <1>1, <1>2, <1>3

LEMMA DialogEnd == DialogInv /\ (Error \/ Finish) => DialogInv'
<1> SUFFICES ASSUME DialogInv, Error \/ Finish PROVE DialogInv'
  OBVIOUS
<1> USE DEF DialogInv, DialogTypeOK, WorkInv, WindowInv, Paying, Tested, At, Silent, Step, ui, Follows
<1>1. CASE Error
  BY <1>1 DEF Error
<1>2. CASE Finish
  BY <1>2 DEF Finish
<1> QED
  BY <1>1, <1>2

\* What the window does.
LEMMA DialogWindow == DialogInv /\ (OnButtonCancel \/ SetAbort \/ OnPaint \/ Close \/ OnClose) => DialogInv'
<1> SUFFICES ASSUME DialogInv, OnButtonCancel \/ SetAbort \/ OnPaint \/ Close \/ OnClose PROVE DialogInv'
  OBVIOUS
<1> USE DEF DialogInv, DialogTypeOK, WorkInv, WindowInv, Paying, Tested, At, Silent, Step, flags
<1>1. CASE OnButtonCancel
  BY <1>1 DEF OnButtonCancel
<1>2. CASE SetAbort
  BY <1>2, ZenonT(30) DEF SetAbort
<1>3. CASE OnPaint
  BY <1>3 DEF OnPaint
<1>4. CASE Close
  <2>1. CASE window = "close" /\ fWorkDone
    BY <1>4, <2>1 DEF Close
  <2>2. CASE window = "close" /\ ~fWorkDone
    BY <1>4, <2>2 DEF Close
  <2>3. CASE window = "leave"
    BY <1>4, <2>3 DEF Close
  <2> QED
    BY <1>4, <2>1, <2>2, <2>3 DEF Close
<1>5. CASE OnClose
  BY <1>5 DEF OnClose
<1> QED
  BY <1>1, <1>2, <1>3, <1>4, <1>5

\* The flags of the two threads fit together.
THEOREM DialogInvariant == DialogSpec => []DialogInv
<1>1. DialogInv /\ [DialogNext]_dialogVars => DialogInv'
  <2>1. DialogInv /\ UNCHANGED dialogVars => DialogInv'
    BY DEF dialogVars, flags, DialogInv, DialogTypeOK, WorkInv, WindowInv, Paying, Tested, At
  <2> QED
    BY <2>1, DialogDo, DialogStatus, DialogDecide, DialogEnd, DialogWindow DEF DialogNext, Work
<1> QED
  BY <1>1, DialogStart, PTL DEF DialogSpec

\* A user who is told that the transfer is cancelled has not paid, if fAbort was set before
\* the worker's last test of it or after it forbade cancelling (OnReply2, ui.cpp:2310-2322).
THEOREM CancelledPaysNothing == DialogSpec => []CancelledNotPaid
<1>1. DialogInv => CancelledNotPaid
  BY DEF DialogInv, WorkInv, CancelledNotPaid
<1> QED
  BY DialogInvariant, <1>1, PTL

\* Unless fAbort was set that late, the dialog is destroyed at most once, and by a worker
\* only when its window has gone (Close and Status, ui.cpp:2081-2185).
THEOREM LastOneOut == DialogSpec => []DestroyedOnce
<1>1. DialogInv => DestroyedOnce
  BY DEF DialogInv, DialogTypeOK, WindowInv, DestroyedOnce
<1> QED
  BY DialogInvariant, <1>1, PTL
=============================================================================
