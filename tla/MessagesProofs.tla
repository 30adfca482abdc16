---------------------------- MODULE MessagesProofs ----------------------------
(***************************************************************************)
(* A stream is a queue of bytes, whatever it does with its vector and its  *)
(* read position; and while no byte is damaged what ProcessMessages        *)
(* delivers is what was pushed, however the bytes are cut on their way.    *)
(***************************************************************************)
EXTENDS Messages, SequenceTheorems, TLAPS

Take(s, n) == SubSeq(s, 1, n)
Drop(s, n) == SubSeq(s, n + 1, Len(s))

\* To put pieces together in either order.
Assoc(s, t, u) == (s \o t) \o u = s \o (t \o u)

LEMMA AssocIs == ASSUME NEW S, NEW s \in Seq(S), NEW t \in Seq(S), NEW u \in Seq(S)
                 PROVE  Assoc(s, t, u)
  BY ConcatAssociative DEF Assoc

-----------------------------------------------------------------------------
(* The front and the rest of a sequence                                    *)

LEMMA Split ==
    ASSUME NEW S, NEW s \in Seq(S), NEW n \in Nat, n <= Len(s)
    PROVE  /\ Take(s, n) \in Seq(S) /\ Drop(s, n) \in Seq(S)
           /\ Len(Take(s, n)) = n /\ Len(Drop(s, n)) = Len(s) - n
           /\ s = Take(s, n) \o Drop(s, n)
<1>1. Len(s) \in Nat /\ \A i \in 1 .. Len(s) : s[i] \in S
  BY ElementOfSeq, LenProperties
<1>2. /\ SubSeq(s, 1, n) \in Seq(S)
      /\ Len(SubSeq(s, 1, n)) = IF 1 <= n THEN n - 1 + 1 ELSE 0
  BY <1>1, SubSeqProperties
<1>3. /\ SubSeq(s, n + 1, Len(s)) \in Seq(S)
      /\ Len(SubSeq(s, n + 1, Len(s))) = IF n + 1 <= Len(s) THEN Len(s) - (n + 1) + 1 ELSE 0
  BY <1>1, SubSeqProperties
<1>4. SubSeq(s, 1, n) \o SubSeq(s, n + 1, Len(s)) = s
  <2>1. 1 \in 1 .. Len(s) + 1 /\ n \in 1 - 1 .. Len(s) /\ Len(s) \in n .. Len(s)
    BY <1>1
  <2>2. SubSeq(s, 1, n) \o SubSeq(s, n + 1, Len(s)) = SubSeq(s, 1, Len(s))
    BY <2>1, ConcatAdjacentSubSeq
  <2> QED
    BY <2>2, SubSeqFull
<1>5. Len(SubSeq(s, 1, n)) = n /\ Len(SubSeq(s, n + 1, Len(s))) = Len(s) - n
  BY <1>1, <1>2, <1>3
<1> QED
  BY <1>2, <1>3, <1>4, <1>5 DEF Take, Drop

\* A sequence is split in one way only.
LEMMA SplitOnce ==
    ASSUME NEW S, NEW a \in Seq(S), NEW b \in Seq(S), NEW c \in Seq(S), NEW d \in Seq(S),
           a \o b = c \o d, Len(a) = Len(c)
    PROVE  a = c /\ b = d
<1>1. /\ Len(a) \in Nat /\ Len(b) \in Nat /\ Len(d) \in Nat
      /\ Len(a \o b) = Len(a) + Len(b) /\ Len(c \o d) = Len(c) + Len(d)
  BY LenProperties, ConcatProperties
<1>2. \A i \in 1 .. Len(a) + Len(b) : (a \o b)[i] = IF i <= Len(a) THEN a[i] ELSE b[i - Len(a)]
  BY ConcatProperties
<1>3. \A i \in 1 .. Len(c) + Len(d) : (c \o d)[i] = IF i <= Len(c) THEN c[i] ELSE d[i - Len(c)]
  BY ConcatProperties
<1>4. \A i \in 1 .. Len(a) : a[i] = c[i]
  BY <1>1, <1>2, <1>3
<1>5. a = c
  BY <1>4, SeqEqual
<1>6. b = d
  BY <1>5, ConcatSimplifications
<1> QED
  BY <1>5, <1>6

LEMMA Joined ==
    ASSUME NEW S, NEW a \in Seq(S), NEW b \in Seq(S)
    PROVE  /\ a \o b \in Seq(S) /\ Len(a \o b) = Len(a) + Len(b)
           /\ Len(a) \in Nat /\ Len(b) \in Nat
           /\ Take(a \o b, Len(a)) = a /\ Drop(a \o b, Len(a)) = b
<1>1. /\ a \o b \in Seq(S) /\ Len(a \o b) = Len(a) + Len(b)
      /\ Len(a) \in Nat /\ Len(b) \in Nat
  BY LenProperties, ConcatProperties
<1> DEFINE x == a \o b
<1>2. Len(a) <= Len(x)
  BY <1>1
<1>3. /\ Take(x, Len(a)) \in Seq(S) /\ Drop(x, Len(a)) \in Seq(S)
      /\ Len(Take(x, Len(a))) = Len(a)
      /\ x = Take(x, Len(a)) \o Drop(x, Len(a))
  <2> HIDE DEF x
  <2>1. x \in Seq(S)
    BY <1>1 DEF x
  <2> QED
    BY <1>1, <1>2, <2>1, Split, ZenonT(60)
<1>4. a = Take(x, Len(a)) /\ b = Drop(x, Len(a))
  BY <1>3, SplitOnce
<1> QED
  BY <1>1, <1>4

LEMMA DropJoined ==
    ASSUME NEW S, NEW a \in Seq(S), NEW b \in Seq(S), NEW n \in Nat, n <= Len(a)
    PROVE  Drop(a \o b, n) = Drop(a, n) \o b /\ Take(a \o b, n) = Take(a, n)
<1> DEFINE t == Take(a, n)
           d == Drop(a, n)
<1>1. t \in Seq(S) /\ d \in Seq(S) /\ Len(t) = n /\ a = t \o d
  BY Split
<1> HIDE DEF t, d
<1>2. a \o b = t \o (d \o b) /\ d \o b \in Seq(S)
  <2>1. Assoc(t, d, b)
    BY <1>1, AssocIs
  <2>2. d \o b \in Seq(S)
    BY <1>1, ConcatProperties
  <2> QED
    BY <1>1, <2>1, <2>2 DEF Assoc
<1>3. Take(t \o (d \o b), Len(t)) = t /\ Drop(t \o (d \o b), Len(t)) = d \o b
  <2> DEFINE y == d \o b
  <2>1. y \in Seq(S)
    BY <1>2
  <2> HIDE DEF y
  <2>2. Take(t \o y, Len(t)) = t /\ Drop(t \o y, Len(t)) = y
    BY <1>1, <2>1, Joined
  <2> QED
    BY <2>2 DEF y
<1> QED
  BY <1>1, <1>2, <1>3 DEF t, d

LEMMA DropTwice ==
    ASSUME NEW S, NEW s \in Seq(S), NEW m \in Nat, NEW n \in Nat, m + n <= Len(s)
    PROVE  Drop(s, m + n) = Drop(Drop(s, m), n)
<1> DEFINE t == Take(s, m)
           d == Drop(s, m)
           u == Take(d, n)
           e == Drop(d, n)
<1>0. Len(s) \in Nat /\ m <= Len(s) /\ n <= Len(s) - m
  BY LenProperties
<1>1. t \in Seq(S) /\ d \in Seq(S) /\ Len(t) = m /\ Len(d) = Len(s) - m /\ s = t \o d
  BY <1>0, Split, ZenonT(60)
<1> HIDE DEF t, d
<1>2. u \in Seq(S) /\ e \in Seq(S) /\ Len(u) = n /\ d = u \o e
  <2>1. d \in Seq(S) /\ n <= Len(d)
    BY <1>0, <1>1
  <2> QED
    BY <2>1, Split
<1> HIDE DEF u, e
<1>3. /\ s = (t \o u) \o e /\ t \o u \in Seq(S)
      /\ Len(t \o u) = m + n
  <2>1. t \o u \in Seq(S) /\ Len(t \o u) = Len(t) + Len(u)
    BY <1>1, <1>2, ConcatProperties
  <2>2. (t \o u) \o e = t \o (u \o e)
    <3>1. Assoc(t, u, e)
      BY <1>1, <1>2, AssocIs
    <3> QED
      BY <3>1 DEF Assoc
  <2> QED
    BY <1>1, <1>2, <2>1, <2>2
<1>4. Drop((t \o u) \o e, Len(t \o u)) = e
  BY <1>2, <1>3, Joined
<1> QED
  BY <1>3, <1>4 DEF d, e

LEMMA TakeTwice ==
    ASSUME NEW S, NEW s \in Seq(S), NEW m \in Nat, NEW n \in Nat, m + n <= Len(s)
    PROVE  Take(s, m + n) = Take(s, m) \o Take(Drop(s, m), n)
<1> DEFINE t == Take(s, m)
           d == Drop(s, m)
           u == Take(d, n)
           e == Drop(d, n)
<1>0. Len(s) \in Nat /\ m <= Len(s) /\ n <= Len(s) - m
  BY LenProperties
<1>1. t \in Seq(S) /\ d \in Seq(S) /\ Len(t) = m /\ Len(d) = Len(s) - m /\ s = t \o d
  BY <1>0, Split, ZenonT(60)
<1> HIDE DEF t, d
<1>2. u \in Seq(S) /\ e \in Seq(S) /\ Len(u) = n /\ d = u \o e
  <2>1. d \in Seq(S) /\ n <= Len(d)
    BY <1>0, <1>1
  <2> QED
    BY <2>1, Split
<1> HIDE DEF u, e
<1>3. /\ s = (t \o u) \o e /\ t \o u \in Seq(S)
      /\ Len(t \o u) = m + n
  <2>1. t \o u \in Seq(S) /\ Len(t \o u) = Len(t) + Len(u)
    BY <1>1, <1>2, ConcatProperties
  <2>2. (t \o u) \o e = t \o (u \o e)
    <3>1. Assoc(t, u, e)
      BY <1>1, <1>2, AssocIs
    <3> QED
      BY <3>1 DEF Assoc
  <2> QED
    BY <1>1, <1>2, <2>1, <2>2
<1>4. Take((t \o u) \o e, Len(t \o u)) = t \o u
  BY <1>2, <1>3, Joined
<1> QED
  BY <1>3, <1>4 DEF t, d, u

\* One element replaced.
Unit(x) == <<x>>

LEMMA Replace ==
    ASSUME NEW S, NEW a \in Seq(S), NEW b \in Seq(S), NEW x \in S, NEW y \in S
    PROVE  [(a \o (Unit(x) \o b)) EXCEPT ![Len(a) + 1] = y] = a \o (Unit(y) \o b)
<1> DEFINE l == Len(a)
           v == a \o (<<x>> \o b)
           w == a \o (<<y>> \o b)
           r == [v EXCEPT ![l + 1] = y]
<1>1. l \in Nat /\ Len(b) \in Nat
  BY LenProperties
<1>2. ASSUME NEW z \in S
      PROVE  /\ a \o (<<z>> \o b) \in Seq(S) /\ Len(a \o (<<z>> \o b)) = l + 1 + Len(b)
             /\ \A i \in 1 .. l + 1 + Len(b) :
                   (a \o (<<z>> \o b))[i] = IF i <= l THEN a[i]
                                            ELSE IF i = l + 1 THEN z ELSE b[i - l - 1]
  <2> DEFINE c == <<z>> \o b
  <2>1. <<z>> \in Seq(S) /\ Len(<<z>>) = 1 /\ <<z>>[1] = z
    OBVIOUS
  <2>2. /\ c \in Seq(S) /\ Len(c) = 1 + Len(b)
        /\ \A i \in 1 .. 1 + Len(b) : c[i] = IF i <= 1 THEN <<z>>[i] ELSE b[i - 1]
    BY <2>1, ConcatProperties
  <2> HIDE DEF c
  <2>3. /\ a \o c \in Seq(S) /\ Len(a \o c) = l + Len(c)
        /\ \A i \in 1 .. l + Len(c) : (a \o c)[i] = IF i <= l THEN a[i] ELSE c[i - l]
    BY <2>2, ConcatProperties
  <2>4. ASSUME NEW i \in 1 .. l + 1 + Len(b)
        PROVE  (a \o c)[i] = IF i <= l THEN a[i] ELSE IF i = l + 1 THEN z ELSE b[i - l - 1]
    <3> HIDE DEF l
    <3>1. (a \o c)[i] = IF i <= l THEN a[i] ELSE c[i - l]
      BY <1>1, <2>2, <2>3
    <3>2. CASE i <= l
      BY <3>1, <3>2
    <3>3. CASE i = l + 1
      <4>1. i - l = 1 /\ 1 \in 1 .. 1 + Len(b)
        BY <1>1, <3>3
      <4> QED
        BY <1>1, <2>1, <2>2, <3>1, <3>3, <4>1
    <3>4. CASE ~(i <= l) /\ i # l + 1
      <4>1. i - l \in 1 .. 1 + Len(b) /\ ~(i - l <= 1)
        BY <1>1, <3>4
      <4> QED
        BY <2>2, <3>1, <3>4, <4>1
    <3> QED
      BY <1>1, <3>2, <3>3, <3>4
  <2> HIDE DEF l
  <2>5. a \o c \in Seq(S) /\ Len(a \o c) = l + 1 + Len(b)
    BY <1>1, <2>2, <2>3
  <2> QED
    BY <2>4, <2>5 DEF c
<1>3. /\ v \in Seq(S) /\ Len(v) = l + 1 + Len(b)
      /\ \A i \in 1 .. l + 1 + Len(b) :
            v[i] = IF i <= l THEN a[i] ELSE IF i = l + 1 THEN x ELSE b[i - l - 1]
  BY <1>2
<1>4. /\ w \in Seq(S) /\ Len(w) = l + 1 + Len(b)
      /\ \A i \in 1 .. l + 1 + Len(b) :
            w[i] = IF i <= l THEN a[i] ELSE IF i = l + 1 THEN y ELSE b[i - l - 1]
  BY <1>2
<1> HIDE DEF l, v, w
<1>5. l + 1 \in 1 .. Len(v)
  BY <1>1, <1>3
<1>6. /\ r \in Seq(S) /\ Len(r) = Len(v)
      /\ \A i \in 1 .. Len(v) : r[i] = IF i = l + 1 THEN y ELSE v[i]
  BY <1>3, <1>5, ExceptSeq
<1> HIDE DEF r
<1>7. ASSUME NEW i \in 1 .. Len(r) PROVE r[i] = w[i]
  <2>1. /\ i \in 1 .. l + 1 + Len(b) /\ r[i] = IF i = l + 1 THEN y ELSE v[i]
        /\ i = l + 1 => ~(i <= l)
    BY <1>1, <1>3, <1>5, <1>6
  <2>2. CASE i = l + 1
    BY <1>4, <2>1, <2>2
  <2>3. CASE i # l + 1
    BY <1>3, <1>4, <2>1, <2>3
  <2> QED
    BY <2>2, <2>3
<1>8. r = w
  BY <1>3, <1>4, <1>6, <1>7, SeqEqual
<1> QED
  BY <1>8 DEF r, v, w, l, Unit

-----------------------------------------------------------------------------
(* The operations of CDataStream on what has not been read.                *)

\* A stream over a set of bytes; one that has been read to its end is empty.
StreamOf(S) == {s \in [vch : Seq(S), nReadPos : Nat] :
                   /\ s.nReadPos <= Len(s.vch)
                   /\ s.vch # <<>> => s.nReadPos < Len(s.vch)}

\* A stream is a vector and a position in it.
LEMMA StreamIs ==
    ASSUME NEW S, NEW s \in StreamOf(S)
    PROVE  /\ s = [vch |-> s.vch, nReadPos |-> s.nReadPos]
           /\ s.vch \in Seq(S) /\ s.nReadPos \in Nat /\ Len(s.vch) \in Nat
           /\ s.nReadPos <= Len(s.vch) /\ (s.nReadPos < Len(s.vch) \/ s.nReadPos = 0)
           /\ Unread(s) = Drop(s.vch, s.nReadPos)
<1>1. s \in [vch : Seq(S), nReadPos : Nat]
  BY DEF StreamOf
<1>2. s.vch = <<>> => Len(s.vch) = 0
  BY EmptySeq
<1>3. Len(s.vch) \in Nat
  BY <1>1, LenProperties
<1> QED
  BY <1>1, <1>2, <1>3 DEF StreamOf, Unread, Drop

\* Its bytes are those behind the position.
LEMMA UnreadIs ==
    ASSUME NEW S, NEW s \in StreamOf(S)
    PROVE  /\ Unread(s) \in Seq(S) /\ size(s) = Len(Unread(s)) /\ size(s) \in Nat
           /\ size(s) = Len(s.vch) - s.nReadPos
           /\ Take(s.vch, s.nReadPos) \in Seq(S) /\ Len(Take(s.vch, s.nReadPos)) = s.nReadPos
           /\ s.vch = Take(s.vch, s.nReadPos) \o Unread(s)
<1> DEFINE v == s.vch
           n == s.nReadPos
<1>1. v \in Seq(S) /\ n \in Nat /\ Len(v) \in Nat /\ n <= Len(v) /\ Unread(s) = Drop(v, n)
  BY StreamIs
<1>2. size(s) = Len(v) - n
  BY DEF size
<1> HIDE DEF v, n
<1>3. /\ Take(v, n) \in Seq(S) /\ Drop(v, n) \in Seq(S)
      /\ Len(Take(v, n)) = n /\ Len(Drop(v, n)) = Len(v) - n
      /\ v = Take(v, n) \o Drop(v, n)
  BY <1>1, Split
<1> QED
  BY <1>1, <1>2, <1>3 DEF v, n

\* To change a field is to make another pair.
LEMMA Fields ==
    ASSUME NEW S, NEW s \in StreamOf(S), NEW x
    PROVE  /\ [s EXCEPT !.vch = x] = [vch |-> x, nReadPos |-> s.nReadPos]
           /\ [s EXCEPT !.nReadPos = x] = [vch |-> s.vch, nReadPos |-> x]
<1>1. s \in [vch : Seq(S), nReadPos : Nat]
  BY DEF StreamOf
<1> QED
  BY <1>1

\* A vector and a position in it are a stream.
LEMMA IsStream ==
    ASSUME NEW S, NEW v \in Seq(S), NEW n \in Nat, n < Len(v) \/ n = 0
    PROVE  /\ [vch |-> v, nReadPos |-> n] \in StreamOf(S)
           /\ Unread([vch |-> v, nReadPos |-> n]) = Drop(v, n)
<1>1. Len(v) \in Nat /\ (v # <<>> => Len(v) > 0)
  BY EmptySeq, LenProperties
<1> QED
  BY <1>1 DEF StreamOf, Unread, Drop

\* Nothing dropped, all dropped.
LEMMA DropNone == ASSUME NEW S, NEW s \in Seq(S)
                  PROVE  Drop(s, 0) = s /\ Drop(s, Len(s)) = <<>> /\ Take(s, Len(s)) = s /\ Take(s, 0) = <<>>
<1>1. Len(s) \in Nat
  BY LenProperties
<1>2. SubSeq(s, 1, Len(s)) = s
  BY SubSeqFull
<1>3. SubSeq(s, Len(s) + 1, Len(s)) = <<>> /\ SubSeq(s, 1, 0) = <<>>
  BY <1>1, SubSeqEmpty
<1> QED
  BY <1>2, <1>3 DEF Take, Drop

LEMMA EmptyIs ==
    ASSUME NEW S PROVE Empty \in StreamOf(S) /\ Unread(Empty) = <<>> /\ size(Empty) = 0
  BY EmptySeq DEF Empty, StreamOf, Unread, size

\* write puts bytes behind.
LEMMA WriteIs ==
    ASSUME NEW S, NEW s \in StreamOf(S), NEW bytes \in Seq(S)
    PROVE  write(s, bytes) \in StreamOf(S) /\ Unread(write(s, bytes)) = Unread(s) \o bytes
<1> DEFINE v == s.vch
           n == s.nReadPos
<1>1. /\ s = [vch |-> v, nReadPos |-> n]
      /\ v \in Seq(S) /\ n \in Nat /\ Len(v) \in Nat
      /\ n <= Len(v) /\ (n < Len(v) \/ n = 0) /\ Unread(s) = Drop(v, n)
  BY StreamIs
<1>2. write(s, bytes) = [vch |-> v \o bytes, nReadPos |-> n]
  BY <1>1, Fields DEF write
<1> HIDE DEF v, n
<1>3. v \o bytes \in Seq(S) /\ (n < Len(v \o bytes) \/ n = 0)
  <2>1. v \o bytes \in Seq(S) /\ Len(v \o bytes) = Len(v) + Len(bytes) /\ Len(bytes) \in Nat
    BY <1>1, ConcatProperties, LenProperties
  <2> QED
    BY <1>1, <2>1
<1>4. Drop(v \o bytes, n) = Drop(v, n) \o bytes
  BY <1>1, DropJoined
<1> QED
  BY <1>1, <1>2, <1>3, <1>4, IsStream

\* erase, ignore and read take bytes from the front.
LEMMA IgnoreIs ==
    ASSUME NEW S, NEW s \in StreamOf(S), NEW k \in Nat, k <= size(s)
    PROVE  /\ erase(s, k) \in StreamOf(S) /\ Unread(erase(s, k)) = Drop(Unread(s), k)
           /\ ignore(s, k) = erase(s, k)
<1> DEFINE v == s.vch
           n == s.nReadPos
<1>1. /\ v \in Seq(S) /\ n \in Nat /\ Len(v) \in Nat
      /\ n <= Len(v) /\ (n < Len(v) \/ n = 0) /\ Unread(s) = Drop(v, n)
      /\ size(s) = Len(v) - n
  BY StreamIs, UnreadIs
<1>2. /\ erase(s, k) = IF n + k = Len(v) THEN Empty ELSE [vch |-> v, nReadPos |-> n + k]
      /\ ignore(s, k) = IF n + k >= Len(v) THEN Empty ELSE [vch |-> v, nReadPos |-> n + k]
  BY Fields DEF erase, ignore
<1> HIDE DEF v, n
<1>3. n + k \in Nat /\ n + k <= Len(v)
  BY <1>1
<1>4. Drop(v, n + k) = Drop(Drop(v, n), k)
  BY <1>1, <1>3, DropTwice
<1>5. CASE n + k = Len(v)
  <2>1. Drop(v, n + k) = <<>>
    BY <1>1, <1>5, DropNone
  <2> QED
    BY <1>1, <1>2, <1>4, <1>5, <2>1, EmptyIs
<1>6. CASE n + k # Len(v)
  <2>1. n + k < Len(v) /\ ~(n + k >= Len(v))
    BY <1>1, <1>3, <1>6
  <2>2. /\ [vch |-> v, nReadPos |-> n + k] \in StreamOf(S)
        /\ Unread([vch |-> v, nReadPos |-> n + k]) = Drop(v, n + k)
    BY <1>1, <1>3, <2>1, IsStream
  <2> QED
    BY <1>1, <1>2, <1>4, <1>6, <2>1, <2>2
<1> QED
  BY <1>5, <1>6

\* insert puts bytes in front.
LEMMA InsertIs ==
    ASSUME NEW S, NEW s \in StreamOf(S), NEW bytes \in Seq(S), Unread(s) # <<>> \/ bytes # <<>>
    PROVE  insert(s, bytes) \in StreamOf(S) /\ Unread(insert(s, bytes)) = bytes \o Unread(s)
<1> DEFINE v == s.vch
           n == s.nReadPos
           u == Unread(s)
           l == Len(bytes)
<1>1. /\ v \in Seq(S) /\ n \in Nat /\ Len(v) \in Nat /\ n <= Len(v)
      /\ u \in Seq(S) /\ Take(v, n) \in Seq(S) /\ Len(Take(v, n)) = n
  BY StreamIs, UnreadIs
<1>2. insert(s, bytes) =
        IF l <= n THEN [vch |-> Take(v, n - l) \o bytes \o u, nReadPos |-> n - l]
        ELSE [vch |-> Take(v, n) \o bytes \o u, nReadPos |-> n]
  BY Fields, ZenonT(60) DEF insert, Take
<1> HIDE DEF v, n, u
<1>3. l \in Nat /\ bytes \o u \in Seq(S) /\ Len(bytes \o u) = l + Len(u) /\ Len(u) \in Nat
  BY <1>1, ConcatProperties, LenProperties
<1>4. Len(bytes \o u) > 0
  BY <1>1, <1>3, EmptySeq DEF u
<1>5. ASSUME NEW t \in Seq(S)
      PROVE  /\ [vch |-> t \o bytes \o u, nReadPos |-> Len(t)] \in StreamOf(S)
             /\ Unread([vch |-> t \o bytes \o u, nReadPos |-> Len(t)]) = bytes \o u
  <2>0. u \in Seq(S)
    BY <1>1
  <2>1. (t \o bytes) \o u = t \o (bytes \o u)
    <3>1. Assoc(t, bytes, u)
      BY <2>0, AssocIs
    <3> QED
      BY <3>1 DEF Assoc
  <2>2. /\ t \o (bytes \o u) \in Seq(S) /\ Len(t) \in Nat
        /\ Len(t \o (bytes \o u)) = Len(t) + Len(bytes \o u)
        /\ Drop(t \o (bytes \o u), Len(t)) = bytes \o u
    BY <1>3, Joined, ZenonT(60)
  <2>3. Len(t) < Len(t \o (bytes \o u))
    BY <1>3, <1>4, <2>2
  <2> QED
    BY <2>1, <2>2, <2>3, IsStream
<1>6. CASE l <= n
  <2>1. n - l \in Nat /\ n - l <= Len(v)
    BY <1>1, <1>3, <1>6
  <2>2. Take(v, n - l) \in Seq(S) /\ Len(Take(v, n - l)) = n - l
    BY <1>1, <2>1, Split
  <2> QED
    BY <1>2, <1>5, <1>6, <2>2 DEF u
<1>7. CASE ~(l <= n)
  BY <1>1, <1>2, <1>5, <1>7 DEF u
<1> QED
  BY <1>6, <1>7

LEMMA CompactIs ==
    ASSUME NEW S, NEW s \in StreamOf(S)
    PROVE  Compact(s) \in StreamOf(S) /\ Unread(Compact(s)) = Unread(s)
<1>1. Unread(s) \in Seq(S)
  BY UnreadIs
<1>2. Drop(Unread(s), 0) = Unread(s)
  BY <1>1, DropNone
<1> QED
  BY <1>1, <1>2, IsStream DEF Compact

\* truncate keeps bytes at the front.
LEMMA TruncateIs ==
    ASSUME NEW S, NEW s \in StreamOf(S), NEW k \in Nat, k <= size(s), k > 0 \/ s.nReadPos = 0
    PROVE  truncate(s, k) \in StreamOf(S) /\ Unread(truncate(s, k)) = Take(Unread(s), k)
<1> DEFINE v == s.vch
           n == s.nReadPos
<1>1. /\ v \in Seq(S) /\ n \in Nat /\ Len(v) \in Nat
      /\ n <= Len(v) /\ Unread(s) = Drop(v, n) /\ size(s) = Len(v) - n
      /\ Take(v, n) \in Seq(S) /\ Len(Take(v, n)) = n
  BY StreamIs, UnreadIs
<1>2. truncate(s, k) = [vch |-> Take(v, k + n), nReadPos |-> n]
  BY Fields DEF truncate, Take
<1>3. k > 0 \/ n = 0
  OBVIOUS
<1> HIDE DEF v, n
<1>4. n + k \in Nat /\ n + k = k + n /\ n + k <= Len(v) /\ k <= Len(v) - n
  BY <1>1
<1>5. Take(v, n + k) = Take(v, n) \o Take(Drop(v, n), k)
  BY <1>1, <1>4, TakeTwice
<1>6. Drop(v, n) \in Seq(S) /\ Len(Drop(v, n)) = Len(v) - n
  BY <1>1, Split
<1>7. Take(Drop(v, n), k) \in Seq(S) /\ Len(Take(Drop(v, n), k)) = k
  BY <1>4, <1>6, Split
<1>8. /\ Take(v, n + k) \in Seq(S) /\ Len(Take(v, n + k)) = n + k
      /\ Drop(Take(v, n + k), n) = Take(Drop(v, n), k)
  <2> DEFINE a == Take(v, n)
             b == Take(Drop(v, n), k)
  <2>1. a \in Seq(S) /\ Len(a) = n /\ b \in Seq(S) /\ Len(b) = k /\ Take(v, n + k) = a \o b
    BY <1>1, <1>5, <1>7
  <2> HIDE DEF a, b
  <2>2. a \o b \in Seq(S) /\ Len(a \o b) = Len(a) + Len(b) /\ Drop(a \o b, Len(a)) = b
    BY <2>1, Joined
  <2> QED
    BY <2>1, <2>2 DEF b
<1>9. n < Len(Take(v, n + k)) \/ n = 0
  BY <1>1, <1>3, <1>8
<1> QED
  BY <1>1, <1>2, <1>4, <1>8, <1>9, IsStream

\* put changes one byte.
Holds(S, s, a, x, b) == /\ s \in StreamOf(S) /\ a \in Seq(S) /\ x \in S /\ b \in Seq(S)
                        /\ Unread(s) = a \o (Unit(x) \o b)

LEMMA PutIs ==
    ASSUME NEW S, NEW s, NEW a, NEW x, NEW b, Holds(S, s, a, x, b), NEW y \in S
    PROVE  Holds(S, put(s, Len(a), y), a, y, b)
<1>0. /\ s \in StreamOf(S) /\ a \in Seq(S) /\ x \in S /\ b \in Seq(S)
      /\ Unread(s) = a \o (Unit(x) \o b)
  BY DEF Holds
<1> DEFINE v == s.vch
           n == s.nReadPos
           t == Take(v, n)
<1>1. /\ v \in Seq(S) /\ n \in Nat /\ (n < Len(v) \/ n = 0)
      /\ t \in Seq(S) /\ Len(t) = n /\ v = t \o Unread(s)
  BY <1>0, StreamIs, UnreadIs
<1>2. put(s, Len(a), y) = [vch |-> [v EXCEPT ![n + Len(a) + 1] = y], nReadPos |-> n]
  <2>1. put(s, Len(a), y) = [s EXCEPT !.vch = [v EXCEPT ![n + Len(a) + 1] = y]]
    BY DEF put
  <2> QED
    BY <1>0, <2>1, Fields
<1> HIDE DEF v, n, t
<1>3. /\ Unit(x) \in Seq(S) /\ Unit(y) \in Seq(S)
      /\ Unit(x) \o b \in Seq(S) /\ Unit(y) \o b \in Seq(S)
      /\ t \o a \in Seq(S) /\ Len(t \o a) = n + Len(a) /\ Len(a) \in Nat
  <2>1. Unit(x) \in Seq(S) /\ Unit(y) \in Seq(S) /\ Len(Unit(y)) = 1
    BY <1>0 DEF Unit
  <2>2. Unit(x) \o b \in Seq(S) /\ Unit(y) \o b \in Seq(S)
    BY <1>0, <2>1, ConcatProperties
  <2>3. t \in Seq(S) /\ Len(t) = n
    BY <1>1
  <2>4. t \o a \in Seq(S) /\ Len(t \o a) = Len(t) + Len(a) /\ Len(a) \in Nat
    BY <1>0, <2>3, ConcatProperties, LenProperties
  <2> QED
    BY <2>1, <2>2, <2>3, <2>4
<1> DEFINE c == Unit(x) \o b
           w == Unit(y) \o b
<1>4. v = (t \o a) \o c
  <2>1. v = t \o (a \o c)
    BY <1>0, <1>1
  <2>2. t \in Seq(S) /\ c \in Seq(S) /\ a \in Seq(S)
    BY <1>0, <1>1, <1>3
  <2> HIDE DEF c
  <2>3. (t \o a) \o c = t \o (a \o c)
    <3>1. Assoc(t, a, c)
      BY <2>2, AssocIs
    <3> QED
      BY <3>1 DEF Assoc
  <2> QED
    BY <2>1, <2>3
<1>5. [v EXCEPT ![n + Len(a) + 1] = y] = (t \o a) \o w
  <2> DEFINE d == t \o a
  <2>1. d \in Seq(S) /\ Len(d) = n + Len(a)
    BY <1>3
  <2>2. v = d \o (Unit(x) \o b)
    BY <1>4
  <2> HIDE DEF d
  <2>3. [(d \o (Unit(x) \o b)) EXCEPT ![Len(d) + 1] = y] = d \o (Unit(y) \o b)
    BY <1>0, <2>1, Replace
  <2> QED
    BY <2>1, <2>2, <2>3 DEF d
<1>6. (t \o a) \o w = t \o (a \o w)
  <2>1. t \in Seq(S) /\ w \in Seq(S) /\ a \in Seq(S)
    BY <1>0, <1>1, <1>3
  <2> HIDE DEF w
  <2>9. Assoc(t, a, w)
    BY <2>1, AssocIs
  <2> QED
    BY <2>9 DEF Assoc
<1>7. a \o w \in Seq(S) /\ Len(a \o w) \in Nat /\ Len(a \o w) > 0
  <2>1. Len(w) = 1 + Len(b) /\ Len(b) \in Nat /\ w \in Seq(S)
    <3>1. Unit(y) \in Seq(S) /\ Len(Unit(y)) = 1
      BY DEF Unit
    <3> QED
      BY <1>0, <3>1, ConcatProperties, LenProperties, ZenonT(60)
  <2> HIDE DEF w
  <2>2. a \o w \in Seq(S) /\ Len(a \o w) = Len(a) + Len(w)
    BY <1>0, <2>1, ConcatProperties
  <2> QED
    BY <1>3, <2>1, <2>2
<1> DEFINE e == a \o w
<1> HIDE DEF w, e
<1>8. /\ t \o e \in Seq(S) /\ Len(t \o e) = n + Len(e) /\ Drop(t \o e, n) = e
  <2>1. t \in Seq(S) /\ Len(t) = n /\ e \in Seq(S)
    BY <1>1, <1>7 DEF e
  <2> QED
    BY <2>1, Joined
<1>9. n < Len(t \o e)
  BY <1>1, <1>7, <1>8 DEF e
<1>10. put(s, Len(a), y) = [vch |-> t \o e, nReadPos |-> n]
  BY <1>2, <1>5, <1>6 DEF e
<1>11. /\ [vch |-> t \o e, nReadPos |-> n] \in StreamOf(S)
       /\ Unread([vch |-> t \o e, nReadPos |-> n]) = Drop(t \o e, n)
  BY <1>1, <1>8, <1>9, IsStream
<1> QED
  BY <1>0, <1>8, <1>10, <1>11 DEF e, w, Holds

-----------------------------------------------------------------------------
(* The bytes of messages, one behind the other                             *)

\* What may be in a stream, and what may be a message.
Byte == Nat \cup {Checksum(data) : data \in Seq(Nat)}
Message == {m \in Seq(Nat) : Len(m) <= TooLarge}

HeaderOf(m) == <<Start1, Start2, Command, Len(m), Checksum(m)>>
Frame(m) == HeaderOf(m) \o m

\* Bytes and the messages they are: the least relation that has nothing for none, and
\* one frame more for one message more.
Framing == {P \in SUBSET (Seq(Byte) \X Seq(Message)) :
               /\ <<<<>>, <<>>>> \in P
               /\ \A p \in P, m \in Message : <<p[1] \o Frame(m), p[2] \o Unit(m)>> \in P}
Frames(bytes, ms) == /\ bytes \in Seq(Byte) /\ ms \in Seq(Message)
                     /\ \A P \in Framing : <<bytes, ms>> \in P

LEMMA MessageIs ==
    ASSUME NEW m \in Message
    PROVE  /\ m \in Seq(Byte) /\ HeaderOf(m) \in Seq(Byte) /\ Frame(m) \in Seq(Byte)
           /\ Len(m) \in Nat /\ Len(m) <= TooLarge /\ Len(HeaderOf(m)) = HeaderSize
           /\ Unit(m) \in Seq(Message) /\ Len(Unit(m)) = 1
<1>1. m \in Seq(Nat) /\ Len(m) \in Nat /\ Len(m) <= TooLarge
  BY LenProperties DEF Message
<1>2. m \in Seq(Byte)
  BY <1>1, SeqMonotonic DEF Byte
<1>3. Checksum(m) \in Byte /\ Len(m) \in Byte /\ 8 \in Byte /\ 9 \in Byte /\ 1 \in Byte
  BY <1>1 DEF Byte
<1>4. HeaderOf(m) \in Seq(Byte) /\ Len(HeaderOf(m)) = HeaderSize
  BY <1>3 DEF HeaderOf, HeaderSize, Start1, Start2, Command
<1>5. Frame(m) \in Seq(Byte)
  BY <1>2, <1>4, ConcatProperties DEF Frame
<1>6. Unit(m) \in Seq(Message) /\ Len(Unit(m)) = 1
  BY DEF Unit
<1> QED
  BY <1>1, <1>2, <1>4, <1>5, <1>6

LEMMA NoFrames == Frames(<<>>, <<>>)
  BY EmptySeq DEF Frames, Framing

LEMMA OneMore ==
    ASSUME NEW bytes, NEW ms, Frames(bytes, ms), NEW m \in Message
    PROVE  Frames(bytes \o Frame(m), ms \o Unit(m))
<1>1. bytes \in Seq(Byte) /\ ms \in Seq(Message)
  BY DEF Frames
<1>2. bytes \o Frame(m) \in Seq(Byte) /\ ms \o Unit(m) \in Seq(Message)
  BY <1>1, MessageIs, ConcatProperties
<1>3. ASSUME NEW P \in Framing PROVE <<bytes \o Frame(m), ms \o Unit(m)>> \in P
  <2>1. <<bytes, ms>> \in P
    BY <1>3 DEF Frames
  <2> QED
    BY <1>3, <2>1 DEF Framing
<1> QED
  BY <1>2, <1>3 DEF Frames

\* The first message, if there is one, and what follows it.
First(bytes, ms) ==
    \E m \in Message, tail \in Seq(Message), rest \in Seq(Byte) :
        ms = Unit(m) \o tail /\ bytes = Frame(m) \o rest /\ Frames(rest, tail)

LEMMA FirstOf ==
    ASSUME NEW bytes, NEW ms, Frames(bytes, ms)
    PROVE  (bytes = <<>> /\ ms = <<>>) \/ First(bytes, ms)
<1> DEFINE P == {p \in Seq(Byte) \X Seq(Message) :
                    Frames(p[1], p[2]) /\ ((p[1] = <<>> /\ p[2] = <<>>) \/ First(p[1], p[2]))}
<1>1. <<<<>>, <<>>>> \in P
  BY NoFrames, EmptySeq
<1>2. ASSUME NEW p \in P, NEW m \in Message
      PROVE  <<p[1] \o Frame(m), p[2] \o Unit(m)>> \in P
  <2> DEFINE b == p[1]
             s == p[2]
  <2>1. b \in Seq(Byte) /\ s \in Seq(Message) /\ Frames(b, s)
        /\ ((b = <<>> /\ s = <<>>) \/ First(b, s))
    OBVIOUS
  <2> HIDE DEF b, s, P
  <2>2. Frames(b \o Frame(m), s \o Unit(m))
    BY <2>1, OneMore
  <2>3. ASSUME b = <<>>, s = <<>> PROVE First(b \o Frame(m), s \o Unit(m))
    <3>1. /\ b \o Frame(m) = Frame(m) \o <<>> /\ s \o Unit(m) = Unit(m) \o <<>>
      BY <2>3, MessageIs, ConcatEmptySeq
    <3>2. Frames(<<>>, <<>>) /\ <<>> \in Seq(Message) /\ <<>> \in Seq(Byte)
      BY NoFrames, EmptySeq
    <3> QED
      BY <3>1, <3>2 DEF First
  <2>4. ASSUME First(b, s) PROVE First(b \o Frame(m), s \o Unit(m))
    <3>1. PICK k \in Message, tail \in Seq(Message), rest \in Seq(Byte) :
             s = Unit(k) \o tail /\ b = Frame(k) \o rest /\ Frames(rest, tail)
      BY <2>4 DEF First
    <3>2. /\ Frame(k) \in Seq(Byte) /\ Frame(m) \in Seq(Byte)
          /\ Unit(k) \in Seq(Message) /\ Unit(m) \in Seq(Message)
      BY MessageIs
    <3>3. (Frame(k) \o rest) \o Frame(m) = Frame(k) \o (rest \o Frame(m))
      <4>1. Assoc(Frame(k), rest, Frame(m))
        BY <3>2, AssocIs
      <4> QED
        BY <4>1 DEF Assoc
    <3>4. (Unit(k) \o tail) \o Unit(m) = Unit(k) \o (tail \o Unit(m))
      <4>1. Assoc(Unit(k), tail, Unit(m))
        BY <3>2, AssocIs
      <4> QED
        BY <4>1 DEF Assoc
    <3>5. /\ Frames(rest \o Frame(m), tail \o Unit(m))
          /\ rest \o Frame(m) \in Seq(Byte) /\ tail \o Unit(m) \in Seq(Message)
      BY <3>1, OneMore DEF Frames
    <3> QED
      BY <3>1, <3>3, <3>4, <3>5 DEF First
  <2>5. First(b \o Frame(m), s \o Unit(m))
    BY <2>1, <2>3, <2>4
  <2> QED
    BY <2>2, <2>5 DEF Frames, P, b, s
<1>3. P \in Framing
  BY <1>1, <1>2 DEF Framing
<1>4. <<bytes, ms>> \in P
  <2> HIDE DEF P
  <2> QED
    BY <1>3 DEF Frames
<1> QED
  BY <1>4

-----------------------------------------------------------------------------
(* While no byte is damaged the bytes on their way, from the header that   *)
(* has been read to those in vSend that belong to ended messages, are the  *)
(* messages sent and not yet delivered.                                    *)

Ready == IF owner = NoThread THEN Unread(vSend) ELSE Take(Unread(vSend), nHeaderStart)
Coming == hdr \o (Unread(vRecv) \o (wire \o Ready))

\* vSend ends in the message that is being pushed, if there is one.
Sending ==
    /\ vSend \in StreamOf(Byte)
    /\ owner \in Threads \cup {NoThread}
    /\ owner = NoThread => nHeaderStart = -1 /\ nMessageStart = -1
    /\ owner # NoThread =>
          /\ nHeaderStart \in Nat /\ nHeaderStart <= size(vSend)
          /\ nMessageStart = nHeaderStart + HeaderSize
          /\ nHeaderStart = 0 => vSend.nReadPos = 0
          /\ \E data \in Message : Unread(vSend) = Ready \o (Header \o data)

Receiving ==
    /\ vRecv \in StreamOf(Byte) /\ wire \in Seq(Byte) /\ hdr \in Seq(Byte)
    /\ loop \in {"out", "scan", "read"}
    /\ Len(hdr) = IF loop = "read" THEN HeaderSize ELSE 0
    /\ sent \in Seq(Message) /\ delivered \in Seq(Message)

InOrder == \E todo \in Seq(Message) : sent = delivered \o todo /\ Frames(Coming, todo)

Whole == Sending /\ Receiving /\ InOrder

MessagesIInv == /\ begun \in 0 .. MaxPushed /\ damaged \in 0 .. MaxDamaged
                /\ damaged = 0 => Whole

\* What is ready to be sent, and the message behind it.
LEMMA ReadyIs ==
    ASSUME Sending
    PROVE  /\ Ready \in Seq(Byte) /\ Unread(vSend) \in Seq(Byte)
           /\ size(vSend) = Len(Unread(vSend)) /\ size(vSend) \in Nat
           /\ owner = NoThread => Ready = Unread(vSend)
           /\ owner # NoThread => Len(Ready) = nHeaderStart /\ nHeaderStart \in Nat
<1>1. vSend \in StreamOf(Byte)
  BY DEF Sending
<1>2. Unread(vSend) \in Seq(Byte) /\ size(vSend) = Len(Unread(vSend)) /\ size(vSend) \in Nat
  BY <1>1, UnreadIs
<1>3. CASE owner = NoThread
  BY <1>2, <1>3 DEF Ready
<1>4. CASE owner # NoThread
  <2>1. nHeaderStart \in Nat /\ nHeaderStart <= Len(Unread(vSend))
    BY <1>2, <1>4 DEF Sending
  <2>2. /\ Take(Unread(vSend), nHeaderStart) \in Seq(Byte)
        /\ Len(Take(Unread(vSend), nHeaderStart)) = nHeaderStart
    BY <1>2, <2>1, Split
  <2> QED
    BY <1>2, <1>4, <2>1, <2>2 DEF Ready
<1> QED
  BY <1>3, <1>4

LEMMA HeaderIs ==
    /\ Header \in Seq(Byte) /\ Len(Header) = HeaderSize /\ HeaderSize = 5
    /\ Header = <<8, 9, 1>> \o (Unit(0) \o Unit(0))
    /\ <<8, 9, 1>> \in Seq(Byte) /\ Len(<<8, 9, 1>>) = 3
<1>1. 8 \in Byte /\ 9 \in Byte /\ 1 \in Byte /\ 0 \in Byte
  BY DEF Byte
<1> QED
  BY <1>1 DEF Header, HeaderSize, Start1, Start2, Command, Unit

LEMMA NoneIsMessage == <<>> \in Message
  BY EmptySeq, MessagesAssumption DEF Message

LEMMA BeginStep ==
    ASSUME Whole, NEW t \in Threads, BeginMessage(t)
    PROVE  Sending' /\ Ready' = Ready
<1> DEFINE u == Unread(vSend)
<1>1. /\ owner = NoThread /\ owner' = t /\ nHeaderStart' = size(vSend)
      /\ vSend' = write(vSend, Header) /\ nMessageStart' = size(vSend')
  BY DEF BeginMessage
<1>2. /\ vSend \in StreamOf(Byte) /\ u \in Seq(Byte)
      /\ size(vSend) = Len(u) /\ size(vSend) \in Nat /\ Ready = u
  BY <1>1, ReadyIs DEF Whole, Sending
<1>3. vSend' \in StreamOf(Byte) /\ Unread(vSend') = u \o Header
  BY <1>1, <1>2, HeaderIs, WriteIs
<1>4. t # NoThread
  BY MessagesAssumption
<1> HIDE DEF u
<1>5. /\ u \o Header \in Seq(Byte) /\ Len(u \o Header) = Len(u) + HeaderSize
      /\ Take(u \o Header, Len(u)) = u
  <2>1. Header \in Seq(Byte) /\ u \in Seq(Byte)
    BY <1>2, HeaderIs
  <2>2. /\ u \o Header \in Seq(Byte) /\ Len(u \o Header) = Len(u) + Len(Header)
        /\ Take(u \o Header, Len(u)) = u
    BY <2>1, Joined
  <2> QED
    BY <2>2, HeaderIs
<1>6. size(vSend') = Len(u) + HeaderSize
  BY <1>3, <1>5, UnreadIs
<1>7. Ready' = u
  BY <1>1, <1>2, <1>3, <1>4, <1>5 DEF Ready
<1>8. Header \o <<>> = Header
  BY HeaderIs, ConcatEmptySeq
<1>9. \E data \in Message : Unread(vSend') = u \o (Header \o data)
  BY <1>3, <1>8, NoneIsMessage
<1>10. Len(u) = 0 => vSend'.nReadPos = 0
  <2>1. vSend'.nReadPos = vSend.nReadPos
    BY <1>1, <1>2, StreamIs, Fields DEF write
  <2>2. size(vSend) = Len(vSend.vch) - vSend.nReadPos /\ vSend.nReadPos \in Nat
        /\ Len(vSend.vch) \in Nat /\ (vSend.nReadPos < Len(vSend.vch) \/ vSend.nReadPos = 0)
    BY <1>2, StreamIs, UnreadIs
  <2>3. size(vSend) = 0 => vSend.nReadPos = 0
    BY <2>2
  <2> QED
    BY <1>2, <2>1, <2>3
<1>11. Len(u) \in Nat /\ Len(u) <= size(vSend') /\ nHeaderStart' = Len(u)
       /\ nMessageStart' = nHeaderStart' + HeaderSize
  BY <1>1, <1>2, <1>6, HeaderIs
<1>12. owner' \in Threads /\ owner' # NoThread
  BY <1>1, <1>4
<1> QED
  BY <1>2, <1>3, <1>7, <1>9, <1>10, <1>11, <1>12 DEF Sending

\* What has been pushed of a message.
LEMMA PushedIs ==
    ASSUME Sending, owner # NoThread, NEW data \in Message,
           Unread(vSend) = Ready \o (Header \o data)
    PROVE  Pushed = data /\ size(vSend) - nMessageStart = Len(data) /\ data \in Seq(Byte)
<1> DEFINE r == Ready
           x == r \o Header
<1>1. /\ r \in Seq(Byte) /\ Len(r) = nHeaderStart /\ nHeaderStart \in Nat
      /\ size(vSend) = Len(Unread(vSend))
  BY ReadyIs
<1>2. data \in Seq(Byte) /\ Len(data) \in Nat
  BY MessageIs
<1>3. nMessageStart = nHeaderStart + HeaderSize
  BY DEF Sending
<1> HIDE DEF r
<1>4. x \in Seq(Byte) /\ Len(x) = nMessageStart
  <2>1. r \o Header \in Seq(Byte) /\ Len(r \o Header) = Len(r) + Len(Header)
    BY <1>1, HeaderIs, ConcatProperties
  <2> QED
    BY <1>1, <1>3, <2>1, HeaderIs
<1>5. r \o (Header \o data) = x \o data
  <2>1. Header \in Seq(Byte)
    BY HeaderIs
  <2>9. Assoc(r, Header, data)
    BY <1>1, <1>2, <2>1, AssocIs
  <2> QED
    BY <2>9 DEF Assoc
<1>6. Unread(vSend) = x \o data
  BY <1>5 DEF r
<1> HIDE DEF x
<1>7. Len(x \o data) = Len(x) + Len(data) /\ Drop(x \o data, Len(x)) = data
  BY <1>2, <1>4, Joined, ZenonT(60)
<1>8. Pushed = Drop(Unread(vSend), nMessageStart)
  BY <1>1 DEF Pushed, Drop
<1> QED
  BY <1>1, <1>2, <1>3, <1>4, <1>6, <1>7, <1>8, HeaderIs

LEMMA PushStep ==
    ASSUME Whole, NEW t \in Threads, PushArgument(t)
    PROVE  Sending' /\ Ready' = Ready
<1> DEFINE u == Unread(vSend)
           r == Ready
<1>1. PICK a \in Arguments : vSend' = write(vSend, a)
  BY DEF PushArgument
<1>2. /\ owner = t /\ Len(Pushed) < MaxData /\ t # NoThread
      /\ owner' = owner /\ nHeaderStart' = nHeaderStart /\ nMessageStart' = nMessageStart
  BY MessagesAssumption DEF PushArgument
<1>3. PICK data \in Message : u = r \o (Header \o data)
  BY <1>2 DEF Whole, Sending
<1>4. /\ r \in Seq(Byte) /\ Len(r) = nHeaderStart /\ nHeaderStart \in Nat /\ u \in Seq(Byte)
      /\ size(vSend) = Len(u) /\ nHeaderStart <= Len(u) /\ Len(u) \in Nat
      /\ nMessageStart = nHeaderStart + HeaderSize
      /\ nHeaderStart = 0 => vSend.nReadPos = 0
  BY <1>2, ReadyIs DEF Whole, Sending
<1>5. Pushed = data /\ data \in Seq(Nat) /\ data \in Seq(Byte)
  BY <1>2, <1>3, PushedIs DEF Whole, Message
<1>6. a \in Seq(Nat) /\ a \in Seq(Byte)
  <2>1. a \in Seq(Nat)
    BY MessagesAssumption
  <2> QED
    BY <2>1, SeqMonotonic DEF Byte
<1>7. data \o a \in Message
  <2>1. data \o a \in Seq(Nat) /\ Len(data \o a) = Len(data) + Len(a)
    BY <1>5, <1>6, ConcatProperties
  <2>2. Len(data) \in Nat /\ Len(a) \in Nat
    BY <1>5, <1>6, LenProperties
  <2>3. Len(data) < MaxData /\ MaxData + Len(a) <= TooLarge + 1 /\ MaxData \in Nat /\ TooLarge \in Nat
    BY <1>2, <1>5, MessagesAssumption
  <2> QED
    BY <2>1, <2>2, <2>3 DEF Message
<1>8. vSend \in StreamOf(Byte) /\ vSend' \in StreamOf(Byte) /\ Unread(vSend') = u \o a
  BY <1>1, <1>6, WriteIs DEF Whole, Sending
<1>9. Take(u \o a, nHeaderStart) = Take(u, nHeaderStart) /\ r = Take(u, nHeaderStart)
  <2>1. r = Take(u, nHeaderStart)
    BY <1>2 DEF Ready
  <2> HIDE DEF u, r
  <2> QED
    BY <1>4, <1>6, <2>1, DropJoined
<1>10. Ready' = r
  BY <1>2, <1>8, <1>9 DEF Ready
<1>11. u \o a = r \o (Header \o (data \o a))
  <2> HIDE DEF u, r
  <2>0. Header \in Seq(Byte) /\ r \in Seq(Byte)
    BY <1>4, HeaderIs
  <2>1. (Header \o data) \o a = Header \o (data \o a)
    <3>1. Assoc(Header, data, a)
      BY <1>5, <1>6, <2>0, AssocIs
    <3> QED
      BY <3>1 DEF Assoc
  <2> DEFINE x == Header \o data
  <2>3. x \in Seq(Byte)
    BY <1>5, <2>0, ConcatProperties
  <2> HIDE DEF x
  <2>2. (r \o x) \o a = r \o (x \o a)
    <3>1. Assoc(r, x, a)
      BY <1>6, <2>0, <2>3, AssocIs
    <3> QED
      BY <3>1 DEF Assoc
  <2> USE DEF x
  <2> QED
    BY <1>3, <2>1, <2>2
<1>12. nHeaderStart <= size(vSend')
  <2>1. size(vSend') = Len(u \o a)
    BY <1>8, UnreadIs
  <2>2. Len(u \o a) = Len(u) + Len(a) /\ Len(a) \in Nat
    BY <1>4, <1>6, ConcatProperties, LenProperties
  <2> QED
    BY <1>4, <2>1, <2>2
<1>13. vSend'.nReadPos = vSend.nReadPos
  BY <1>1, <1>8, Fields DEF write
<1>14. \E d \in Message : Unread(vSend') = Ready' \o (Header \o d)
  BY <1>7, <1>8, <1>10, <1>11
<1>15. owner' \in Threads \cup {NoThread} /\ owner' # NoThread
  BY <1>2
<1> HIDE DEF u, r
<1>16. /\ nHeaderStart' \in Nat /\ nHeaderStart' <= size(vSend')
       /\ nMessageStart' = nHeaderStart' + HeaderSize
       /\ nHeaderStart' = 0 => vSend'.nReadPos = 0
  BY <1>2, <1>4, <1>12, <1>13
<1> QED
  BY <1>8, <1>10, <1>14, <1>15, <1>16 DEF Sending, r

\* Pieces of a stream, however they are put together.
Pieces(r, h, x, y, m) == /\ r \o ((h \o (x \o y)) \o m) = (r \o h) \o (x \o (y \o m))
                         /\ (r \o h) \o (x \o (y \o m)) = ((r \o h) \o x) \o (y \o m)

LEMMA FivePieces ==
    ASSUME NEW S, NEW r \in Seq(S), NEW h \in Seq(S), NEW x \in Seq(S), NEW y \in Seq(S),
           NEW m \in Seq(S)
    PROVE  Pieces(r, h, x, y, m)
<1> DEFINE v == y \o m
           w == x \o v
           e == x \o y
           a == r \o h
<1>1. v \in Seq(S) /\ e \in Seq(S) /\ a \in Seq(S)
  BY ConcatProperties
<1>2. e \o m = w
  <2>1. Assoc(x, y, m)
    BY AssocIs
  <2> QED
    BY <2>1 DEF Assoc
<1>3. (h \o e) \o m = h \o (e \o m)
  <2> HIDE DEF e
  <2>9. Assoc(h, e, m)
    BY <1>1, AssocIs
  <2> QED
    BY <2>9 DEF Assoc
<1> HIDE DEF v
<1>4. w \in Seq(S)
  BY <1>1, ConcatProperties
<1>5. (a \o x) \o v = a \o w
  <2>1. v \in Seq(S) /\ a \in Seq(S)
    BY <1>1
  <2> HIDE DEF a, e
  <2>9. Assoc(a, x, v)
    BY <2>1, AssocIs
  <2> QED
    BY <2>9 DEF Assoc
<1>6. a \o w = r \o (h \o w)
  <2> HIDE DEF w
  <2>9. Assoc(r, h, w)
    BY <1>4, AssocIs
  <2> QED
    BY <2>9 DEF Assoc
<1> HIDE DEF e, w
<1>7. r \o ((h \o e) \o m) = a \o w
  BY <1>2, <1>3, <1>6
<1> QED
  BY <1>1, <1>5, <1>7 DEF a, e, v, w, Pieces

LEMMA EndStep ==
    ASSUME Whole, NEW t \in Threads, EndMessage(t)
    PROVE  Sending' /\ \E m \in Message : Ready' = Ready \o Frame(m) /\ sent' = sent \o Unit(m)
<1> DEFINE u == Unread(vSend)
           r == Ready
           s1 == put(vSend, nHeaderStart + SizeAt, size(vSend) - nMessageStart)
           s2 == put(s1, nHeaderStart + ChecksumAt, Checksum(Pushed))
<1>1. /\ owner = t /\ t # NoThread /\ vSend' = s2 /\ owner' = NoThread
      /\ nHeaderStart' = -1 /\ nMessageStart' = -1 /\ sent' = Append(sent, Pushed)
  BY MessagesAssumption DEF EndMessage, Closed
<1>2. PICK m \in Message : u = r \o (Header \o m)
  BY <1>1 DEF Whole, Sending
<1>3. Pushed = m /\ size(vSend) - nMessageStart = Len(m) /\ m \in Seq(Byte)
  BY <1>1, <1>2, PushedIs DEF Whole
<1>4. r \in Seq(Byte) /\ Len(r) = nHeaderStart /\ nHeaderStart \in Nat /\ vSend \in StreamOf(Byte)
  BY <1>1, ReadyIs DEF Whole, Sending
<1> DEFINE h == <<8, 9, 1>>
           a == r \o h
           z == Unit(0)
           l == Unit(Len(m))
           c == Unit(Checksum(m))
<1>5. /\ h \in Seq(Byte) /\ Len(h) = 3 /\ 0 \in Byte /\ Len(m) \in Byte /\ Checksum(m) \in Byte
      /\ z \in Seq(Byte) /\ l \in Seq(Byte) /\ c \in Seq(Byte) /\ Len(l) = 1
  <2>1. m \in Seq(Nat) /\ Len(m) \in Nat
    BY LenProperties DEF Message
  <2>2. 0 \in Byte /\ Len(m) \in Byte /\ Checksum(m) \in Byte
    BY <2>1 DEF Byte
  <2> QED
    BY <2>2, HeaderIs DEF Unit
<1> HIDE DEF u, r, h, a, z, l, c
<1>6. a \in Seq(Byte) /\ Len(a) = nHeaderStart + 3 /\ a \o l \in Seq(Byte) /\ Len(a \o l) = nHeaderStart + 4
  <2>1. r \o h \in Seq(Byte) /\ Len(r \o h) = Len(r) + Len(h)
    BY <1>4, <1>5, ConcatProperties
  <2>2. a \in Seq(Byte) /\ Len(a) = nHeaderStart + 3
    BY <1>4, <1>5, <2>1 DEF a
  <2>3. a \o l \in Seq(Byte) /\ Len(a \o l) = Len(a) + Len(l)
    BY <1>5, <2>2, ConcatProperties
  <2> QED
    BY <1>4, <1>5, <2>2, <2>3
\* The bytes of the message, whatever the two that are filled in.
<1>7. Pieces(r, h, z, z, m) /\ Pieces(r, h, l, z, m) /\ Pieces(r, h, l, c, m)
  <2>1. /\ r \in Seq(Byte) /\ h \in Seq(Byte) /\ z \in Seq(Byte) /\ l \in Seq(Byte)
        /\ c \in Seq(Byte) /\ m \in Seq(Byte)
    BY <1>3, <1>4, <1>5
  <2> QED
    BY <2>1, FivePieces
<1>8. u = a \o (z \o (z \o m)) /\ z \o m \in Seq(Byte)
  <2>1. z \o m \in Seq(Byte)
    BY <1>3, <1>5, ConcatProperties
  <2>2. Header = h \o (z \o z)
    BY HeaderIs DEF h, z
  <2> QED
    BY <1>2, <1>7, <2>1, <2>2 DEF Pieces, a
<1>9. s1 \in StreamOf(Byte) /\ Unread(s1) = a \o (l \o (z \o m))
  <2>1. s1 = put(vSend, Len(a), Len(m))
    BY <1>3, <1>6 DEF SizeAt
  <2> DEFINE b == z \o m
             n == Len(m)
  <2>2. Holds(Byte, vSend, a, 0, b) /\ n \in Byte
    BY <1>4, <1>5, <1>6, <1>8 DEF u, z, Holds
  <2> HIDE DEF b, n
  <2>3. Holds(Byte, put(vSend, Len(a), n), a, n, b)
    BY <2>2, PutIs
  <2> QED
    BY <2>1, <2>3 DEF b, l, n, Holds
<1>10. s2 \in StreamOf(Byte) /\ Unread(s2) = (a \o l) \o (c \o m)
  <2> HIDE DEF s1
  <2>1. s2 = put(s1, Len(a \o l), Checksum(m))
    BY <1>3, <1>6 DEF ChecksumAt
  <2> DEFINE b == a \o l
  <2>2. Unread(s1) = b \o (z \o m)
    BY <1>7, <1>9 DEF Pieces, a
  <2>3. Holds(Byte, s1, b, 0, m)
    BY <1>3, <1>5, <1>6, <1>9, <2>2 DEF z, Holds
  <2> HIDE DEF b
  <2>4. Holds(Byte, put(s1, Len(b), Checksum(m)), b, Checksum(m), m)
    BY <1>5, <2>3, PutIs
  <2> QED
    BY <2>1, <2>4 DEF b, c, Holds
<1>11. Unread(s2) = r \o Frame(m)
  <2>1. HeaderOf(m) = h \o (l \o c)
    BY <1>3 DEF HeaderOf, h, l, c, Unit, Start1, Start2, Command
  <2>2. r \o ((h \o (l \o c)) \o m) = (a \o l) \o (c \o m)
    BY <1>7 DEF Pieces, a
  <2> QED
    BY <1>10, <2>1, <2>2 DEF Frame
<1> HIDE DEF s2
<1>12. Ready' = r \o Frame(m)
  BY <1>1, <1>11 DEF Ready
<1>13. sent' = sent \o Unit(m)
  <2>1. sent \in Seq(Message)
    BY DEF Whole, Receiving
  <2> QED
    BY <1>1, <1>3, <2>1 DEF Unit
<1>14. Sending'
  BY <1>1, <1>10 DEF Sending
<1> QED
  BY <1>12, <1>13, <1>14 DEF r

LEMMA AbortStep ==
    ASSUME Whole, NEW t \in Threads, AbortMessage(t)
    PROVE  Sending' /\ Ready' = Ready
<1>1. /\ owner = t /\ t # NoThread /\ vSend' = truncate(vSend, nHeaderStart) /\ owner' = NoThread
      /\ nHeaderStart' = -1 /\ nMessageStart' = -1
  BY MessagesAssumption DEF AbortMessage, Closed
<1>2. /\ vSend \in StreamOf(Byte) /\ nHeaderStart \in Nat /\ nHeaderStart <= size(vSend)
      /\ nHeaderStart = 0 => vSend.nReadPos = 0
  BY <1>1 DEF Whole, Sending
<1>3. nHeaderStart > 0 \/ vSend.nReadPos = 0
  BY <1>2
<1>4. vSend' \in StreamOf(Byte) /\ Unread(vSend') = Take(Unread(vSend), nHeaderStart)
  BY <1>1, <1>2, <1>3, TruncateIs
<1> QED
  BY <1>1, <1>4 DEF Sending, Ready

LEMMA SendStep ==
    ASSUME Whole, SocketSend
    PROVE  Sending' /\ wire' \in Seq(Byte) /\ wire' \o Ready' = wire \o Ready
<1> DEFINE u == Unread(vSend)
<1>1. PICK n \in 1 .. size(vSend) : wire' = wire \o SubSeq(u, 1, n) /\ vSend' = erase(vSend, n)
  BY DEF SocketSend
<1>2. owner = NoThread /\ owner' = owner /\ nHeaderStart' = nHeaderStart /\ nMessageStart' = nMessageStart
  BY DEF SocketSend
<1>3. /\ vSend \in StreamOf(Byte) /\ u \in Seq(Byte) /\ size(vSend) = Len(u) /\ size(vSend) \in Nat
      /\ Ready = u /\ wire \in Seq(Byte) /\ nHeaderStart = -1 /\ nMessageStart = -1
  BY <1>2, ReadyIs DEF Whole, Sending, Receiving
<1>4. n \in Nat /\ n <= size(vSend)
  BY <1>3
<1>5. vSend' \in StreamOf(Byte) /\ Unread(vSend') = Drop(u, n)
  BY <1>1, <1>3, <1>4, IgnoreIs
<1>6. Ready' = Drop(u, n)
  BY <1>2, <1>5 DEF Ready
<1> HIDE DEF u
<1>7. /\ Take(u, n) \in Seq(Byte) /\ Drop(u, n) \in Seq(Byte) /\ u = Take(u, n) \o Drop(u, n)
  BY <1>3, <1>4, Split
<1> DEFINE a == Take(u, n)
           b == Drop(u, n)
<1>8. a \in Seq(Byte) /\ b \in Seq(Byte) /\ u = a \o b /\ wire' = wire \o a
  BY <1>1, <1>7 DEF Take, u
<1>9. Ready' = b
  BY <1>6
<1> HIDE DEF a, b
<1>10. (wire \o a) \o b = wire \o (a \o b) /\ wire \o a \in Seq(Byte)
  <2>1. wire \in Seq(Byte) /\ a \in Seq(Byte) /\ b \in Seq(Byte)
    BY <1>3, <1>8
  <2>2. Assoc(wire, a, b)
    BY <2>1, AssocIs
  <2>3. wire \o a \in Seq(Byte)
    BY <2>1, ConcatProperties
  <2> QED
    BY <2>2, <2>3 DEF Assoc
<1>11. Sending'
  BY <1>2, <1>3, <1>5 DEF Sending
<1> QED
  BY <1>3, <1>8, <1>9, <1>10, <1>11

\* Nothing changes at the sender.
LEMMA SenderRests ==
    ASSUME Sending, UNCHANGED sendVars
    PROVE  Sending' /\ Ready' = Ready /\ sent' = sent
  BY DEF Sending, Ready, sendVars

\* The bytes on their way, with and without a piece behind them.
LEMMA ComingIs ==
    ASSUME Sending, Receiving
    PROVE  /\ wire \o Ready \in Seq(Byte) /\ Unread(vRecv) \in Seq(Byte)
           /\ Unread(vRecv) \o (wire \o Ready) \in Seq(Byte) /\ Coming \in Seq(Byte)
           /\ Ready \in Seq(Byte)
<1>1. Ready \in Seq(Byte) /\ wire \in Seq(Byte) /\ hdr \in Seq(Byte) /\ Unread(vRecv) \in Seq(Byte)
  BY ReadyIs, UnreadIs DEF Receiving
<1>2. wire \o Ready \in Seq(Byte)
  BY <1>1, ConcatProperties
<1>3. Unread(vRecv) \o (wire \o Ready) \in Seq(Byte)
  BY <1>1, <1>2, ConcatProperties
<1> QED
  BY <1>1, <1>2, <1>3, ConcatProperties DEF Coming

Behind(h, u, w, r, f) == h \o (u \o (w \o (r \o f))) = (h \o (u \o (w \o r))) \o f

LEMMA PieceBehind ==
    ASSUME NEW S, NEW h \in Seq(S), NEW u \in Seq(S), NEW w \in Seq(S), NEW r \in Seq(S),
           NEW f \in Seq(S)
    PROVE  Behind(h, u, w, r, f)
<1> DEFINE v == w \o r
           y == u \o v
<1>1. w \o (r \o f) = v \o f
  <2>1. Assoc(w, r, f)
    BY AssocIs
  <2> QED
    BY <2>1 DEF Assoc
<1>2. v \in Seq(S)
  BY ConcatProperties
<1> HIDE DEF v
<1>3. u \o (v \o f) = y \o f
  <2>1. Assoc(u, v, f)
    BY <1>2, AssocIs
  <2> QED
    BY <2>1 DEF Assoc
<1>4. y \in Seq(S)
  BY <1>2, ConcatProperties
<1> HIDE DEF y
<1>5. h \o (y \o f) = (h \o y) \o f
  <2>1. Assoc(h, y, f)
    BY <1>4, AssocIs
  <2> QED
    BY <2>1 DEF Assoc
<1> QED
  BY <1>1, <1>3, <1>5 DEF v, y, Behind

\* A message has been ended: it is the last to come.
LEMMA OneMoreComing ==
    ASSUME Whole, NEW m \in Message, Ready' = Ready \o Frame(m), sent' = sent \o Unit(m),
           UNCHANGED <<wire, recvVars>>
    PROVE  InOrder'
<1>1. PICK todo \in Seq(Message) : sent = delivered \o todo /\ Frames(Coming, todo)
  BY DEF Whole, InOrder
<1>2. Coming' = Coming \o Frame(m)
  <2> DEFINE u == Unread(vRecv)
             r == Ready
             f == Frame(m)
  <2>1. u \in Seq(Byte) /\ r \in Seq(Byte) /\ f \in Seq(Byte) /\ hdr \in Seq(Byte) /\ wire \in Seq(Byte)
    BY ComingIs, MessageIs DEF Whole, Receiving
  <2>2. Coming' = hdr \o (u \o (wire \o (r \o f))) /\ Coming = hdr \o (u \o (wire \o r))
    BY DEF Coming, recvVars
  <2> HIDE DEF u, r, f
  <2>3. Behind(hdr, u, wire, r, f)
    BY <2>1, PieceBehind
  <2> QED
    BY <2>2, <2>3 DEF f, Behind
<1>3. Frames(Coming \o Frame(m), todo \o Unit(m)) /\ todo \o Unit(m) \in Seq(Message)
  BY <1>1, OneMore DEF Frames
<1>4. sent' = delivered' \o (todo \o Unit(m))
  <2>1. delivered \in Seq(Message) /\ Unit(m) \in Seq(Message)
    BY MessageIs DEF Whole, Receiving
  <2>2. (delivered \o todo) \o Unit(m) = delivered \o (todo \o Unit(m))
    <3>1. Assoc(delivered, todo, Unit(m))
      BY <2>1, AssocIs
    <3> QED
      BY <3>1 DEF Assoc
  <2> QED
    BY <1>1, <2>2 DEF recvVars
<1> QED
  BY <1>2, <1>3, <1>4 DEF InOrder

LEMMA SameComing ==
    ASSUME Whole, Coming' = Coming, sent' = sent, delivered' = delivered
    PROVE  InOrder'
  BY DEF Whole, InOrder

\* The next message, if anything is coming.
LEMMA NextIs ==
    ASSUME Whole, Coming # <<>>
    PROVE  \E m \in Message, tail \in Seq(Message), rest \in Seq(Byte) :
              /\ sent = delivered \o (Unit(m) \o tail) /\ Coming = HeaderOf(m) \o (m \o rest)
              /\ Frames(rest, tail)
<1>1. PICK todo \in Seq(Message) : sent = delivered \o todo /\ Frames(Coming, todo)
  BY DEF Whole, InOrder
<1>2. First(Coming, todo)
  BY <1>1, FirstOf
<1>3. PICK m \in Message, tail \in Seq(Message), rest \in Seq(Byte) :
         todo = Unit(m) \o tail /\ Coming = Frame(m) \o rest /\ Frames(rest, tail)
  BY <1>2 DEF First
<1>4. m \in Seq(Byte) /\ HeaderOf(m) \in Seq(Byte)
  BY MessageIs
<1>5. (HeaderOf(m) \o m) \o rest = HeaderOf(m) \o (m \o rest)
  <2> DEFINE h == HeaderOf(m)
  <2>1. h \in Seq(Byte)
    BY <1>4
  <2> HIDE DEF h
  <2>2. (h \o m) \o rest = h \o (m \o rest)
    <3>1. Assoc(h, m, rest)
      BY <1>4, <2>1, AssocIs
    <3> QED
      BY <3>1 DEF Assoc
  <2> QED
    BY <2>2 DEF h
<1> QED
  BY <1>1, <1>3, <1>5 DEF Frame

-----------------------------------------------------------------------------
(* The receiver                                                            *)

LEMMA ReceiveStep ==
    ASSUME Whole, SocketReceive PROVE Whole'
<1>1. /\ vRecv' = write(vRecv, wire) /\ wire' = <<>> /\ UNCHANGED sendVars
      /\ loop' = loop /\ hdr' = hdr /\ delivered' = delivered
  BY DEF SocketReceive
<1>2. Sending' /\ Ready' = Ready /\ sent' = sent
  BY <1>1, SenderRests DEF Whole
<1>3. vRecv \in StreamOf(Byte) /\ wire \in Seq(Byte)
  BY DEF Whole, Receiving
<1>4. vRecv' \in StreamOf(Byte) /\ Unread(vRecv') = Unread(vRecv) \o wire
  BY <1>1, <1>3, WriteIs
<1>5. Receiving'
  BY <1>1, <1>2, <1>4, EmptySeq DEF Whole, Receiving
<1>6. Coming' = Coming
  <2>1. Ready \in Seq(Byte) /\ Unread(vRecv) \in Seq(Byte)
    BY ComingIs DEF Whole
  <2>2. Assoc(Unread(vRecv), wire, Ready)
    BY <1>3, <2>1, AssocIs
  <2>3. <<>> \o Ready = Ready
    BY <2>1, ConcatEmptySeq
  <2> QED
    BY <1>1, <1>2, <1>4, <2>2, <2>3 DEF Coming, Assoc
<1> QED
  BY <1>1, <1>2, <1>5, <1>6, SameComing DEF Whole

LEMMA EnterStep ==
    ASSUME Whole, ProcessMessages PROVE Whole'
<1>1. /\ UNCHANGED <<wire, vRecv, hdr, delivered>> /\ UNCHANGED sendVars
      /\ loop = "out" /\ loop' = "scan"
  BY DEF ProcessMessages, Processing
<1>2. Sending' /\ Ready' = Ready /\ sent' = sent
  BY <1>1, SenderRests DEF Whole
<1>3. Receiving'
  BY <1>1, <1>2 DEF Whole, Receiving
<1>4. Coming' = Coming
  BY <1>1, <1>2 DEF Coming
<1> QED
  BY <1>1, <1>2, <1>3, <1>4, SameComing DEF Whole

\* Without a header read, the bytes coming begin with those in vRecv; with one, it is that
\* of the next message, whose data comes first.
LEMMA NoHeader == ASSUME Whole, loop # "read" PROVE hdr = <<>> /\ Coming = Unread(vRecv) \o (wire \o Ready)
<1>1. hdr \in Seq(Byte) /\ Len(hdr) = 0
  BY DEF Whole, Receiving
<1>2. hdr = <<>>
  BY <1>1, EmptySeq
<1>3. Unread(vRecv) \o (wire \o Ready) \in Seq(Byte)
  BY ComingIs DEF Whole
<1>4. <<>> \o (Unread(vRecv) \o (wire \o Ready)) = Unread(vRecv) \o (wire \o Ready)
  BY <1>3, ConcatEmptySeq
<1> QED
  BY <1>2, <1>4 DEF Coming

LEMMA HeaderRead ==
    ASSUME Whole, loop = "read"
    PROVE  \E m \in Message, tail \in Seq(Message), rest \in Seq(Byte) :
              /\ sent = delivered \o (Unit(m) \o tail) /\ hdr = HeaderOf(m)
              /\ Unread(vRecv) \o (wire \o Ready) = m \o rest
              /\ Frames(rest, tail)
<1> DEFINE x == Unread(vRecv) \o (wire \o Ready)
<1>1. hdr \in Seq(Byte) /\ Len(hdr) = HeaderSize /\ HeaderSize = 5
  BY HeaderIs DEF Whole, Receiving
<1>2. x \in Seq(Byte)
  BY ComingIs DEF Whole
<1> HIDE DEF x
<1>3. Coming = hdr \o x
  BY DEF Coming, x
<1>4. Coming # <<>>
  <2>1. Len(hdr \o x) = Len(hdr) + Len(x) /\ Len(x) \in Nat
    BY <1>1, <1>2, Joined
  <2>2. Len(hdr \o x) # 0
    BY <1>1, <2>1
  <2> QED
    BY <1>3, <2>2, EmptySeq
<1>5. PICK m \in Message, tail \in Seq(Message), rest \in Seq(Byte) :
         /\ sent = delivered \o (Unit(m) \o tail) /\ Coming = HeaderOf(m) \o (m \o rest)
         /\ Frames(rest, tail)
  BY <1>4, NextIs
<1> DEFINE h == HeaderOf(m)
           y == m \o rest
<1>6. h \in Seq(Byte) /\ Len(h) = HeaderSize /\ m \in Seq(Byte)
  BY MessageIs
<1>7. y \in Seq(Byte)
  BY <1>6, ConcatProperties
<1>8. hdr \o x = h \o y /\ Len(hdr) = Len(h)
  BY <1>1, <1>3, <1>5, <1>6
<1> HIDE DEF h, y
<1>9. hdr = h /\ x = y
  BY <1>1, <1>2, <1>6, <1>7, <1>8, SplitOnce
<1> QED
  BY <1>5, <1>9 DEF h, y, x

\* Two ways to split a sequence have the elements of the shorter front in common.
Agree(a, c) == \A i \in 1 .. Len(a) : i <= Len(c) => a[i] = c[i]

LEMMA SameFront ==
    ASSUME NEW S, NEW a \in Seq(S), NEW b \in Seq(S), NEW c \in Seq(S), NEW d \in Seq(S),
           a \o b = c \o d
    PROVE  Agree(a, c)
<1> SUFFICES ASSUME NEW i \in 1 .. Len(a), i <= Len(c) PROVE a[i] = c[i]
  BY DEF Agree
<1>1. Len(a) \in Nat /\ Len(b) \in Nat /\ Len(c) \in Nat /\ Len(d) \in Nat
  BY LenProperties
<1>2. (a \o b)[i] = a[i]
  BY <1>1, ConcatProperties
<1>3. (c \o d)[i] = c[i]
  BY <1>1, ConcatProperties
<1> QED
  BY <1>2, <1>3

\* Where there is room for a header the next one is found at once.
LEMMA FoundAtOnce ==
    ASSUME Whole, loop = "scan"
    PROVE  /\ size(vRecv) < HeaderSize => size(vRecv) - MessageStart(Unread(vRecv)) < HeaderSize
           /\ size(vRecv) >= HeaderSize => MessageStart(Unread(vRecv)) = 0
<1> DEFINE u == Unread(vRecv)
           x == wire \o Ready
           at == {i \in 1 .. Len(u) - 1 : u[i] = Start1 /\ u[i + 1] = Start2}
<1>1. /\ u \in Seq(Byte) /\ x \in Seq(Byte) /\ size(vRecv) = Len(u) /\ Len(u) \in Nat
      /\ Coming = u \o x
  BY ComingIs, NoHeader, UnreadIs DEF Whole, Receiving
<1> HIDE DEF u, x
<1>2. CASE Len(u) <= 1
  <2>1. at = {}
    BY <1>1, <1>2
  <2>2. MessageStart(u) = Len(u)
    BY <2>1 DEF MessageStart
  <2> QED
    BY <1>1, <1>2, <2>2, HeaderIs DEF u
<1>3. CASE Len(u) > 1
  <2>1. Coming # <<>>
    <3>1. u # <<>>
      BY <1>3, EmptySeq
    <3> QED
      BY <1>1, <3>1, ConcatEqualIffEmpty
  <2>2. PICK m \in Message, rest \in Seq(Byte) : Coming = HeaderOf(m) \o (m \o rest)
    BY <2>1, NextIs
  <2> DEFINE h == HeaderOf(m)
             y == m \o rest
  <2>3. h \in Seq(Byte) /\ Len(h) = 5 /\ y \in Seq(Byte) /\ h[1] = Start1 /\ h[2] = Start2
    <3>1. h \in Seq(Byte) /\ m \in Seq(Byte) /\ Len(h) = 5
      BY MessageIs, HeaderIs
    <3>2. y \in Seq(Byte)
      BY <3>1, ConcatProperties
    <3> QED
      BY <3>1, <3>2 DEF HeaderOf
  <2> HIDE DEF h, y
  <2>4. u \o x = h \o y
    BY <1>1, <2>2 DEF h, y
  <2>5. 1 \in 1 .. Len(u) /\ 2 \in 1 .. Len(u)
    BY <1>1, <1>3
  <2>6. u[1] = h[1] /\ u[2] = h[2]
    <3>1. u \in Seq(Byte) /\ x \in Seq(Byte) /\ h \in Seq(Byte) /\ y \in Seq(Byte)
      BY <1>1, <2>3
    <3>2. Agree(u, h)
      BY <2>4, <3>1, SameFront
    <3> QED
      BY <2>3, <2>5, <3>2 DEF Agree
  <2>7. 1 \in at /\ \A i \in at : 1 <= i /\ i \in Nat
    BY <1>1, <1>3, <2>3, <2>6
  <2> HIDE DEF at
  <2>8. Min(at) = 1
    BY <2>7 DEF Min
  <2>9. MessageStart(u) = 0
    <3>1. MessageStart(u) = IF at = {} THEN Len(u) ELSE Min(at) - 1
      BY DEF MessageStart, at
    <3> QED
      BY <2>7, <2>8, <3>1
  <2> QED
    BY <1>1, <2>9, HeaderIs DEF u
<1> QED
  BY <1>1, <1>2, <1>3

\* The message thread leaves its loop, or goes on, and nothing is lost.
LEMMA BreakStep ==
    ASSUME Whole, NEW s, s \in StreamOf(Byte), Break(s), delivered' = delivered,
           hdr \o Unread(vRecv) = Unread(s)
    PROVE  Whole'
<1>1. /\ vRecv' = Compact(s) /\ loop' = "out" /\ hdr' = <<>>
      /\ UNCHANGED sendVars /\ wire' = wire
  BY DEF Break
<1>2. Sending' /\ Ready' = Ready /\ sent' = sent
  BY <1>1, SenderRests DEF Whole
<1>3. vRecv' \in StreamOf(Byte) /\ Unread(vRecv') = Unread(s)
  BY <1>1, CompactIs
<1>4. Receiving'
  BY <1>1, <1>2, <1>3, EmptySeq DEF Whole, Receiving
<1>5. Coming' = Coming
  <2> DEFINE x == wire \o Ready
             u == Unread(vRecv)
  <2>1. x \in Seq(Byte) /\ u \in Seq(Byte) /\ hdr \in Seq(Byte) /\ Coming = hdr \o (u \o x)
    BY ComingIs DEF Whole, Coming, Receiving
  <2>2. Coming' = <<>> \o (Unread(s) \o x)
    BY <1>1, <1>2, <1>3 DEF Coming
  <2> HIDE DEF x, u
  <2>3. Assoc(hdr, u, x)
    BY <2>1, AssocIs
  <2>4. hdr \o (u \o x) \in Seq(Byte)
    BY <2>1, ComingIs DEF Whole
  <2>5. <<>> \o (hdr \o (u \o x)) = hdr \o (u \o x)
    BY <2>4, ConcatEmptySeq
  <2> QED
    BY <2>1, <2>2, <2>3, <2>5 DEF Assoc, u
<1> QED
  BY <1>2, <1>4, <1>5, SameComing DEF Whole

LEMMA ScanStep ==
    ASSUME Whole, Scan PROVE Whole'
<1> DEFINE u == Unread(vRecv)
           x == wire \o Ready
           start == MessageStart(u)
           s == erase(vRecv, Max({0, size(vRecv) - HeaderSize}))
           found == read(erase(vRecv, start), HeaderSize)
<1>1. /\ loop = "scan" /\ delivered' = delivered
      /\ IF size(vRecv) - start < HeaderSize THEN Break(s)
         ELSE /\ hdr' = found.bytes /\ vRecv' = found.rest /\ loop' = "read"
              /\ UNCHANGED <<sendVars, wire, damaged>>
  BY DEF Scan
<1>2. /\ vRecv \in StreamOf(Byte) /\ u \in Seq(Byte) /\ size(vRecv) = Len(u) /\ size(vRecv) \in Nat
      /\ hdr = <<>> /\ Coming = u \o x /\ x \in Seq(Byte)
  BY <1>1, NoHeader, ComingIs, UnreadIs DEF Whole, Receiving
<1> HIDE DEF x
<1>3. erase(vRecv, 0) \in StreamOf(Byte) /\ Unread(erase(vRecv, 0)) = u
  <2>1. Drop(u, 0) = u
    BY <1>2, DropNone
  <2>2. 0 \in Nat /\ 0 <= size(vRecv)
    BY <1>2
  <2> QED
    BY <1>2, <2>1, <2>2, IgnoreIs
<1>4. CASE size(vRecv) < HeaderSize
  <2>1. Break(s)
    BY <1>1, <1>4, FoundAtOnce
  <2>2. Max({0, size(vRecv) - HeaderSize}) = 0
    BY <1>2, <1>4, HeaderIs DEF Max
  <2>3. s \in StreamOf(Byte) /\ Unread(s) = u
    BY <1>3, <2>2
  <2>4. hdr \o Unread(vRecv) = Unread(s)
    BY <1>2, <2>3, ConcatEmptySeq
  <2> HIDE DEF s
  <2> QED
    BY <1>1, <2>1, <2>3, <2>4, BreakStep
<1>5. CASE ~(size(vRecv) < HeaderSize)
  <2>1. start = 0
    BY <1>1, <1>2, <1>5, HeaderIs, FoundAtOnce
  <2>2. /\ hdr' = found.bytes /\ vRecv' = found.rest /\ loop' = "read"
        /\ UNCHANGED sendVars /\ wire' = wire
    BY <1>1, <1>2, <1>5, <2>1, HeaderIs
  <2> DEFINE e == erase(vRecv, 0)
  <2>3. hdr' = Take(Unread(e), 5) /\ vRecv' = ignore(e, 5)
    BY <2>1, <2>2, HeaderIs DEF read, Take
  <2>4. e \in StreamOf(Byte) /\ Unread(e) = u
    BY <1>3
  <2> HIDE DEF e
  <2>5. 5 <= size(e) /\ 5 <= Len(u) /\ 5 \in Nat
    <3>1. size(e) = Len(u)
      BY <2>4, UnreadIs
    <3>2. HeaderSize = 5
      BY HeaderIs
    <3> HIDE DEF u
    <3> QED
      BY <1>2, <1>5, <3>1, <3>2
  <2>6. vRecv' \in StreamOf(Byte) /\ Unread(vRecv') = Drop(u, 5)
    BY <2>3, <2>4, <2>5, IgnoreIs
  <2> HIDE DEF u
  <2>7. /\ Take(u, 5) \in Seq(Byte) /\ Drop(u, 5) \in Seq(Byte) /\ Len(Take(u, 5)) = 5
        /\ u = Take(u, 5) \o Drop(u, 5)
    BY <1>2, <2>5, Split
  <2>8. Sending' /\ Ready' = Ready /\ sent' = sent
    BY <2>2, SenderRests DEF Whole
  <2>9. hdr' \in Seq(Byte) /\ Len(hdr') = 5 /\ Unread(vRecv') \in Seq(Byte)
        /\ u = hdr' \o Unread(vRecv')
    BY <2>3, <2>4, <2>6, <2>7
  <2>10. Receiving'
    BY <1>1, <2>2, <2>6, <2>8, <2>9, HeaderIs DEF Whole, Receiving
  <2>11. Coming' = Coming
    <3>1. Assoc(hdr', Unread(vRecv'), x)
      BY <1>2, <2>9, AssocIs
    <3> QED
      BY <1>2, <2>2, <2>8, <2>9, <3>1 DEF Assoc, Coming, x
  <2> QED
    BY <1>1, <2>8, <2>10, <2>11, SameComing DEF Whole
<1> QED
  BY <1>4, <1>5

\* No header that was sent is refused.
LEMMA HeaderValid == ASSUME Whole, loop = "read" PROVE IsValid(hdr)
<1>1. PICK m \in Message : hdr = HeaderOf(m)
  BY HeaderRead
<1> QED
  BY <1>1, MessageIs DEF IsValid, HeaderOf, SizeAt

LEMMA WaitStep ==
    ASSUME Whole, WaitForData PROVE Whole'
<1>1. loop = "read" /\ Break(insert(vRecv, hdr)) /\ delivered' = delivered
  BY DEF WaitForData
<1>2. /\ vRecv \in StreamOf(Byte) /\ hdr \in Seq(Byte) /\ hdr # <<>>
  BY <1>1, HeaderIs, EmptySeq DEF Whole, Receiving
<1>3. /\ insert(vRecv, hdr) \in StreamOf(Byte)
      /\ Unread(insert(vRecv, hdr)) = hdr \o Unread(vRecv)
  BY <1>2, InsertIs
<1> QED
  BY <1>1, <1>3, BreakStep

\* What is given to ProcessMessage is the next message.
LEMMA ProcessStep ==
    ASSUME Whole, ProcessMessage
    PROVE  Whole'
<1> DEFINE u == Unread(vRecv)
           x == wire \o Ready
           vMsg == SubSeq(u, 1, nMessageSize)
<1>1. /\ loop = "read" /\ nMessageSize <= size(vRecv)
      /\ delivered' = IF hdr[ChecksumAt + 1] = Checksum(vMsg) THEN Append(delivered, vMsg) ELSE delivered
      /\ vRecv' = ignore(vRecv, nMessageSize) /\ loop' = "scan" /\ hdr' = <<>>
      /\ UNCHANGED sendVars /\ wire' = wire
  BY DEF ProcessMessage, Continue
<1>2. PICK m \in Message, tail \in Seq(Message), rest \in Seq(Byte) :
         /\ sent = delivered \o (Unit(m) \o tail) /\ hdr = HeaderOf(m)
         /\ u \o x = m \o rest
         /\ Frames(rest, tail)
  BY <1>1, HeaderRead
<1> DEFINE n == Len(m)
<1>3. nMessageSize = n /\ hdr[ChecksumAt + 1] = Checksum(m)
  BY <1>2 DEF nMessageSize, HeaderOf, SizeAt, ChecksumAt
<1>4. /\ vRecv \in StreamOf(Byte) /\ u \in Seq(Byte) /\ size(vRecv) = Len(u) /\ size(vRecv) \in Nat
      /\ x \in Seq(Byte) /\ delivered \in Seq(Message)
  BY ComingIs, UnreadIs DEF Whole, Receiving
<1>5. n \in Nat /\ n <= size(vRecv) /\ n <= Len(u) /\ m \in Seq(Byte)
  BY <1>1, <1>3, <1>4, MessageIs
<1> HIDE DEF u, x, n
<1> DEFINE a == Take(u, n)
           b == Drop(u, n)
<1>6. a \in Seq(Byte) /\ b \in Seq(Byte) /\ Len(a) = n /\ u = a \o b
  BY <1>4, <1>5, Split, ZenonT(60)
<1>7. vRecv' \in StreamOf(Byte) /\ Unread(vRecv') = b
  <2>1. vRecv' = ignore(vRecv, n)
    BY <1>1, <1>3
  <2> QED
    BY <1>4, <1>5, <2>1, IgnoreIs DEF u
<1>8. vMsg = a
  BY <1>3 DEF Take
<1> HIDE DEF a, b
<1>9. a = m /\ b \o x = rest
  <2>1. Assoc(a, b, x)
    BY <1>4, <1>6, AssocIs
  <2>2. b \o x \in Seq(Byte)
    BY <1>4, <1>6, ConcatProperties
  <2> DEFINE y == b \o x
  <2>3. a \o y = m \o rest /\ Len(a) = Len(m)
    BY <1>2, <1>6, <2>1 DEF Assoc, n
  <2> HIDE DEF y
  <2>4. y \in Seq(Byte)
    BY <2>2 DEF y
  <2>5. a = m /\ y = rest
    BY <1>5, <1>6, <2>3, <2>4, SplitOnce
  <2> QED
    BY <2>5 DEF y
<1>10. delivered' = delivered \o Unit(m)
  <2>1. delivered' = Append(delivered, m)
    BY <1>1, <1>3, <1>8, <1>9
  <2> QED
    BY <1>4, <2>1 DEF Unit
<1>11. Sending' /\ Ready' = Ready /\ sent' = sent
  BY <1>1, SenderRests DEF Whole
<1>12. Receiving'
  <2>1. delivered' \in Seq(Message)
    BY <1>4, <1>10, MessageIs, ConcatProperties
  <2> QED
    BY <1>1, <1>7, <1>11, <2>1, EmptySeq DEF Whole, Receiving
<1>13. Coming' = rest
  <2>1. Coming' = <<>> \o (b \o x)
    BY <1>1, <1>7, <1>11 DEF Coming, x
  <2> QED
    BY <1>9, <2>1, ConcatEmptySeq
<1>14. sent' = delivered' \o tail
  <2>1. Unit(m) \in Seq(Message)
    BY MessageIs
  <2>2. Assoc(delivered, Unit(m), tail)
    BY <1>4, <2>1, AssocIs
  <2> QED
    BY <1>2, <1>10, <1>11, <2>2 DEF Assoc
<1>15. InOrder'
  BY <1>2, <1>13, <1>14 DEF InOrder
<1> QED
  BY <1>11, <1>12, <1>15 DEF Whole

-----------------------------------------------------------------------------
(* The invariant                                                           *)

LEMMA StartsWhole == ASSUME Init PROVE Whole
<1>1. Empty \in StreamOf(Byte) /\ Unread(Empty) = <<>>
  BY EmptyIs
<1>2. Ready = <<>>
  BY <1>1 DEF Init, Ready
<1>3. <<>> \in Seq(Byte) /\ <<>> \in Seq(Message) /\ Len(<<>>) = 0
  BY EmptySeq
<1>4. Sending
  BY <1>1 DEF Init, Sending
<1>5. Receiving
  BY <1>1, <1>3 DEF Init, Receiving
<1>6. Coming = <<>>
  <2>1. Coming = <<>> \o (<<>> \o (<<>> \o <<>>))
    BY <1>1, <1>2 DEF Init, Coming
  <2> QED
    BY <1>3, <2>1, ConcatEmptySeq
<1>7. sent = delivered \o <<>>
  <2>1. sent = <<>> /\ delivered = <<>>
    BY DEF Init
  <2> QED
    BY <1>3, <2>1, ConcatEmptySeq
<1>8. InOrder
  BY <1>3, <1>6, <1>7, NoFrames DEF InOrder
<1> QED
  BY <1>4, <1>5, <1>8 DEF Whole

\* A step of the sender that leaves what is ready, and the receiver, alone.
LEMMA ReceiverRests ==
    ASSUME Whole, Sending', Ready' = Ready, sent' = sent, UNCHANGED <<wire, recvVars>>
    PROVE  Whole'
<1>1. Receiving'
  BY DEF Whole, Receiving, recvVars
<1>2. Coming' = Coming /\ delivered' = delivered
  BY DEF Coming, recvVars
<1> QED
  BY <1>1, <1>2, SameComing DEF Whole

LEMMA WholeKept ==
    ASSUME Whole, [Next]_vars, damaged \in Nat, damaged' = damaged
    PROVE  Whole'
<1>1. ASSUME NEW t \in Threads, BeginMessage(t) PROVE Whole'
  <2>1. Sending' /\ Ready' = Ready
    BY <1>1, BeginStep
  <2>2. sent' = sent /\ UNCHANGED <<wire, recvVars>>
    BY <1>1 DEF BeginMessage
  <2> QED
    BY <2>1, <2>2, ReceiverRests
<1>2. ASSUME NEW t \in Threads, PushArgument(t) PROVE Whole'
  <2>1. Sending' /\ Ready' = Ready
    BY <1>2, PushStep
  <2>2. sent' = sent /\ UNCHANGED <<wire, recvVars>>
    BY <1>2 DEF PushArgument
  <2> QED
    BY <2>1, <2>2, ReceiverRests
<1>3. ASSUME NEW t \in Threads, EndMessage(t) PROVE Whole'
  <2>1. PICK m \in Message : Sending' /\ Ready' = Ready \o Frame(m) /\ sent' = sent \o Unit(m)
    BY <1>3, EndStep
  <2>2. UNCHANGED <<wire, recvVars>>
    BY <1>3 DEF EndMessage, Closed
  <2>3. InOrder'
    BY <2>1, <2>2, OneMoreComing
  <2>4. sent' \in Seq(Message)
    <3>1. sent \in Seq(Message) /\ Unit(m) \in Seq(Message)
      BY MessageIs DEF Whole, Receiving
    <3> QED
      BY <2>1, <3>1, ConcatProperties
  <2>5. Receiving'
    BY <2>2, <2>4 DEF Whole, Receiving, recvVars
  <2> QED
    BY <2>1, <2>3, <2>5 DEF Whole
<1>4. ASSUME NEW t \in Threads, AbortMessage(t) PROVE Whole'
  <2>1. Sending' /\ Ready' = Ready
    BY <1>4, AbortStep
  <2>2. sent' = sent /\ UNCHANGED <<wire, recvVars>>
    BY <1>4 DEF AbortMessage, Closed
  <2> QED
    BY <2>1, <2>2, ReceiverRests
<1>5. CASE SocketSend
  <2>1. Sending' /\ wire' \in Seq(Byte) /\ wire' \o Ready' = wire \o Ready
    BY <1>5, SendStep
  <2>2. sent' = sent /\ UNCHANGED recvVars
    BY <1>5 DEF SocketSend
  <2>3. Receiving'
    BY <2>1, <2>2 DEF Whole, Receiving, recvVars
  <2>4. Coming' = Coming /\ delivered' = delivered
    BY <2>1, <2>2 DEF Coming, recvVars
  <2> QED
    BY <2>1, <2>2, <2>3, <2>4, SameComing DEF Whole
<1>6. CASE Damaged
  <2>1. damaged' = damaged + 1
    BY <1>6 DEF Damaged
  <2> QED
    BY <2>1
<1>7. CASE UNCHANGED vars
  <2>1. UNCHANGED sendVars /\ UNCHANGED <<wire, recvVars>>
    BY <1>7 DEF vars, sendVars, recvVars
  <2>2. Sending' /\ Ready' = Ready /\ sent' = sent
    BY <2>1, SenderRests DEF Whole
  <2> QED
    BY <2>1, <2>2, ReceiverRests
<1>8. ~HeaderFails
  BY HeaderValid DEF HeaderFails
<1> QED
  BY <1>1, <1>2, <1>3, <1>4, <1>5, <1>6, <1>7, <1>8,
     ReceiveStep, EnterStep, ScanStep, WaitStep, ProcessStep DEF Next

\* The counters keep to their bounds, and a damaged byte stays counted.
LEMMA Counted ==
    ASSUME begun \in 0 .. MaxPushed, damaged \in 0 .. MaxDamaged, [Next]_vars
    PROVE  /\ begun' \in 0 .. MaxPushed /\ damaged' \in 0 .. MaxDamaged
           /\ damaged' = damaged \/ damaged' = damaged + 1
<1> USE MessagesAssumption
<1>1. ASSUME NEW t \in Threads, BeginMessage(t)
      PROVE  begun' = begun + 1 /\ begun' <= MaxPushed /\ damaged' = damaged
  BY <1>1 DEF BeginMessage
<1>2. ASSUME Damaged PROVE damaged' = damaged + 1 /\ damaged' <= MaxDamaged /\ begun' = begun
  BY <1>2 DEF Damaged, sendVars
<1>3. ASSUME NEW t \in Threads, PushArgument(t) \/ EndMessage(t) \/ AbortMessage(t)
      PROVE  UNCHANGED <<begun, damaged>>
  BY <1>3 DEF PushArgument, EndMessage, AbortMessage, Closed
<1>4. ASSUME SocketSend \/ SocketReceive \/ ProcessMessages \/ Scan \/ HeaderFails
             \/ WaitForData \/ ProcessMessage \/ UNCHANGED vars
      PROVE  UNCHANGED <<begun, damaged>>
  BY <1>4 DEF SocketSend, SocketReceive, ProcessMessages, Scan, HeaderFails, WaitForData,
              ProcessMessage, Break, Continue, sendVars, vars
<1> QED
  BY <1>1, <1>2, <1>3, <1>4 DEF Next

(* Until a byte is damaged, the bytes between the two ends are exactly the *)
(* messages that were pushed and not yet handled: PushMessage's lock, the  *)
(* cuts the sockets make and the loop of ProcessMessages, which puts a     *)
(* header back whose data has not come, keep every one of them whole.      *)
THEOREM FramingInvariant == Spec => []MessagesIInv
<1>1. Init => MessagesIInv
  <2> SUFFICES ASSUME Init PROVE MessagesIInv
    OBVIOUS
  <2>1. begun \in 0 .. MaxPushed /\ damaged \in 0 .. MaxDamaged
    BY MessagesAssumption DEF Init
  <2> QED
    BY <2>1, StartsWhole DEF MessagesIInv
<1>2. MessagesIInv /\ [Next]_vars => MessagesIInv'
  <2> SUFFICES ASSUME MessagesIInv, [Next]_vars PROVE MessagesIInv'
    OBVIOUS
  <2>1. /\ begun' \in 0 .. MaxPushed /\ damaged' \in 0 .. MaxDamaged
        /\ damaged' = damaged \/ damaged' = damaged + 1
    BY Counted DEF MessagesIInv
  <2>2. damaged \in Nat
    BY MessagesAssumption DEF MessagesIInv
  <2>3. ASSUME damaged' = 0 PROVE Whole'
    <3>1. damaged' = damaged /\ damaged = 0
      BY <2>1, <2>2, <2>3
    <3>2. Whole
      BY <3>1 DEF MessagesIInv
    <3> QED
      BY <2>2, <3>1, <3>2, WholeKept
  <2> QED
    BY <2>1, <2>3 DEF MessagesIInv
<1> QED
  BY <1>1, <1>2, PTL DEF Spec

\* What is delivered is a beginning of what was sent.
LEMMA DeliveredIs ==
    ASSUME Whole
    PROVE  IsPrefix(delivered, sent) /\ SubSequence(delivered, sent)
<1>1. PICK todo \in Seq(Message) : sent = delivered \o todo
  BY DEF Whole, InOrder
<1>2. delivered \in Seq(Message)
  BY DEF Whole, Receiving
<1>3. /\ Len(sent) = Len(delivered) + Len(todo) /\ Len(delivered) \in Nat /\ Len(todo) \in Nat
      /\ \A i \in 1 .. Len(delivered) : sent[i] = delivered[i]
      /\ DOMAIN delivered = 1 .. Len(delivered) /\ sent \in Seq(Message)
      /\ DOMAIN sent = 1 .. Len(sent)
  BY <1>1, <1>2, ConcatProperties, LenProperties
<1>4. Take(sent, Len(delivered)) = delivered
  BY <1>1, <1>2, Joined
<1>5. SubSeq(delivered, 1, Len(delivered)) = delivered
  BY <1>2, SubSeqFull
<1>6. IsPrefix(delivered, sent)
  BY <1>3, <1>4, <1>5 DEF IsPrefix, Take
<1>7. SubSequence(delivered, sent)
  <2> DEFINE f == [i \in DOMAIN delivered |-> i]
  <2>1. f \in [DOMAIN delivered -> DOMAIN sent]
    BY <1>3
  <2>2. /\ \A i, j \in DOMAIN delivered : i < j => f[i] < f[j]
        /\ \A i \in DOMAIN delivered : delivered[i] = sent[f[i]]
    BY <1>3
  <2> HIDE DEF f
  <2> QED
    BY <2>1, <2>2 DEF SubSequence
<1> QED
  BY <1>6, <1>7

LEMMA WholeTypes ==
    ASSUME Whole
    PROVE  /\ StreamType(vSend) /\ StreamType(vRecv)
           /\ owner # NoThread => /\ nHeaderStart \in 0 .. size(vSend)
                                  /\ nMessageStart = nHeaderStart + HeaderSize
                                  /\ nMessageStart <= size(vSend)
<1>1. ASSUME NEW s \in StreamOf(Byte) PROVE StreamType(s)
  <2>1. s.nReadPos \in Nat /\ Len(s.vch) \in Nat /\ s.nReadPos <= Len(s.vch)
    BY StreamIs
  <2> QED
    BY <2>1 DEF StreamType, StreamOf
<1>2. ASSUME owner # NoThread
      PROVE  /\ nHeaderStart \in 0 .. size(vSend) /\ nMessageStart = nHeaderStart + HeaderSize
             /\ nMessageStart <= size(vSend)
  <2>1. PICK data \in Message : Unread(vSend) = Ready \o (Header \o data)
    BY <1>2 DEF Whole, Sending
  <2>2. /\ Ready \in Seq(Byte) /\ Len(Ready) = nHeaderStart /\ nHeaderStart \in Nat
        /\ size(vSend) = Len(Unread(vSend)) /\ size(vSend) \in Nat
    BY <1>2, ReadyIs DEF Whole
  <2>3. Header \in Seq(Byte) /\ Len(Header) = HeaderSize /\ data \in Seq(Byte) /\ Len(data) \in Nat
    BY HeaderIs, MessageIs
  <2>4. Header \o data \in Seq(Byte) /\ Len(Header \o data) = HeaderSize + Len(data)
    BY <2>3, ConcatProperties
  <2>5. size(vSend) = nHeaderStart + (HeaderSize + Len(data))
    <3> DEFINE h == Header \o data
    <3>1. h \in Seq(Byte)
      BY <2>4
    <3> HIDE DEF h
    <3>2. Len(Ready \o h) = Len(Ready) + Len(h)
      BY <2>2, <3>1, ConcatProperties
    <3> QED
      BY <2>1, <2>2, <2>4, <3>2 DEF h
  <2> QED
    BY <1>2, <2>2, <2>3, <2>5 DEF Whole, Sending, HeaderSize
<1> QED
  BY <1>1, <1>2 DEF Whole, Sending, Receiving

(* However the bytes are cut on their way, and whatever several threads    *)
(* push, ProcessMessage is given the messages of EndMessage in the order   *)
(* they were ended, with none left out, changed or made up, and both       *)
(* streams and the open message keep their types, as long as no byte has   *)
(* been damaged.                                                           *)
THEOREM DeliveredWhole == Spec => [](damaged = 0 => MessagesInv)
<1>1. MessagesIInv => (damaged = 0 => MessagesInv)
  <2> SUFFICES ASSUME MessagesIInv, damaged = 0 PROVE MessagesInv
    OBVIOUS
  <2>1. Whole
    BY DEF MessagesIInv
  <2>2. DeliveredInOrder
    BY <2>1, DeliveredIs DEF DeliveredInOrder
  <2>3. MessagesTypeOK
    BY <2>1, WholeTypes DEF MessagesTypeOK, MessagesIInv, Whole, Sending, Receiving
  <2> QED
    BY <2>2, <2>3 DEF MessagesInv
<1> QED
  BY <1>1, FramingInvariant, PTL

=============================================================================
