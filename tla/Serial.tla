-------------------------------- MODULE Serial --------------------------------
(***************************************************************************)
(* Structures as bytes: the templates of serialize.h, which are put        *)
(* together to sizes, writers and readers of whole transactions and        *)
(* blocks.  A reader gives back the value it finds at the front of the     *)
(* bytes, as n, and what follows it; it fails when the bytes end too soon. *)
(***************************************************************************)
EXTENDS Numbers

CONSTANT FieldLength  \* bytes of a string of fixed length

ASSUME SerialAssumption == FieldLength \in Nat \ {0}

Found(n, rest) == [ok |-> TRUE, n |-> n, rest |-> rest]
As(found, F(_)) == IF found.ok THEN [found EXCEPT !.n = F(@)] ELSE Failed

\* What is copied as it is in memory.
ReadFlat(size, s) ==
    IF Len(s) < size THEN Failed
    ELSE Found(SubSeq(s, 1, size), SubSeq(s, size + 1, Len(s)))
WriteInt(size, n) == Fixed(Base, n, size)
ReadInt(size, s) == As(ReadFlat(size, s), Value)

\* A string in a field of fixed length ends at its first zero.
CString(str) == IF \E i \in 1..Len(str) : str[i] = 0
                THEN SubSeq(str, 1, (CHOOSE i \in 1..Len(str) :
                                        str[i] = 0 /\ \A j \in 1..(i - 1) : str[j] # 0) - 1)
                ELSE str
WriteField(str) ==
    [i \in 1..FieldLength |-> IF i <= Len(CString(str)) THEN str[i] ELSE 0]
ReadField(s) == As(ReadFlat(FieldLength, s), CString)

\* Strings, vectors of bytes, scripts.
SizeString(str) == GetSizeOfCompactSize(Len(str)) + Len(str)
WriteString(str) == WriteCompactSize(Len(str)) \o str

\* Mutant of ReadString: as much as there is.
ReadStringThere(s) ==
    LET size == ReadCompactSize(s)
    IN  IF size.ok THEN ReadFlat(Min({size.n, Len(size.rest)}), size.rest) ELSE Failed

ReadString(s) ==
    LET size == ReadCompactSize(s)
    IN  IF size.ok THEN ReadFlat(size.n, size.rest) ELSE Failed

\* size values, one after the other.
ReadItems(Read(_), size, s) ==
    LET Next(found, i) ==
            LET item == Read(found.rest)
            IN  IF found.ok /\ item.ok THEN Found(Append(found.n, item.n), item.rest)
                ELSE Failed
    IN  FoldLeft(Next, Found(<<>>, s), [i \in 1..size |-> i])

Total(sizes) == FoldLeft(LAMBDA sum, n : sum + n, 0, sizes)

\* Vectors, of items of which the sizes or the bytes are known.
SizeVector(sizes) == GetSizeOfCompactSize(Len(sizes)) + Total(sizes)
WriteVector(items) ==
    FoldLeft(LAMBDA bytes, item : bytes \o item, WriteCompactSize(Len(items)), items)
ReadVector(Read(_), s) ==
    LET size == ReadCompactSize(s)
    IN  IF size.ok THEN ReadItems(Read, size.n, size.rest) ELSE Failed

\* Two values, and so the fields of a structure.
ReadPair(ReadK(_), ReadT(_), s) ==
    LET k == ReadK(s)
        t == ReadT(k.rest)
    IN  IF k.ok /\ t.ok THEN Found(<<k.n, t.n>>, t.rest) ELSE Failed

\* Maps of numbers to numbers, which are written in order, as pairs; of equal keys the first
\* is kept.
Entries(m) == LET keys == SetToSortSeq(DOMAIN m, <)
              IN  [i \in 1..Len(keys) |-> <<keys[i], m[keys[i]]>>]
SizePair(p) == 2 + 4
WritePair(p) == WriteInt(2, p[1]) \o WriteInt(4, p[2])
ReadEntry(s) == ReadPair(LAMBDA r : ReadInt(2, r), LAMBDA r : ReadInt(4, r), s)
SizeMap(m) == SizeVector([i \in 1..Len(Entries(m)) |-> SizePair(Entries(m)[i])])
WriteMap(m) == WriteVector([i \in 1..Len(Entries(m)) |-> WritePair(Entries(m)[i])])
ReadMap(s) ==
    As(ReadVector(ReadEntry, s),
       LAMBDA items : FoldLeft(LAMBDA m, p : m @@ (p[1] :> p[2]), <<>>, items))

\* Sets of numbers, in order.
SizeSet(m) == SizeVector([i \in 1..Cardinality(m) |-> 2])
WriteSet(m) ==
    LET items == SetToSortSeq(m, <)
    IN  WriteVector([i \in 1..Len(items) |-> WriteInt(2, items[i])])
ReadSet(s) == As(ReadVector(LAMBDA r : ReadInt(2, r), s), ToSet)
=============================================================================
