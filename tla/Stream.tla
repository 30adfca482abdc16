------------------------------- MODULE Stream -------------------------------
(***************************************************************************)
(* CDataStream (src/serialize.h), the buffer of both directions of a       *)
(* connection: a vector of bytes and the position up to which it has been  *)
(* read.  Reading and erasing at the front move the position instead of    *)
(* the bytes; the vector is emptied when the position reaches its end, and *)
(* Compact drops what has been read.  A stream's value to its users is     *)
(* what has not been read, Unread(s); every operation is stated here by    *)
(* what it does to the two fields.                                         *)
(***************************************************************************)
EXTENDS Integers, Sequences

Empty == [vch |-> <<>>, nReadPos |-> 0]

Unread(s) == SubSeq(s.vch, s.nReadPos + 1, Len(s.vch))      \* begin() .. end()
size(s) == Len(s.vch) - s.nReadPos

(* Writing goes to the end of the vector; resize counts from the position. *)
write(s, bytes) == [s EXCEPT !.vch = @ \o bytes]
truncate(s, n) == [s EXCEPT !.vch = SubSeq(@, 1, n + s.nReadPos)]
put(s, i, byte) == [s EXCEPT !.vch[s.nReadPos + i + 1] = byte]

(* Erasing the first n unread bytes: to the end of the vector it empties   *)
(* the vector, otherwise only the position moves.                          *)
erase(s, n) == IF s.nReadPos + n = Len(s.vch) THEN Empty
               ELSE [s EXCEPT !.nReadPos = @ + n]

\* Mutant of ignore: the end is not taken for one.
ignorePast(s, n) == IF s.nReadPos + n > Len(s.vch) THEN Empty
                    ELSE [s EXCEPT !.nReadPos = @ + n]

(* read and ignore, for a stream that holds the n bytes: as for erase, the *)
(* vector is emptied when its end is reached.                              *)
ignore(s, n) == IF s.nReadPos + n >= Len(s.vch) THEN Empty
                ELSE [s EXCEPT !.nReadPos = @ + n]
read(s, n) == [bytes |-> SubSeq(Unread(s), 1, n), rest |-> ignore(s, n)]

(* insert at the front: into the room that reading has left, if it is      *)
(* enough, otherwise by moving the vector.                                 *)
insert(s, bytes) ==
    LET n == Len(bytes)
        at == s.nReadPos - n
    IN  IF n <= s.nReadPos
        THEN [vch |-> SubSeq(s.vch, 1, at) \o bytes \o Unread(s), nReadPos |-> at]
        ELSE [s EXCEPT !.vch = SubSeq(@, 1, s.nReadPos) \o bytes \o Unread(s)]

Compact(s) == [vch |-> Unread(s), nReadPos |-> 0]
=============================================================================
