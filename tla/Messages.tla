------------------------------ MODULE Messages ------------------------------
(***************************************************************************)
(* One direction of a connection, from PushMessage on one node to          *)
(* ProcessMessage on the other (src/net.h, src/net.cpp, src/main.cpp).     *)
(* Several threads push messages into vSend under cs_vSend; the socket     *)
(* thread of the sender moves bytes from vSend to the socket whenever it   *)
(* gets the lock, any number at a time; the socket thread of the receiver  *)
(* moves them to vRecv under cs_vRecv; and the receiver's message thread   *)
(* finds the messages in vRecv again.  A byte may be damaged on the way,   *)
(* which the header's checks and the checksum are there to notice.         *)
(*                                                                         *)
(* A byte is a number.  The start string has two bytes, the command, the   *)
(* size and the checksum one each, and the checksum of data is a number of *)
(* its own for every data (collisions of a 32-bit checksum are left out).  *)
(***************************************************************************)
EXTENDS Stream, SequencesExt

CONSTANTS Threads,      \* the sender's threads that push messages
          Arguments,    \* what an argument is written as
          MaxData,      \* bounds the bytes behind which another is written
          TooLarge,     \* sizes above this are errors (0x10000000)
          MaxPushed,    \* bounds the messages begun
          MaxDamaged,   \* bounds the bytes damaged in transit
          MaxWire       \* what the socket holds

VARIABLES vSend,          \* the sender's stream
          owner,          \* the thread that holds cs_vSend, or NoThread
          nHeaderStart,   \* where the message being pushed begins in vSend, or -1
          nMessageStart,  \* and where its data begins
          wire,           \* the bytes the socket has taken and not yet given
          vRecv,          \* the receiver's stream
          loop,           \* where ProcessMessages is: "out", it does not hold
                          \* cs_vRecv; "scan", before a header; "read", behind it
          hdr,            \* the header it has read
          sent,           \* the messages ended, in order
          delivered,      \* the messages given to ProcessMessage, in order
          begun, damaged  \* count what the bounds limit

vars == <<vSend, owner, nHeaderStart, nMessageStart, wire, vRecv, loop, hdr,
          sent, delivered, begun, damaged>>
sendVars == <<vSend, owner, nHeaderStart, nMessageStart, sent, begun>>
recvVars == <<vRecv, loop, hdr, delivered>>

NoThread == "none"
-----------------------------------------------------------------------------
(* The message header.                                                     *)
Start1 == 8
Start2 == 9
Command == 1                      \* a command of printable characters
HeaderSize == 5
SizeAt == 3                       \* offsetof nMessageSize
ChecksumAt == 4                   \* offsetof nChecksum

Checksum(data) == FoldLeft(LAMBDA sum, byte : 16 * sum + byte, 16, data)
Header == <<Start1, Start2, Command, 0, 0>>
Damage == {Command, 0, TooLarge, Start1, Start2}    \* what a byte may become

IsValid(h) == h[3] = Command /\ h[SizeAt + 1] <= TooLarge

(* No message is so large that its header would be refused: nothing in     *)
(* PushMessage sees to it, the callers push blocks, transactions and lists *)
(* of limited length.                                                      *)
ASSUME MessagesAssumption ==
    /\ Threads # {} /\ NoThread \notin Threads
    /\ Arguments \subseteq Seq(Nat)
    /\ MaxData \in Nat /\ TooLarge \in Nat /\ MaxPushed \in Nat /\ MaxDamaged \in Nat
    /\ \A a \in Arguments : MaxData + Len(a) <= TooLarge + 1
    /\ MaxWire \in Nat \ {0}

(* search: the bytes before the first start string, all if there is none.  *)
MessageStart(bytes) ==
    LET at == {i \in 1 .. Len(bytes) - 1 : bytes[i] = Start1 /\ bytes[i + 1] = Start2}
    IN  IF at = {} THEN Len(bytes) ELSE Min(at) - 1
-----------------------------------------------------------------------------
Init == /\ vSend = Empty /\ vRecv = Empty /\ wire = <<>>
        /\ owner = NoThread /\ nHeaderStart = -1 /\ nMessageStart = -1
        /\ loop = "out" /\ hdr = <<>>
        /\ sent = <<>> /\ delivered = <<>>
        /\ begun = 0 /\ damaged = 0

(* PushMessage: BeginMessage takes cs_vSend and writes a header without    *)
(* size and checksum, each argument is written behind it, and EndMessage   *)
(* fills in the two and leaves cs_vSend.  (BeginMessage would abort a      *)
(* message of the same thread that is still open; no caller nests them.)   *)
BeginMessage(t) ==
    /\ owner = NoThread /\ begun < MaxPushed
    /\ owner' = t
    /\ nHeaderStart' = size(vSend)
    /\ vSend' = write(vSend, Header)
    /\ nMessageStart' = size(vSend')
    /\ begun' = begun + 1
    /\ UNCHANGED <<wire, recvVars, sent, damaged>>

Pushed == SubSeq(Unread(vSend), nMessageStart + 1, size(vSend))

PushArgument(t) ==
    /\ owner = t /\ Len(Pushed) < MaxData
    /\ \E a \in Arguments : vSend' = write(vSend, a)
    /\ UNCHANGED <<owner, nHeaderStart, nMessageStart, wire, recvVars, sent, begun, damaged>>

Closed(s) == /\ vSend' = s
             /\ owner' = NoThread /\ nHeaderStart' = -1 /\ nMessageStart' = -1
             /\ UNCHANGED <<wire, recvVars, begun, damaged>>

EndMessage(t) ==
    /\ owner = t
    /\ Closed(put(put(vSend, nHeaderStart + SizeAt, size(vSend) - nMessageStart),
                  nHeaderStart + ChecksumAt, Checksum(Pushed)))
    /\ sent' = Append(sent, Pushed)

(* An argument whose serialization throws: the stream is cut back to where *)
(* the message began.                                                      *)
AbortMessage(t) ==
    /\ owner = t
    /\ Closed(truncate(vSend, nHeaderStart))
    /\ UNCHANGED sent

(* ThreadSocketHandler2, sending: if cs_vSend is free, the socket takes    *)
(* some of the bytes, those it has room for at the most.  On the way a     *)
(* byte may be damaged.                                                    *)
SocketSend ==
    /\ owner = NoThread
    /\ \E n \in 1 .. size(vSend) :
          /\ Len(wire) + n <= MaxWire
          /\ wire' = wire \o SubSeq(Unread(vSend), 1, n)
          /\ vSend' = erase(vSend, n)
    /\ UNCHANGED <<owner, nHeaderStart, nMessageStart, sent, begun, recvVars, damaged>>

Damaged ==
    /\ damaged < MaxDamaged
    /\ \E i \in DOMAIN wire, byte \in Damage :
          byte # wire[i] /\ wire' = [wire EXCEPT ![i] = byte]
    /\ damaged' = damaged + 1
    /\ UNCHANGED <<sendVars, recvVars>>

Processing == loop # "out"        \* the message thread holds cs_vRecv

(* ThreadSocketHandler2, receiving: if cs_vRecv is free, what has come so  *)
(* far is put behind what is there.                                        *)
SocketReceive ==
    /\ ~Processing /\ wire # <<>>
    /\ vRecv' = write(vRecv, wire) /\ wire' = <<>>
    /\ UNCHANGED <<sendVars, loop, hdr, delivered, damaged>>
-----------------------------------------------------------------------------
(* ThreadMessageHandler2 takes cs_vRecv and calls ProcessMessages, which   *)
(* returns at once from an empty stream.  Each turn of its loop is a step  *)
(* that looks for a header and one that deals with the header it read.     *)
ProcessMessages ==
    /\ ~Processing /\ size(vRecv) > 0
    /\ loop' = "scan"
    /\ UNCHANGED <<sendVars, wire, vRecv, hdr, delivered, damaged>>

Break(s) == /\ vRecv' = Compact(s) /\ loop' = "out" /\ hdr' = <<>>
            /\ UNCHANGED <<sendVars, wire, damaged>>
Continue(s) == /\ vRecv' = s /\ loop' = "scan" /\ hdr' = <<>>
               /\ UNCHANGED <<sendVars, wire, damaged>>

\* Mutant of Scan: bytes that may begin a header are dropped.
ScanDropping ==
    /\ loop = "scan"
    /\ LET start == MessageStart(Unread(vRecv))
           found == read(erase(vRecv, start), HeaderSize)
       IN  IF size(vRecv) - start < HeaderSize
           THEN Break(erase(vRecv, start))
           ELSE /\ hdr' = found.bytes /\ vRecv' = found.rest /\ loop' = "read"
                /\ UNCHANGED <<sendVars, wire, damaged>>
    /\ UNCHANGED delivered

(* With no room for a header from the start string on, all but the last    *)
(* bytes, as many as a header has, are dropped.                            *)
Scan ==
    /\ loop = "scan"
    /\ LET start == MessageStart(Unread(vRecv))
           found == read(erase(vRecv, start), HeaderSize)
       IN  IF size(vRecv) - start < HeaderSize
           THEN Break(erase(vRecv, Max({0, size(vRecv) - HeaderSize})))
           ELSE /\ hdr' = found.bytes /\ vRecv' = found.rest /\ loop' = "read"
                /\ UNCHANGED <<sendVars, wire, damaged>>
    /\ UNCHANGED delivered

HeaderFails == /\ loop = "read" /\ ~IsValid(hdr)
               /\ Continue(vRecv)
               /\ UNCHANGED delivered

(* The data has not come yet: the header is put back.                      *)
nMessageSize == hdr[SizeAt + 1]

WaitForData == /\ loop = "read" /\ IsValid(hdr) /\ nMessageSize > size(vRecv)
               /\ Break(insert(vRecv, hdr))
               /\ UNCHANGED delivered

\* Mutant of ProcessMessage: the checksum is not compared.
ProcessMessageUnchecked ==
    /\ loop = "read" /\ IsValid(hdr) /\ nMessageSize <= size(vRecv)
    /\ delivered' = Append(delivered, SubSeq(Unread(vRecv), 1, nMessageSize))
    /\ Continue(ignore(vRecv, nMessageSize))

(* The data is copied to its own buffer, vMsg, and handled if the checksum *)
(* agrees.                                                                 *)
ProcessMessage ==
    /\ loop = "read" /\ IsValid(hdr) /\ nMessageSize <= size(vRecv)
    /\ LET vMsg == SubSeq(Unread(vRecv), 1, nMessageSize)
       IN  delivered' = IF hdr[ChecksumAt + 1] = Checksum(vMsg)
                        THEN Append(delivered, vMsg) ELSE delivered
    /\ Continue(ignore(vRecv, nMessageSize))

Next == \/ \E t \in Threads : \/ BeginMessage(t) \/ PushArgument(t)
                              \/ EndMessage(t) \/ AbortMessage(t)
        \/ SocketSend \/ Damaged \/ SocketReceive
        \/ ProcessMessages \/ Scan \/ HeaderFails \/ WaitForData \/ ProcessMessage

(* Every thread that holds a lock goes on.  The socket threads come by     *)
(* again and again (their select waits 50 ms) while the locks they try are *)
(* held for moments (the message thread sleeps 100 ms between its turns),  *)
(* so they find them free again and again: strong fairness.                *)
Fairness == /\ \A t \in Threads : WF_vars(EndMessage(t) \/ AbortMessage(t))
            /\ SF_vars(SocketSend) /\ SF_vars(SocketReceive)
            /\ WF_vars(ProcessMessages)
            /\ WF_vars(Scan \/ HeaderFails \/ WaitForData \/ ProcessMessage)

Spec == Init /\ [][Next]_vars /\ Fairness
-----------------------------------------------------------------------------
StreamType(s) == /\ s.nReadPos \in 0 .. Len(s.vch)
                 /\ s.vch # <<>> => s.nReadPos < Len(s.vch)

(* Both streams keep their read position inside the vector and empty the   *)
(* vector when it has been read; a message is open exactly while a thread  *)
(* holds cs_vSend, and its header and data lie within vSend.               *)
MessagesTypeOK ==
    /\ StreamType(vSend) /\ StreamType(vRecv)
    /\ owner \in Threads \cup {NoThread}
    /\ owner = NoThread => nHeaderStart = -1 /\ nMessageStart = -1
    /\ owner # NoThread => /\ nHeaderStart \in 0 .. size(vSend)
                           /\ nMessageStart = nHeaderStart + HeaderSize
                           /\ nMessageStart <= size(vSend)
    /\ loop \in {"out", "scan", "read"}
    /\ Len(hdr) = IF loop = "read" THEN HeaderSize ELSE 0
    /\ begun \in 0 .. MaxPushed /\ damaged \in 0 .. MaxDamaged

(* The loop of ProcessMessages and the locks of both ends keep messages    *)
(* whole: what is handled is what was pushed, in order and without a gap   *)
(* while no byte is damaged, however the bytes are cut on their way; and   *)
(* when one is, messages may be lost but none is changed, repeated or      *)
(* moved.                                                                  *)
SubSequence(s, t) ==
    \E f \in [DOMAIN s -> DOMAIN t] : /\ \A i, j \in DOMAIN s : i < j => f[i] < f[j]
                                      /\ \A i \in DOMAIN s : s[i] = t[f[i]]

DeliveredInOrder == /\ SubSequence(delivered, sent)
                    /\ damaged = 0 => IsPrefix(delivered, sent)

(* A message that was pushed is handled, unless a byte was damaged: no     *)
(* split of the stream leaves the receiver waiting for bytes it has.       *)
AllDelivered == \A n \in 1 .. MaxPushed :
                    Len(sent) >= n ~> Len(delivered) >= n \/ damaged > 0

(* The types, and nothing delivered that was not sent.                     *)
MessagesInv == MessagesTypeOK /\ DeliveredInOrder
=============================================================================
