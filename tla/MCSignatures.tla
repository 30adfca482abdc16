---------------------------- MODULE MCSignatures ----------------------------
(* Families of scripts, four coins that two people put together, and families of blocks,  *)
(* transactions, amounts and samples of the time.                                          *)
EXTENDS DataKept

Pushes(vs) == [i \in 1..Len(vs) |-> Push(vs[i])]
Ops(os) == [i \in 1..Len(os) |-> Op(os[i])]
SmallValues == {<<>>, <<1>>, <<2>>, <<3>>, <<4>>, <<5>>, <<7>>, <<0, 1>>, <<1, 4>>, <<5, 5>>}

\* Every instruction on the stack, with enough and with too little on it.
Stacks == {[i \in 1..n |-> <<i>>] : n \in 0..6}
StackScripts ==
    {Pushes(s) \o <<Op(o)>> : s \in Stacks,
        o \in (DOMAIN StackNeeds \cup {"OP_VERIFY", "OP_TOALTSTACK", "OP_FROMALTSTACK"})}
\* A place to copy or move from: in the middle, at either end, and beyond; and a value that is
\* no more than 0.
PlaceScripts ==
    {Pushes(s) \o <<Push(v), Op(o)>> : s \in Stacks,
        v \in {<<>>, <<0>>, <<1>>, <<2>>, <<5>>, <<4>>, <<0, 4>>}, o \in {"OP_PICK", "OP_ROLL", "OP_IFDUP"}}

TwoOps == Binary \cup {"OP_EQUAL", "OP_EQUALVERIFY", "OP_CAT", "OP_LEFT", "OP_RIGHT", "OP_AND",
                       "OP_OR", "OP_XOR"}
OneOps == Unary \cup {"OP_SIZE", "OP_INVERT", "OP_HASH160"}
ValueScripts ==
    {<<Push(v), Push(w), Op(o)>> : v, w \in SmallValues, o \in TwoOps}
        \cup {<<Push(v), Op(o)>> : v \in SmallValues, o \in OneOps}
        \cup {<<Push(<<1, 2, 0, 6, 5>>), Push(v), Push(w), Op(o)>> :
                 v, w \in SmallValues, o \in {"OP_SUBSTR", "OP_WITHIN"}}

\* Conditionals, well formed and not.
Conditional == {"OP_IF", "OP_NOTIF", "OP_ELSE", "OP_ENDIF", "OP_1"}
ConditionalScripts ==
    {<<Push(v), Op("OP_1")>> \o Ops(o) \o <<Op("OP_1")>> :
        v \in {<<>>, <<1>>}, o \in [1..5 -> Conditional]}
OtherScripts ==
    {Ops(o) : o \in {<<"OP_3", "OP_VERIF", "OP_RESERVED", "OP_ELSE", "OP_VER", "OP_ENDIF">>,
                     <<"OP_1", "OP_VERNOTIF", "OP_RESERVED", "OP_ENDIF">>,
                     <<"OP_1", "OP_TOALTSTACK", "OP_2", "OP_FROMALTSTACK", "OP_NOP">>,
                     <<"OP_1", "OP_1", "OP_RETURN", "OP_DROP">>, <<"OP_RESERVED">>,
                     <<"OP_1", "OP_CUT">>, <<"OP_1", "OP_NOTIF", "OP_CUT">>,
                     <<"OP_1", "OP_RETURN", "OP_CUT">>}}

\* Values of all the lengths that are written in different ways, a separator among them and
\* within them.
Long == {<<>>, <<5>>, <<5, 5>>, <<1, 5, 5, 0>>, <<5, 5, 5, 5, 5, 5, 5, 5, 5>>}
ByteScripts ==
    LET part == {Push(v) : v \in Long} \cup {Op("OP_CODESEPARATOR")}
    IN  {<<i, j, k>> : i, j \in part, k \in part \cup {CutOff}}

\* Two signatures of three keys, in and out of order, some for other keys.
TheGiven == [vin |-> <<[n |-> 1, nSequence |-> 1, scriptSig |-> <<>>]>>, vout |-> <<1>>]
MultiSig(ks, sigs, op) ==
    LET tail == <<Push(getvch(Len(ks)))>> \o <<Op(op)>>
        keys == Pushes([i \in 1..Len(ks) |-> Key(ks[i])])
        code == <<Push(<<>>), Push(getvch(Len(sigs)))>> \o keys \o tail
        sig(k) == <<Key(k), SignatureHash(code, TheGiven, 1, SIGHASH_ALL), SIGHASH_ALL>>
    IN  <<Push(<<>>)>> \o [i \in 1..Len(sigs) |-> Push(sig(sigs[i]))]
            \o <<Push(getvch(Len(sigs)))>> \o keys \o tail
MultiSigScripts ==
    {MultiSig(ks, sigs, op) :
        ks \in UNION {[1..n -> 1..3] : n \in 1..3}, sigs \in UNION {[1..n -> 1..3] : n \in 0..2},
        op \in {"OP_CHECKMULTISIG", "OP_CHECKMULTISIGVERIFY"}}

\* A separator between the parts, a signature for what is after it, and for the whole.
SigScript(op, whole) ==
    LET code == <<Push(Key(1)), Op("OP_CODESEPARATOR"), Op(op)>>
        last == <<Op(op)>>
        hash == SignatureHash(IF whole THEN code ELSE last, TheGiven, 1, SIGHASH_ALL)
    IN  <<Push(<<Key(1), hash, SIGHASH_ALL>>)>> \o code
SigScripts == {SigScript(op, w) : op \in {"OP_CHECKSIG", "OP_CHECKSIGVERIFY"}, w \in BOOLEAN}

AllScripts == StackScripts \cup PlaceScripts \cup ValueScripts \cup ConditionalScripts \cup OtherScripts
                \cup ByteScripts \cup MultiSigScripts \cup SigScripts

\* Two of the wallet's, one of somebody else's, and one that is cut off.
TheCoins == <<PayToPubKey(Key(1)), SetBitcoinAddress(<<2>>), PayToPubKey(Key(3)),
              Append(SetBitcoinAddress(<<1>>), CutOff)>>

-----------------------------------------------------------------------------
StartBytes == <<1, 2, 3, 4>>
TheMaps == UNION {[ks -> {0, 9}] : ks \in SUBSET {0, 5, 9}}

\* Blocks with none to five transactions; five take a count of three bytes.
Input(k, sig) == [prevout |-> <<<<k>>, k>>, scriptSig |-> sig, nSequence |-> 511]
SomeTx(k) == [nVersion |-> 1, vin |-> [i \in 1..k |-> Input(i, [j \in 1..(2 * k) |-> 5])],
              vout |-> <<[nValue |-> 70, scriptPubKey |-> <<>>]>>, nLockTime |-> k]
TheBlocks == {[header |-> <<3, 0, k>>, vtx |-> [i \in 1..k |-> SomeTx(i % 4)]] : k \in {0, 1, 5}}
TheCuts == {0, 7, 20, 2000}

\* Two inputs, in one order or the other, and their numbers.
TheVersions ==
    {[vin |-> [i \in 1..3 |-> [prevout |-> IF first THEN i ELSE 4 - i, nSequence |-> ns[i]]]] :
        ns \in [1..3 -> {0, 1, 4095}], first \in BOOLEAN}
TheAmounts == UNION {[1..n -> {-8, -1, 0, 2, 3, 7}] : n \in 1..5} \cup {<<3, 3, 3, 3, 3, 3>>}

\* Three transactions and one of the wallet, 4, that spends some of them; what came with a
\* transaction of the wallet is all that it spends, or nothing.
InOrder(s) == SetToSortSeq(s, <)
TheWallets ==
    {[vin |-> <<<<>>, InOrder(a), InOrder(b), InOrder(c)>>, depth |-> d,
      wallet |-> c \cup {4} \cup mine,
      copies |-> [t \in 1..4 |-> IF t \notin with THEN {} ELSE IF t = 2 THEN a ELSE IF t = 3 THEN a \cup b ELSE {}]] :
        a \in SUBSET {1}, b \in SUBSET {1, 2}, c \in (SUBSET {1, 2, 3}) \ {{}}, mine \in SUBSET {1},
        with \in SUBSET {2, 3},
        d \in {e \in [1..4 -> {0, 1, 3}] : \A i \in 1..3 : e[i] >= e[i + 1]}}

Sample(ip, offset) == [ip |-> ip, offset |-> offset]
TheSamples == UNION {[1..n -> {Sample(ip, o) : ip \in 1..4, o \in {-4, 0, 7}}] : n \in 1..4}
=============================================================================
