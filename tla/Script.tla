------------------------------- MODULE Script -------------------------------
(***************************************************************************)
(* The stack machine that decides whether an input may spend an output:    *)
(* EvalScript instruction by instruction, scripts as bytes (what << writes *)
(* and GetOp reads), and the two templates of scripts that pay somebody.   *)
(* An instruction is an opcode, or OP_PUSH with the data it pushes; a      *)
(* value is a sequence of bytes.  A script may end within an instruction,  *)
(* which is CutOff then.  The state of the machine is a record, so that a  *)
(* script can be run step by step or to its end.                           *)
(***************************************************************************)
EXTENDS Numbers

CONSTANTS
    IntMax,     \* INT_MAX
    VERSION,    \* what OP_VER pushes
    HashSize,   \* bytes of a uint160
    PushData1   \* the first length that needs OP_PUSHDATA1

ASSUME ScriptAssumption ==
    /\ {IntMax, VERSION, HashSize, PushData1} \subseteq Nat \ {0}
    /\ PushData1 < Base

Op(o) == [op |-> o, data |-> <<>>]
Push(v) == [op |-> "OP_PUSH", data |-> v]

\* The start of an instruction whose rest is missing, at the end of a script: GetOp fails.
CutOff == Op("OP_CUT")
IsWhole(script) == script = <<>> \/ Last(script) # CutOff
\* What can be read of a script.
Readable(script) == IF IsWhole(script) THEN script ELSE Front(script)

vchFalse == <<>>
vchTrue == <<1>>
BoolValue(b) == IF b THEN vchTrue ELSE vchFalse
BoolNumber(b) == IF b THEN 1 ELSE 0
CastToBool(v) == setvch(v) # 0
getint(v) == LET n == setvch(v)
             IN  IF n > IntMax THEN IntMax ELSE IF n < -IntMax THEN -IntMax - 1 ELSE n

Top(s, i) == s[Len(s) + 1 - i]
Drop(s, n) == SubSeq(s, 1, Len(s) - n)
SwapAt(s, i, j) ==
    [s EXCEPT ![Len(s) + 1 - i] = Top(s, j), ![Len(s) + 1 - j] = Top(s, i)]

-----------------------------------------------------------------------------
(* The groups of opcodes, and how much of the stack each asks for          *)

\* OP_4 to OP_16 are like OP_3 and left out.
Values == [OP_1NEGATE |-> -1, OP_1 |-> 1, OP_2 |-> 2, OP_3 |-> 3, OP_VER |-> VERSION]
Conditionals == {"OP_IF", "OP_NOTIF", "OP_VERIF", "OP_VERNOTIF", "OP_ELSE", "OP_ENDIF"}
StackNeeds ==
    [OP_2DROP |-> 0, OP_2DUP |-> 2, OP_3DUP |-> 3, OP_2OVER |-> 4, OP_2ROT |-> 6,
     OP_2SWAP |-> 4, OP_IFDUP |-> 1, OP_DEPTH |-> 0, OP_DROP |-> 1, OP_DUP |-> 1,
     OP_NIP |-> 2, OP_OVER |-> 2, OP_ROT |-> 3, OP_SWAP |-> 2, OP_TUCK |-> 2,
     OP_PICK |-> 2, OP_ROLL |-> 2]
SpliceNeeds ==
    [OP_CAT |-> 2, OP_SUBSTR |-> 3, OP_LEFT |-> 2, OP_RIGHT |-> 2, OP_SIZE |-> 1,
     OP_INVERT |-> 1, OP_AND |-> 2, OP_OR |-> 2, OP_XOR |-> 2]
Unary == {"OP_1ADD", "OP_1SUB", "OP_2MUL", "OP_2DIV", "OP_NEGATE", "OP_ABS", "OP_NOT",
          "OP_0NOTEQUAL"}
Binary == {"OP_ADD", "OP_SUB", "OP_MUL", "OP_DIV", "OP_MOD", "OP_LSHIFT", "OP_RSHIFT",
           "OP_BOOLAND", "OP_BOOLOR", "OP_NUMEQUAL", "OP_NUMEQUALVERIFY", "OP_NUMNOTEQUAL",
           "OP_LESSTHAN", "OP_GREATERTHAN", "OP_LESSTHANOREQUAL", "OP_GREATERTHANOREQUAL",
           "OP_MIN", "OP_MAX"}

-----------------------------------------------------------------------------
(* One instruction.  m is the machine after GetOp has read it; a script    *)
(* ends at once with false, or at its end with what is on the stack.       *)

MachineInit ==
    [pc |-> 1, stack |-> <<>>, altstack |-> <<>>, vfExec |-> <<>>, begincode |-> 1,
     result |-> "run"]

Refuse(m) == [m EXCEPT !.result = "false"]
Undefined(m) == [m EXCEPT !.result = "undefined"]
\* Mutant of ToEnd: one past the end.
ToEndPast(script, m) == [m EXCEPT !.pc = Len(script) + 2]
ToEnd(script, m) == [m EXCEPT !.pc = Len(script) + 1]

\* What a test leaves, and a VERIFY makes of it: nothing, or the false it ends with.
Tested(script, m, stack, value, verify) ==
    IF verify /\ CastToBool(value) THEN [m EXCEPT !.stack = stack]
    ELSE LET left == [m EXCEPT !.stack = Append(stack, value)]
         IN  IF verify THEN ToEnd(script, left) ELSE left

\* The condition a value on the stack is for a conditional.
Holds(op, vch) ==
    LET fValue == IF op \in {"OP_VERIF", "OP_VERNOTIF"} THEN VERSION >= setvch(vch)
                  ELSE CastToBool(vch)
    IN  fValue # (op \in {"OP_NOTIF", "OP_VERNOTIF"})

\* Mutant of Condition: a conditional inside one that is not executed is not counted.
ConditionSkipped(op, m, fExec) ==
    IF ~fExec THEN m
    ELSE IF m.stack = <<>> THEN Refuse(m)
    ELSE [m EXCEPT !.stack = Drop(@, 1), !.vfExec = Append(@, Holds(op, Top(m.stack, 1)))]

Condition(op, m, fExec) ==
    IF ~fExec THEN [m EXCEPT !.vfExec = Append(@, FALSE)]
    ELSE IF m.stack = <<>> THEN Refuse(m)
    ELSE [m EXCEPT !.stack = Drop(@, 1), !.vfExec = Append(@, Holds(op, Top(m.stack, 1)))]

DoConditional(op, m, fExec) ==
    CASE op = "OP_ELSE" ->
            IF m.vfExec = <<>> THEN Refuse(m) ELSE [m EXCEPT !.vfExec[Len(m.vfExec)] = ~@]
      [] op = "OP_ENDIF" ->
            IF m.vfExec = <<>> THEN Refuse(m) ELSE [m EXCEPT !.vfExec = Drop(@, 1)]
      [] OTHER -> Condition(op, m, fExec)

\* Mutant of Verify: the value is taken from the stack before it is looked at.
VerifyPopped(script, m) ==
    IF m.stack = <<>> THEN Refuse(m)
    ELSE LET n == [m EXCEPT !.stack = Drop(@, 1)]
         IN  IF CastToBool(Top(m.stack, 1)) THEN n ELSE ToEnd(script, n)

Verify(script, m) ==
    IF m.stack = <<>> THEN Refuse(m)
    ELSE IF CastToBool(Top(m.stack, 1)) THEN [m EXCEPT !.stack = Drop(@, 1)]
    ELSE ToEnd(script, m)

DoControl(script, op, m) ==
    CASE op = "OP_NOP" -> m
      [] op = "OP_VERIFY" -> Verify(script, m)
      [] op = "OP_RETURN" -> ToEnd(script, m)
      [] op = "OP_TOALTSTACK" ->
            IF m.stack = <<>> THEN Refuse(m)
            ELSE [m EXCEPT !.altstack = Append(@, Top(m.stack, 1)), !.stack = Drop(@, 1)]
      [] op = "OP_FROMALTSTACK" ->
            IF m.altstack = <<>> THEN Refuse(m)
            ELSE [m EXCEPT !.stack = Append(@, Top(m.altstack, 1)), !.altstack = Drop(@, 1)]

\* Mutant of Rotated: the second swap is the first again.
RotatedBack(s) == SwapAt(SwapAt(s, 3, 2), 3, 2)

Rotated(s) == SwapAt(SwapAt(s, 3, 2), 2, 1)

\* OP_2DROP takes two values without looking how many there are.
StackAfter(op, s) ==
    CASE op = "OP_2DROP" -> Drop(s, 2)
      [] op = "OP_2DUP"  -> s \o <<Top(s, 2), Top(s, 1)>>
      [] op = "OP_3DUP"  -> s \o <<Top(s, 3), Top(s, 2), Top(s, 1)>>
      [] op = "OP_2OVER" -> s \o <<Top(s, 4), Top(s, 3)>>
      [] op = "OP_2ROT"  -> Drop(s, 6) \o SubSeq(s, Len(s) - 3, Len(s)) \o <<Top(s, 6), Top(s, 5)>>
      [] op = "OP_2SWAP" -> SwapAt(SwapAt(s, 4, 2), 3, 1)
      [] op = "OP_IFDUP" -> IF CastToBool(Top(s, 1)) THEN Append(s, Top(s, 1)) ELSE s
      [] op = "OP_DEPTH" -> Append(s, getvch(Len(s)))
      [] op = "OP_DROP"  -> Drop(s, 1)
      [] op = "OP_DUP"   -> Append(s, Top(s, 1))
      [] op = "OP_NIP"   -> RemoveAt(s, Len(s) - 1)
      [] op = "OP_OVER"  -> Append(s, Top(s, 2))
      [] op = "OP_ROT"   -> Rotated(s)
      [] op = "OP_SWAP"  -> SwapAt(s, 2, 1)
      [] op = "OP_TUCK"  -> InsertAt(s, Len(s) - 1, Top(s, 1))

DoStack(op, m) ==
    LET s == m.stack
        n == getint(Top(s, 1))
        t == Drop(s, 1)
    IN  CASE op = "OP_2DROP" /\ Len(s) < 2 -> Undefined(m)
          [] Len(s) < StackNeeds[op] -> Refuse(m)
          [] op \in {"OP_PICK", "OP_ROLL"} /\ Len(s) >= 2 ->
                IF n < 0 \/ n >= Len(t) THEN Refuse(m)
                ELSE [m EXCEPT !.stack =
                        Append(IF op = "OP_ROLL" THEN RemoveAt(t, Len(t) - n) ELSE t,
                               Top(t, n + 1))]
          [] OTHER -> [m EXCEPT !.stack = StackAfter(op, s)]

-----------------------------------------------------------------------------
(* Pieces of values and their bits                                         *)

\* f is a function of two bits.
Bits(f, v1, v2) ==
    LET n    == IF Len(v1) < Len(v2) THEN Len(v2) ELSE Len(v1)
        b(v, i) == IF i <= Len(v) THEN v[i] ELSE 0
        bit(x, k) == (x \div 2 ^ k) % 2
        K    == CHOOSE k \in 1..Base : 2 ^ k = Base
    IN  [i \in 1..n |-> ValueIn(2, [k \in 1..K |-> f[bit(b(v1, i), k - 1), bit(b(v2, i), k - 1)]])]

SpliceAfter(op, s) ==
    LET v1 == Top(s, 2)
        v2 == Top(s, 1)
        n  == getint(v2)
        at == IF n > Len(v1) THEN Len(v1) ELSE n
        out(k, v) == Append(Drop(s, k), v)
    IN  CASE op = "OP_CAT"    -> out(2, v1 \o v2)
          [] op = "OP_LEFT"   -> out(2, SubSeq(v1, 1, at))
          [] op = "OP_RIGHT"  -> out(2, SubSeq(v1, Len(v1) - at + 1, Len(v1)))
          [] op = "OP_SIZE"   -> Append(s, getvch(Len(v2)))
          [] op = "OP_INVERT" -> out(1, [i \in 1..Len(v2) |-> Base - 1 - v2[i]])
          [] op = "OP_AND"    -> out(2, Bits([x, y \in 0..1 |-> x * y], v1, v2))
          [] op = "OP_OR"     -> out(2, Bits([x, y \in 0..1 |-> BoolNumber(x + y > 0)], v1, v2))
          [] op = "OP_XOR"    -> out(2, Bits([x, y \in 0..1 |-> (x + y) % 2], v1, v2))

\* Mutant of Substr: the size is taken for the end.
SubstrEnd(m) ==
    LET nBegin == getint(Top(m.stack, 2))
        nSize  == getint(Top(m.stack, 1))
        v      == Top(m.stack, 3)
    IN  IF nBegin < 0 \/ nSize < nBegin THEN Refuse(m)
        ELSE [m EXCEPT !.stack = Append(Drop(@, 3), SubSeq(v, nBegin + 1,
                                         IF nSize > Len(v) THEN Len(v) ELSE nSize))]

\* The sum of begin and size may be more than an int holds.
Substr(m) ==
    LET nBegin == getint(Top(m.stack, 2))
        nEnd   == nBegin + getint(Top(m.stack, 1))
        v      == Top(m.stack, 3)
    IN  IF nEnd > IntMax \/ nEnd < -IntMax - 1 THEN Undefined(m)
        ELSE IF nBegin < 0 \/ nEnd < nBegin THEN Refuse(m)
        ELSE [m EXCEPT !.stack = Append(Drop(@, 3), SubSeq(v, nBegin + 1,
                                         IF nEnd > Len(v) THEN Len(v) ELSE nEnd))]

DoSplice(op, m) ==
    IF Len(m.stack) < SpliceNeeds[op] THEN Refuse(m)
    ELSE IF op = "OP_SUBSTR" THEN Substr(m)
    ELSE IF op \in {"OP_LEFT", "OP_RIGHT"} /\ getint(Top(m.stack, 1)) < 0 THEN Refuse(m)
    ELSE [m EXCEPT !.stack = SpliceAfter(op, @)]

-----------------------------------------------------------------------------
(* Numbers                                                                 *)

Signed(n, magnitude) == IF n < 0 THEN -magnitude ELSE magnitude

UnaryOf(op, n) ==
    CASE op = "OP_1ADD"   -> n + 1
      [] op = "OP_1SUB"   -> n - 1
      [] op = "OP_2MUL"   -> n * 2
      [] op = "OP_2DIV"   -> Signed(n, Magnitude(n) \div 2)
      [] op = "OP_NEGATE" -> -n
      [] op = "OP_ABS"    -> Magnitude(n)
      [] op = "OP_NOT"    -> BoolNumber(n = 0)
      [] op = "OP_0NOTEQUAL" -> BoolNumber(n # 0)

\* A division by zero and a negative shift have no result.
HasResult(op, b) ==
    /\ op \in {"OP_DIV", "OP_MOD"} => b # 0
    /\ op \in {"OP_LSHIFT", "OP_RSHIFT"} => b >= 0

BinaryOf(op, a, b) ==
    CASE op = "OP_ADD" -> a + b
      [] op = "OP_SUB" -> a - b
      [] op = "OP_MUL" -> a * b
      [] op = "OP_DIV" -> Signed(a * b, Magnitude(a) \div Magnitude(b))
      [] op = "OP_MOD" -> Signed(a, Magnitude(a) % Magnitude(b))
      [] op = "OP_LSHIFT" -> a * 2 ^ b
      [] op = "OP_RSHIFT" -> Signed(a, Magnitude(a) \div 2 ^ b)
      [] op = "OP_BOOLAND" -> BoolNumber(a # 0 /\ b # 0)
      [] op = "OP_BOOLOR"  -> BoolNumber(a # 0 \/ b # 0)
      [] op \in {"OP_NUMEQUAL", "OP_NUMEQUALVERIFY"} -> BoolNumber(a = b)
      [] op = "OP_NUMNOTEQUAL"        -> BoolNumber(a # b)
      [] op = "OP_LESSTHAN"           -> BoolNumber(a < b)
      [] op = "OP_GREATERTHAN"        -> BoolNumber(a > b)
      [] op = "OP_LESSTHANOREQUAL"    -> BoolNumber(a <= b)
      [] op = "OP_GREATERTHANOREQUAL" -> BoolNumber(a >= b)
      [] op = "OP_MIN" -> IF a < b THEN a ELSE b
      [] op = "OP_MAX" -> IF a > b THEN a ELSE b

DoNumeric(script, op, m) ==
    LET s == m.stack
        n(i) == setvch(Top(s, i))
    IN  IF op \in Unary THEN
            IF s = <<>> THEN Refuse(m)
            ELSE [m EXCEPT !.stack = Append(Drop(s, 1), getvch(UnaryOf(op, n(1))))]
        ELSE IF op = "OP_WITHIN" THEN
            IF Len(s) < 3 THEN Refuse(m)
            ELSE [m EXCEPT !.stack =
                    Append(Drop(s, 3), BoolValue(n(2) <= n(3) /\ n(3) < n(1)))]
        ELSE IF Len(s) < 2 \/ ~HasResult(op, n(1)) THEN Refuse(m)
        ELSE Tested(script, m, Drop(s, 2), getvch(BinaryOf(op, n(2), n(1))),
                    op = "OP_NUMEQUALVERIFY")

DoEqual(script, op, m) ==
    IF Len(m.stack) < 2 THEN Refuse(m)
    ELSE Tested(script, m, Drop(m.stack, 2), BoolValue(Top(m.stack, 2) = Top(m.stack, 1)),
                op = "OP_EQUALVERIFY")

-----------------------------------------------------------------------------
(* Hashes and signatures.  A signature is for an input of a transaction:   *)
(* <<key, hash, type>>, made by nobody but with the key.                   *)

\* The hashes: any function of the bytes will do, and distinct keys have distinct hashes.
HashOf(v) == IF v = <<>> THEN <<0>> ELSE <<v[Len(v)]>>
Hashes == {"OP_RIPEMD160", "OP_SHA1", "OP_SHA256", "OP_HASH160", "OP_HASH256"}

\* A signature cannot sign itself.
FindAndDelete(code, b) == SelectSeq(code, LAMBDA i : i # b)

Code(script, m) == SubSeq(script, m.begincode, Len(script))

SIGHASH_ALL == 1
SIGHASH_NONE == 2
SIGHASH_SINGLE == 3
SIGHASH_ANYONECANPAY == 128
HashTypes == {1, 2, 3, 129, 130, 131}
Kind(nHashType) == nHashType % 32
AnyoneCanPay(nHashType) == nHashType >= SIGHASH_ANYONECANPAY

\* The hash that is signed.  It is a set: {} is the constant 1 that stands for an index out of
\* range.
Blanked(t, nIn, code) ==
    [t EXCEPT !.vin = [i \in 1..Len(t.vin) |->
        [t.vin[i] EXCEPT !.scriptSig = IF i = nIn THEN code ELSE <<>>]]]
\* Let the others update at will.
Loosened(t, nIn) ==
    [t EXCEPT !.vin = [i \in 1..Len(t.vin) |->
        IF i = nIn THEN t.vin[i] ELSE [t.vin[i] EXCEPT !.nSequence = 0]]]
NullOut == -1

\* Mutant of SignatureHash: the sequence numbers of the other inputs stay.
SignatureHashTight(code, t, nIn, nHashType) ==
    LET tmp  == Blanked(t, nIn, FindAndDelete(code, Op("OP_CODESEPARATOR")))
        part == CASE Kind(nHashType) = SIGHASH_NONE -> [tmp EXCEPT !.vout = <<>>]
                  [] Kind(nHashType) = SIGHASH_SINGLE ->
                        [tmp EXCEPT !.vout = [i \in 1..nIn |->
                            IF i < nIn THEN NullOut ELSE t.vout[i]]]
                  [] OTHER -> tmp
        mine == IF AnyoneCanPay(nHashType) THEN [part EXCEPT !.vin = <<part.vin[nIn]>>] ELSE part
    IN  IF nIn > Len(t.vin) \/ (Kind(nHashType) = SIGHASH_SINGLE /\ nIn > Len(t.vout))
        THEN {} ELSE {<<mine, nHashType>>}

SignatureHash(code, t, nIn, nHashType) ==
    LET tmp  == Blanked(t, nIn, FindAndDelete(code, Op("OP_CODESEPARATOR")))
        part == CASE Kind(nHashType) = SIGHASH_NONE -> [Loosened(tmp, nIn) EXCEPT !.vout = <<>>]
                  [] Kind(nHashType) = SIGHASH_SINGLE ->
                        [Loosened(tmp, nIn) EXCEPT !.vout = [i \in 1..nIn |->
                            IF i < nIn THEN NullOut ELSE t.vout[i]]]
                  [] OTHER -> tmp
        mine == IF AnyoneCanPay(nHashType) THEN [part EXCEPT !.vin = <<part.vin[nIn]>>] ELSE part
    IN  IF nIn > Len(t.vin) \/ (Kind(nHashType) = SIGHASH_SINGLE /\ nIn > Len(t.vout))
        THEN {} ELSE {<<mine, nHashType>>}

\* The last byte of a signature is its type; a type that is asked for has to be that one.
CheckSig(sig, key, code, for) ==
    /\ Len(key) = 4
    /\ Len(sig) = 3
    /\ for.nHashType \in {0, sig[3]}
    /\ <<sig[1], sig[2]>> = <<key, SignatureHash(code, for.txTo, for.nIn, sig[3])>>

\* What a script is run for.
For(txTo, nIn, nHashType) == [txTo |-> txTo, nIn |-> nIn, nHashType |-> nHashType]

CheckSigOp(script, op, m, for) ==
    LET sig == Top(m.stack, 2)
    IN  IF Len(m.stack) < 2 THEN Refuse(m)
        ELSE Tested(script, m, Drop(m.stack, 2),
                    BoolValue(CheckSig(sig, Top(m.stack, 1),
                                       FindAndDelete(Code(script, m), Push(sig)), for)),
                    op = "OP_CHECKSIGVERIFY")

\* Mutant of TooMany: as many signatures as keys are too many.
TooManyAlready(sigs, keys) == sigs >= keys
TooMany(sigs, keys) == sigs > keys

\* How many signatures are left after k keys, -1 when too many have failed.
MatchKeys(sigs, keys, code, for) ==
    LET left[k \in 0..Len(keys)] ==
            IF k = 0 THEN Len(sigs)
            ELSE LET n    == left[k - 1]
                     rest == IF n > 0 /\ CheckSig(sigs[Len(sigs) + 1 - n], keys[k], code, for)
                             THEN n - 1 ELSE n
                 IN  IF n <= 0 THEN n ELSE IF TooMany(rest, Len(keys) - k) THEN -1 ELSE rest
    IN  left[Len(keys)] = 0

\* The keys and the signatures from the top of the stack downwards; one more value is taken.
MultiSigOp(script, op, m, for) ==
    LET s     == m.stack
        nKeys == getint(Top(s, 1))
        nSigs == getint(Top(s, 2 + nKeys))
        keys  == [k \in 1..nKeys |-> Top(s, 1 + k)]
        sigs  == [k \in 1..nSigs |-> Top(s, 2 + nKeys + k)]
        code  == FoldLeft(LAMBDA c, sig : FindAndDelete(c, Push(sig)), Code(script, m), sigs)
    IN  IF \/ s = <<>> \/ nKeys < 0 \/ Len(s) < 2 + nKeys
           \/ nSigs < 0 \/ nSigs > nKeys \/ Len(s) < 3 + nKeys + nSigs
        THEN Refuse(m)
        ELSE Tested(script, m, Drop(s, 3 + nKeys + nSigs),
                    BoolValue(MatchKeys(sigs, keys, code, for)),
                    op = "OP_CHECKMULTISIGVERIFY")

DoCrypto(script, op, m, for) ==
    CASE op \in Hashes -> IF m.stack = <<>> THEN Refuse(m)
                          ELSE [m EXCEPT !.stack = Append(Drop(@, 1), HashOf(Top(@, 1)))]
      [] op = "OP_CODESEPARATOR" -> [m EXCEPT !.begincode = m.pc]
      [] op \in {"OP_CHECKSIG", "OP_CHECKSIGVERIFY"} -> CheckSigOp(script, op, m, for)
      [] op \in {"OP_CHECKMULTISIG", "OP_CHECKMULTISIGVERIFY"} ->
            MultiSigOp(script, op, m, for)

-----------------------------------------------------------------------------
(* EvalScript                                                              *)

Controls == {"OP_NOP", "OP_VERIFY", "OP_RETURN", "OP_TOALTSTACK", "OP_FROMALTSTACK"}
Cryptos == Hashes \cup {"OP_CODESEPARATOR", "OP_CHECKSIG", "OP_CHECKSIGVERIFY",
                        "OP_CHECKMULTISIG", "OP_CHECKMULTISIGVERIFY"}

\* Every condition that the instruction is inside of has been met.
fExec(m) == \A i \in 1..Len(m.vfExec) : m.vfExec[i]

Running(script, m) == m.result = "run" /\ m.pc <= Len(script)

Execute(script, m0, for) ==
    LET op == script[m0.pc].op
        m  == [m0 EXCEPT !.pc = @ + 1]
    IN  CASE op = CutOff.op -> Refuse(m)
          [] op \in Conditionals -> DoConditional(op, m, fExec(m))
          [] op \notin Conditionals \cup {CutOff.op} /\ ~fExec(m) -> m
          [] op = "OP_PUSH" /\ fExec(m) -> [m EXCEPT !.stack = Append(@, script[m0.pc].data)]
          [] op \in DOMAIN Values /\ fExec(m) ->
                [m EXCEPT !.stack = Append(@, getvch(Values[op]))]
          [] op \in Controls /\ fExec(m) -> DoControl(script, op, m)
          [] op \in DOMAIN StackNeeds /\ fExec(m) -> DoStack(op, m)
          [] op \in DOMAIN SpliceNeeds /\ fExec(m) -> DoSplice(op, m)
          [] op \in Unary \cup Binary \cup {"OP_WITHIN"} /\ fExec(m) -> DoNumeric(script, op, m)
          [] op \in {"OP_EQUAL", "OP_EQUALVERIFY"} /\ fExec(m) -> DoEqual(script, op, m)
          [] op \in Cryptos /\ fExec(m) -> DoCrypto(script, op, m, for)
          [] OTHER -> Refuse(m)

End(m) ==
    IF m.result # "run" THEN m
    ELSE [m EXCEPT !.result = IF m.stack # <<>> /\ CastToBool(Top(m.stack, 1))
                              THEN "true" ELSE "false"]

EvalScript(script, for) ==
    LET run[k \in 0..Len(script)] ==
            IF k = 0 THEN MachineInit
            ELSE LET m == run[k - 1]
                 IN  IF Running(script, m) THEN Execute(script, m, for) ELSE m
    IN  End(run[Len(script)]).result = "true"

-----------------------------------------------------------------------------
(* Scripts as bytes.  The opcodes that push are the lengths up to          *)
(* PushData1 - 1, then OP_PUSHDATA1, 2 and 4; the others follow.           *)

OpByte(op) ==
    PushData1 + 3 + CHOOSE k \in 0..4 :
        op = <<"OP_CODESEPARATOR", "OP_DUP", "OP_HASH160", "OP_EQUALVERIFY", "OP_CHECKSIG">>[k + 1]

\* Mutant of PushBytes: a length of PushData1 is written as it is.
PushBytesOver(v) ==
    (CASE Len(v) <= PushData1 -> <<Len(v)>>
       [] Len(v) > PushData1 /\ Len(v) < Base -> <<PushData1, Len(v)>>
       [] OTHER -> <<PushData1 + 1>> \o Fixed(Base, Len(v), 2)) \o v

PushBytes(v) ==
    (CASE Len(v) < PushData1 -> <<Len(v)>>
       [] Len(v) >= PushData1 /\ Len(v) < Base -> <<PushData1, Len(v)>>
       [] OTHER -> <<PushData1 + 1>> \o Fixed(Base, Len(v), 2)) \o v

\* The one that is cut off would push as many bytes as its opcode can say, and has none.
InstructionBytes(i) ==
    CASE i.op = "OP_PUSH" -> PushBytes(i.data)
      [] i = CutOff -> <<PushData1 - 1>>
      [] OTHER -> <<OpByte(i.op)>>
Bytes(script) == FlattenSeq([k \in 1..Len(script) |-> InstructionBytes(script[k])])

\* The instruction at pc and the place after it; none at the end, or when it is cut short.
NoOp == [ok |-> FALSE, byte |-> 0, data |-> <<>>, pc |-> 0]
GetOp(s, pc) ==
    LET opcode == s[pc]
        head   == CASE opcode < PushData1 \/ opcode > PushData1 + 2 -> 0
                    [] opcode = PushData1 -> 1
                    [] opcode = PushData1 + 1 -> 2
                    [] opcode = PushData1 + 2 -> 4
        nSize  == CASE opcode < PushData1 -> opcode
                    [] opcode > PushData1 + 2 -> 0
                    [] OTHER -> Value(SubSeq(s, pc + 1, pc + head))
    IN  IF pc > Len(s) THEN NoOp
        ELSE IF pc + head > Len(s) THEN NoOp
        ELSE IF pc + head + nSize > Len(s) THEN NoOp
        ELSE [ok |-> TRUE, byte |-> opcode, pc |-> pc + 1 + head + nSize,
              data |-> SubSeq(s, pc + 1 + head, pc + head + nSize)]

StartsAt(s, pc, b) == pc + Len(b) - 1 <= Len(s) /\ SubSeq(s, pc, pc + Len(b) - 1) = b

\* Mutant of DeleteStep: after a deletion the next instruction is passed over.
DeleteStepPast(d, b) ==
    IF StartsAt(d.s, d.pc, b)
    THEN LET s == SubSeq(d.s, 1, d.pc - 1) \o SubSeq(d.s, d.pc + Len(b), Len(d.s))
             g == GetOp(s, d.pc)
         IN  IF g.ok THEN [s |-> s, pc |-> g.pc] ELSE [d EXCEPT !.s = s]
    ELSE LET g == GetOp(d.s, d.pc) IN IF g.ok THEN [d EXCEPT !.pc = g.pc] ELSE d

\* The bytes b are deleted where an instruction begins, as often as they stand there.
DeleteStep(d, b) ==
    IF StartsAt(d.s, d.pc, b)
    THEN [d EXCEPT !.s = SubSeq(@, 1, d.pc - 1) \o SubSeq(@, d.pc + Len(b), Len(@))]
    ELSE LET g == GetOp(d.s, d.pc) IN IF g.ok THEN [d EXCEPT !.pc = g.pc] ELSE d
DeleteBytes(s, b) ==
    LET d[k \in 0..(Len(s) + 1)] ==
            IF k = 0 THEN [s |-> s, pc |-> 1] ELSE DeleteStep(d[k - 1], b)
    IN  d[Len(s) + 1].s

\* Every instruction in turn.
ReadAll(s) ==
    LET r[k \in 0..Len(s)] ==
            IF k = 0 THEN [pc |-> 1, ops |-> <<>>]
            ELSE LET p == r[k - 1]
                     g == GetOp(s, p.pc)
                 IN  IF g.ok THEN [pc |-> g.pc, ops |-> Append(p.ops, <<g.byte, g.data>>)] ELSE p
    IN  r[Len(s)]

-----------------------------------------------------------------------------
(* Whom a script pays                                                      *)

Templates ==
    << <<"OP_PUBKEY", "OP_CHECKSIG">>,
       <<"OP_DUP", "OP_HASH160", "OP_PUBKEYHASH", "OP_EQUALVERIFY", "OP_CHECKSIG">> >>

Hash256Size == HashSize + 1
Fills(i, t) ==
    CASE t = "OP_PUBKEY"     -> Len(i.data) > Hash256Size
      [] t = "OP_PUBKEYHASH" -> Len(i.data) = HashSize
      [] OTHER               -> i.op = t

\* The key or the hash of a key that fills a template, if what can be read of the script is
\* one: the comparison succeeds where neither has another instruction to give.
Solutions(script) ==
    LET read == Readable(script)
    IN  UNION {{<<Templates[t][k], read[k].data>> :
                    k \in {j \in 1..Len(read) : Templates[t][j] \in {"OP_PUBKEY", "OP_PUBKEYHASH"}}} :
               t \in {u \in 1..Len(Templates) :
                        /\ Len(read) = Len(Templates[u])
                        /\ \A j \in 1..Len(read) : Fills(read[j], Templates[u][j])}}

PayToPubKey(key) == <<Push(key), Op("OP_CHECKSIG")>>
SetBitcoinAddress(hash) ==
    <<Op("OP_DUP"), Op("OP_HASH160"), Push(hash), Op("OP_EQUALVERIFY"), Op("OP_CHECKSIG")>>
=============================================================================
