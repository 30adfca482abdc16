----------------------------- MODULE Signatures -----------------------------
(***************************************************************************)
(* What a signature covers: SignatureHash and its hash types, signing,     *)
(* verifying, and a transaction that several people put together, each     *)
(* signing their own input while the others still change what is theirs.   *)
(* The same module steps the machine of Script through whole scripts.      *)
(*                                                                         *)
(* A key is three zeros and a number that is its hash, too.  The coin k is *)
(* output k of the one transaction the inputs spend.                       *)
(***************************************************************************)
EXTENDS Script, FiniteSets

CONSTANTS
    Scripts,    \* the scripts that are run
    Given,      \* the transaction they are run for
    Coins,      \* the scripts of the coins, in order
    MyKeys,     \* the numbers of the keys in the wallet
    OutValues,  \* what outputs may be worth
    MaxEdits    \* bound on changes of the transaction

VARIABLES
    script,     \* the script that is run
    vm,         \* the machine
    took,       \* the value every conditional was met with
    tx,         \* the transaction put together
    signed,     \* for a signed coin, the type and the transaction as it was
    edits

evalVars == <<script, vm, took>>
txVars == <<tx, signed, edits>>
vars == <<script, vm, took, tx, signed, edits>>

Key(k) == <<0, 0, 0, k>>

-----------------------------------------------------------------------------
(* Solving a script with the keys of the wallet                            *)

MyKeyOf(hash) == {k \in MyKeys : HashOf(Key(k)) = hash}
MyKeyIs(key) == {k \in MyKeys : Key(k) = key}

\* Mutant of Solver: the key comes before the signature.
SolverSwapped(scriptPubKey, hash, nHashType) ==
    UNION {IF s[1] = "OP_PUBKEY"
           THEN {<<Push(<<Key(k), hash, nHashType>>)>> : k \in MyKeyIs(s[2])}
           ELSE {<<Push(Key(k)), Push(<<Key(k), hash, nHashType>>)>> : k \in MyKeyOf(s[2])} :
           s \in Solutions(scriptPubKey)}

\* The scripts that satisfy scriptPubKey, at most one.
Solver(scriptPubKey, hash, nHashType) ==
    UNION {IF s[1] = "OP_PUBKEY"
           THEN {<<Push(<<Key(k), hash, nHashType>>)>> : k \in MyKeyIs(s[2])}
           ELSE {<<Push(<<Key(k), hash, nHashType>>), Push(Key(k))>> : k \in MyKeyOf(s[2])} :
           s \in Solutions(scriptPubKey)}
IsMine(scriptPubKey) == Solver(scriptPubKey, {}, 0) # {}
ExtractPubKey(scriptPubKey, fMineOnly) ==
    UNION {IF s[1] = "OP_PUBKEYHASH" THEN {Key(k) : k \in MyKeyOf(s[2])}
           ELSE IF fMineOnly THEN {Key(k) : k \in MyKeyIs(s[2])} ELSE {s[2]} :
           s \in Solutions(scriptPubKey)}
ExtractHash160(scriptPubKey) == {s[2] : s \in {u \in Solutions(scriptPubKey) : u[1] = "OP_PUBKEYHASH"}}

Joined(scriptSig, scriptPubKey) == scriptSig \o <<Op("OP_CODESEPARATOR")>> \o scriptPubKey

VerifySignature(t, nIn, nHashType) ==
    EvalScript(Joined(t.vin[nIn].scriptSig, Coins[t.vin[nIn].n]),
               For(t, nIn, nHashType))

\* The transaction with input nIn signed, if it can be; the solution is tried out.
SignSignature(t, nIn, nHashType) ==
    LET coin == Coins[t.vin[nIn].n]
        With(sol) == [t EXCEPT !.vin[nIn].scriptSig = sol]
    IN  {With(sol) : sol \in {s \in Solver(coin, SignatureHash(coin, t, nIn, nHashType), nHashType) :
                                VerifySignature(With(s), nIn, 0)}}

-----------------------------------------------------------------------------
(* Running a script                                                        *)

Purpose == For(Given, 1, 0)
Current == script[vm.pc].op

Instruction(ops) ==
    /\ Running(script, vm)
    /\ Current \in ops
    /\ vm' = Execute(script, vm, Purpose)
    /\ took' = IF Current \in Conditionals \ {"OP_ELSE", "OP_ENDIF"}
               THEN took @@ (vm.pc :> (fExec(vm) /\ vm.stack # <<>> /\ Holds(Current, Top(vm.stack, 1))))
               ELSE took
    /\ UNCHANGED <<script, txVars>>

PushValue == Instruction({"OP_PUSH"} \cup DOMAIN Values)
Control   == Instruction(Conditionals \cup Controls)
StackOp   == Instruction(DOMAIN StackNeeds)
SpliceOp  == Instruction(DOMAIN SpliceNeeds)
NumericOp == Instruction(Unary \cup Binary \cup {"OP_WITHIN"})
TestOp    == Instruction({"OP_EQUAL", "OP_EQUALVERIFY"} \cup Cryptos)
Reserved  == Instruction({"OP_RESERVED"})
CutShort  == Instruction({CutOff.op})

Finish ==
    /\ vm.result = "run" /\ vm.pc > Len(script) /\ script # <<>>
    /\ vm' = End(vm)
    /\ UNCHANGED <<script, took, txVars>>

-----------------------------------------------------------------------------
(* Putting a transaction together                                          *)

Edit == script = <<>> /\ edits < MaxEdits /\ edits' = edits + 1
NewIn(n) == [n |-> n, nSequence |-> 1, scriptSig |-> <<>>]

\* SignSignature, by whoever has the key of the coin.
Sign ==
    /\ script = <<>>
    /\ \E nIn \in 1..Len(tx.vin), t \in HashTypes :
          /\ tx.vin[nIn].scriptSig = <<>>
          /\ \E s \in SignSignature(tx, nIn, t) :
                /\ tx' = s
                /\ signed' = signed @@ (tx.vin[nIn].n :> [type |-> t, tx |-> tx, at |-> nIn])
    /\ UNCHANGED <<edits, evalVars>>

AddInput ==
    /\ Edit
    /\ \E n \in (1..Len(Coins)) \ {tx.vin[i].n : i \in 1..Len(tx.vin)}, front \in BOOLEAN :
          tx' = [tx EXCEPT !.vin = IF front THEN <<NewIn(n)>> \o @ ELSE Append(@, NewIn(n))]
    /\ UNCHANGED <<signed, evalVars>>

ChangeSequence ==
    /\ Edit
    /\ \E i \in 1..Len(tx.vin) : tx' = [tx EXCEPT !.vin[i].nSequence = 1 - @]
    /\ UNCHANGED <<signed, evalVars>>

AddOutput ==
    /\ Edit
    /\ \E v \in OutValues : tx' = [tx EXCEPT !.vout = Append(@, v)]
    /\ UNCHANGED <<signed, evalVars>>

ChangeOutput ==
    /\ Edit
    /\ \E i \in 1..Len(tx.vout), v \in OutValues :
          v # tx.vout[i] /\ tx' = [tx EXCEPT !.vout[i] = v]
    /\ UNCHANGED <<signed, evalVars>>

Init ==
    /\ vm = MachineInit /\ took = <<>> /\ signed = <<>> /\ edits = 0
    /\ script \in Scripts \cup {<<>>}
    /\ tx = [vin |-> <<NewIn(1)>>, vout |-> <<>>]

Next ==
    \/ PushValue \/ Control \/ StackOp \/ SpliceOp \/ NumericOp \/ TestOp \/ Reserved
    \/ CutShort \/ Finish
    \/ Sign \/ AddInput \/ ChangeSequence \/ AddOutput \/ ChangeOutput

Spec == Init /\ [][Next]_vars

-----------------------------------------------------------------------------
(* Properties                                                              *)

\* The bytes of a value; signatures hold more than bytes.
IsBytes(v) == Len(v) # 3
Data == {v \in {vm.stack[i] : i \in 1..Len(vm.stack)} : IsBytes(v)}
Numerals == {v \in Data : Len(v) <= MaxBytes}
Executing == Running(script, vm) /\ fExec(vm)

\* The machine stays inside the script, and the code that signatures cover begins where it
\* has been or at the start.
SignaturesTypeOK ==
    /\ vm.pc \in 1..(Len(script) + 1)
    /\ vm.begincode \in 1..vm.pc
    /\ \A i \in 1..Len(vm.vfExec) : vm.vfExec[i] \in BOOLEAN
    /\ \A v \in Data : \A i \in 1..Len(v) : v[i] \in Byte
    /\ vm.result \in {"run", "true", "false", "undefined"}
    /\ DOMAIN signed \subseteq {tx.vin[i].n : i \in 1..Len(tx.vin)}

\* <expression> if [statements] [else [statements]] endif: the conditional at q is open at p,
\* and how often its branch has changed on the way.
Opens(from, to) == Cardinality({r \in from..to : script[r].op \in Conditionals \ {"OP_ELSE", "OP_ENDIF"}})
Closes(from, to) == Cardinality({r \in from..to : script[r].op = "OP_ENDIF"})
Encloses(q, p) ==
    /\ script[q].op \in Conditionals \ {"OP_ELSE", "OP_ENDIF"}
    /\ \A r \in q..(p - 1) : Opens(q, r) > Closes(q, r)
Elses(q, p) ==
    Cardinality({r \in q..(p - 1) : script[r].op = "OP_ELSE" /\ Opens(q, r) = Closes(q, r) + 1})

\* The next instruction is executed if and only if the branch it is in has been chosen in every
\* conditional around it, and no script has gone on after an OP_ELSE or OP_ENDIF that belongs to
\* no conditional.  (A conditional that is never closed is none of the machine's concern.)
ConditionalsNest ==
    Running(script, vm) =>
        /\ fExec(vm) <=> \A q \in 1..(vm.pc - 1) :
                            Encloses(q, vm.pc) => took[q] # (Elses(q, vm.pc) % 2 = 1)
        /\ \A r \in 1..(vm.pc - 1) :
              script[r].op \in {"OP_ELSE", "OP_ENDIF"} => Opens(1, r - 1) > Closes(1, r - 1)

\* What the comments say of the stack, by places from the lowest: what an instruction finds,
\* as far as it changes it, and what it leaves.
Disturbs(op) == IF op = "OP_2DROP" THEN 2 ELSE StackNeeds[op]
Effects ==
    [OP_2DROP |-> <<>>, OP_2DUP |-> <<1, 2, 1, 2>>, OP_3DUP |-> <<1, 2, 3, 1, 2, 3>>,
     OP_2OVER |-> <<1, 2, 3, 4, 1, 2>>, OP_2ROT |-> <<3, 4, 5, 6, 1, 2>>,
     OP_2SWAP |-> <<3, 4, 1, 2>>, OP_DROP |-> <<>>, OP_DUP |-> <<1, 1>>, OP_NIP |-> <<2>>,
     OP_OVER |-> <<1, 2, 1>>, OP_ROT |-> <<2, 3, 1>>, OP_SWAP |-> <<2, 1>>,
     OP_TUCK |-> <<2, 1, 2>>]

\* The instructions whose comment does not name the places: (x - 0 | x x), which leaves alone
\* what is no more than 0; -- stacksize; and (xn ... x2 x1 x0 n - xn ... x2 x1 x0 xn), with xn
\* in its place or without.
LeavesByValue(op, s) ==
    LET t == Drop(s, 1)
        n == getint(Top(s, 1))
        x == Len(t) - n     \* the place of xn
    IN  CASE op = "OP_IFDUP" -> t \o (IF setvch(Top(s, 1)) = 0 THEN <<Top(s, 1)>>
                                      ELSE <<Top(s, 1), Top(s, 1)>>)
          [] op = "OP_DEPTH" -> s \o <<getvch(Len(s))>>
          [] op = "OP_PICK"  -> [k \in 1..(Len(t) + 1) |-> IF k <= Len(t) THEN t[k] ELSE t[x]]
          [] op = "OP_ROLL"  -> [k \in 1..Len(t) |->
                                    IF k < x THEN t[k] ELSE IF k < Len(t) THEN t[k + 1] ELSE t[x]]

\* An instruction on the stack does what the comment above it says, (x1 x2 x3 -- x2 x3 x1) and
\* so on, and leaves alone what is below; a substring has the bytes from begin on.
StackAsCommented ==
    [][LET s == vm.stack
           n == Disturbs(Current)
       IN  Executing =>
           /\ Current \in DOMAIN Effects /\ Len(s) >= n =>
                vm'.stack = Drop(s, n) \o [k \in 1..Len(Effects[Current]) |->
                                            s[Len(s) - n + Effects[Current][k]]]
           /\ Current \in {"OP_IFDUP", "OP_DEPTH", "OP_PICK", "OP_ROLL"} /\ vm'.result = "run" =>
                vm'.stack = LeavesByValue(Current, s)
           /\ Current = "OP_SUBSTR" /\ vm'.result = "run" =>
                LET in    == Top(s, 3)
                    first == getint(Top(s, 2))
                    size  == getint(Top(s, 1))
                IN  Top(vm'.stack, 1) =
                        [k \in 1..Cardinality({i \in 1..Len(in) : first < i /\ i <= first + size})
                            |-> in[first + k]]]_vm

\* An OP_...VERIFY is the test without VERIFY and OP_VERIFY after it: it goes on when the test
\* leaves a true value, without it, and the whole script is false otherwise.
Plain ==
    [OP_VERIFY |-> "OP_NOP", OP_EQUALVERIFY |-> "OP_EQUAL", OP_NUMEQUALVERIFY |-> "OP_NUMEQUAL",
     OP_CHECKSIGVERIFY |-> "OP_CHECKSIG", OP_CHECKMULTISIGVERIFY |-> "OP_CHECKMULTISIG"]
FailedTestsFail ==
    [][Executing /\ Current \in DOMAIN Plain =>
        LET plain == Execute([script EXCEPT ![vm.pc].op = Plain[Current]], vm, Purpose)
            passes == plain.result = "run" /\ plain.stack # <<>> /\ CastToBool(Top(plain.stack, 1))
        IN  IF passes THEN vm' = [plain EXCEPT !.stack = Drop(@, 1)]
            ELSE End(vm').result = "false"]_vm

\* OP_CHECKMULTISIG leaves true if and only if keys can be found for the signatures, one for
\* each, in the order of the signatures; for the signatures, the keys and the two counts, and
\* one value more below them, which its comment does not name.
MultiSigInOrder ==
    [][Executing /\ Current = "OP_CHECKMULTISIG" /\ vm'.result = "run" =>
        LET s == vm.stack
            nKeys == getint(Top(s, 1))
            nSigs == getint(Top(s, 2 + nKeys))
            key(k) == Top(s, 1 + k)
            sig(k) == Top(s, 2 + nKeys + k)
            named == 2 + nKeys + nSigs
            code == SelectSeq(SubSeq(script, vm.begincode, Len(script)),
                              LAMBDA i : \A k \in 1..nSigs : i # Push(sig(k)))
            matched == \E f \in [1..nSigs -> 1..nKeys] :
                    /\ \A k \in 2..nSigs : f[k - 1] < f[k]
                    /\ \A k \in 1..nSigs : CheckSig(sig(k), key(f[k]), code, Purpose)
        IN  vm'.stack = Append(SubSeq(s, 1, Len(s) - (named + 1)), BoolValue(matched))]_vm

\* A number survives being written as bytes, on the stack and into a script, and as a compact
\* target keeps its sign and its first three bytes.
NumbersKept ==
    \A v \in Numerals : LET n == setvch(v) IN
        /\ setvch(getvch(n)) = n
        /\ Reverse(setint64(n)) = getvch(n)
CompactKept ==
    \A v \in Numerals : LET n == setvch(v)
                         c == GetCompact(n)
                         m == SetCompact(c) IN
        /\ Magnitude(n) >= Magnitude(m)
        /\ Magnitude(n) - Magnitude(m) < Base ^ (IF c.nSize > 3 THEN c.nSize - 3 ELSE 0)
        /\ n * m >= 0
        /\ GetCompact(m) = c

\* An address that is written in base 58 is read as the same bytes, leading zeros and all.
Base58Kept ==
    \A v \in Numerals : DecodeBase58(EncodeBase58(v)) = v

\* The size before a list is read as it was written, in as many bytes as were foreseen, and
\* what follows it is what followed.
SizesKept ==
    \A v \in Numerals : LET n == Magnitude(setvch(v))
                         w == WriteCompactSize(n) IN
        /\ ReadCompactSize(w \o v) = [ok |-> TRUE, n |-> n, rest |-> v]
        /\ Len(w) = GetSizeOfCompactSize(n)

\* The arithmetic of the words of a uint256 is that of the numbers they stand for.
WordsAreNumbers ==
    \A v, w \in Numerals :
        LET all  == WordBase ^ WIDTH
            n(x) == Magnitude(setvch(x)) % all
            word(x) == Fixed(WordBase, n(x), WIDTH)
            a == word(v)
            b == word(w)
        IN  /\ WordsValue(Plus(a, b)) = (n(v) + n(w)) % all
            /\ WordsValue(Minus(a, b)) = (n(v) - n(w)) % all
            /\ WordsValue(Increment(a)) = (n(v) + 1) % all
            /\ WordsValue(Decrement(a)) = (n(v) - 1) % all
            /\ Less(a, b) <=> n(v) < n(w)
            /\ \A shift \in 0..(WIDTH * WordBits - 1) :
                  /\ WordsValue(LeftShift(a, shift)) = (n(v) * 2 ^ shift) % all
                  /\ WordsValue(RightShift(a, shift)) = n(v) \div 2 ^ shift

\* A script that is written as bytes is read back instruction by instruction, whatever is in
\* the values, up to the one that is cut off.
Written ==
    /\ vm.pc = 1
    /\ \A i \in 1..Len(script) :
          \/ script[i].op = "OP_PUSH" /\ IsBytes(script[i].data)
          \/ script[i] \in {Op("OP_CODESEPARATOR"), CutOff}
ScriptsReadBack ==
    Written =>
        LET r == ReadAll(Bytes(script))
            read == Readable(script)
        IN  /\ r.pc = Len(Bytes(read)) + 1
            /\ Len(r.ops) = Len(read)
            /\ \A i \in 1..Len(read) :
                  IF script[i].op = "OP_PUSH" THEN r.ops[i][2] = script[i].data
                  ELSE r.ops[i] = <<OpByte(script[i].op), <<>>>>

\* Deleting bytes from a script deletes all the instructions that are these bytes, and no
\* others: not the bytes inside of a value, and not what is left of one that is cut off.
WholeInstructionsDeleted ==
    Written =>
        \A b \in {script[i] : i \in 1..Len(script)} \ {CutOff} :
            DeleteBytes(Bytes(script), InstructionBytes(b)) = Bytes(FindAndDelete(script, b))

\* What a signature of the type covers, by the comments in SignatureHash: old with its input
\* at is what was signed.
Covers(nHashType, old, at, t, i) ==
    IF Kind(nHashType) = SIGHASH_SINGLE /\ at > Len(old.vout) THEN i > Len(t.vout)
    ELSE /\ t.vin[i].nSequence = old.vin[at].nSequence
         /\ Kind(nHashType) = SIGHASH_ALL => t.vout = old.vout
         /\ Kind(nHashType) = SIGHASH_SINGLE =>
                i = at /\ i <= Len(t.vout) /\ t.vout[i] = old.vout[i]
         /\ ~AnyoneCanPay(nHashType) =>
                /\ Len(t.vin) = Len(old.vin) /\ i = at
                /\ \A j \in 1..Len(t.vin) :
                      /\ t.vin[j].n = old.vin[j].n
                      /\ Kind(nHashType) = SIGHASH_ALL => t.vin[j].nSequence = old.vin[j].nSequence

\* However others go on with a transaction, sign their inputs, add and change: a signature
\* verifies as long as nothing it covers has changed, and no longer.
SignatureCovers ==
    script = <<>> => \A i \in 1..Len(tx.vin) :
        tx.vin[i].n \in DOMAIN signed =>
            LET s == signed[tx.vin[i].n]
            IN  VerifySignature(tx, i, 0) <=> Covers(s.type, s.tx, s.at, tx, i)

\* The scripts that are recognized as paying to the wallet are those that pay to one of its
\* keys or its hash, and its key and address are the ones they pay to.  So are the same scripts
\* with an instruction after it that is cut off: those count as the wallet's, but nobody can
\* spend them.  All others of the wallet's can be signed for, with every type.
OwnCoinsSpendable ==
    script = <<>> => \A i \in 1..Len(tx.vin) :
        LET coin == Coins[tx.vin[i].n]
            To(k) == {PayToPubKey(Key(k)), SetBitcoinAddress(HashOf(Key(k)))}
            Pays(k) == \E c \in To(k) : coin \in {c, Append(c, CutOff)}
            Spendable == \E k \in MyKeys : coin \in To(k)
        IN  /\ IsMine(coin) <=> \E k \in MyKeys : Pays(k)
            /\ \A k \in MyKeys : Pays(k) =>
                  /\ ExtractPubKey(coin, TRUE) = {Key(k)}
                  /\ ExtractHash160(coin) \subseteq {HashOf(Key(k))}
            /\ tx.vin[i].scriptSig = <<>> =>
                  \A t \in HashTypes :
                      /\ Spendable <=> SignSignature(tx, i, t) # {}
                      /\ \A s \in SignSignature(tx, i, t) : VerifySignature(s, i, t)

\* The machine at every step: values of their types, and conditionals that nest.
MachineInv == SignaturesTypeOK /\ ConditionalsNest

\* What instructions do: those on the stack and those that verify what their comments say, and
\* OP_CHECKMULTISIG what its comment says and one value more.
InstructionEffects == StackAsCommented /\ FailedTestsFail /\ MultiSigInOrder

\* A signature covers what its type says, whatever separators and signatures are deleted from
\* the script it signs, and the wallet can sign for what it takes for its own, but for a script
\* that is cut off.
SignaturesSound == WholeInstructionsDeleted /\ SignatureCovers /\ OwnCoinsSpendable
=============================================================================
