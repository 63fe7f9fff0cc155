------------------------------ MODULE AvrObjects -----------------------------
(***************************************************************************)
(* Uses of the AVR code generator: short generating programs, each         *)
(* statement of which is executed by the interpreter as it is emitted; and *)
(* the generators of the library, whose code is run in the interpreter's   *)
(* harness and as the function that is written to the assembly file.       *)
(***************************************************************************)
EXTENDS AvrAscon, Permutations

CONSTANTS
    MaxStatements,      \* statements of a generating program
    AvrRounds           \* first rounds of the permutations that are run

VARIABLES
    avrCode,        \* the Code of the generating program
    avrMachine,     \* the interpreter
    avrWant,        \* history: the values the named registers are to have, as bytes
    avrLength,      \* history: statements so far
    avrRun          \* history: << generator, how it was run, first round, bytes, result >>

avrVars == <<avrCode, avrMachine, avrWant, avrLength, avrRun>>
AvrRests == avrLength = 0 /\ avrRun = <<>> /\ avrWant = <<>>

(* ----- the values of registers: bytes, the lowest first ----- *)

Value(bytes) == FoldLeft(LAMBDA v, k : v * 256 + bytes[k], 0, Reverse(Bits(Len(bytes))))
Valued(v, n) == [i \in 1 .. n |-> ImmByte(v, i)]
BitAt(bytes, k) == k \in 0 .. 8 * Len(bytes) - 1 /\ BitOf(bytes[(k \div 8) + 1], k % 8) = 1
OfBits(n, P(_)) ==
    [i \in 1 .. n |-> FoldLeft(LAMBDA v, j : 2 * v + (IF P(8 * i - j) THEN 1 ELSE 0), 0, Bits(8))]

\* x op y on the bytes of x; a byte that y lacks is 0.
Bitwise2(op, x, y, k) ==
    CASE op = "logand" -> BitAt(x, k) /\ BitAt(y, k)
      [] op = "logor" -> BitAt(x, k) \/ BitAt(y, k)
      [] op = "logxor" -> BitAt(x, k) # BitAt(y, k)
      [] op = "logand_not" -> BitAt(x, k) /\ ~BitAt(y, k)
      [] op = "logor_not" -> BitAt(x, k) \/ ~BitAt(y, k)
      [] op = "logxor_not" -> BitAt(x, k) = BitAt(y, k)
      [] op = "lognot_of" -> ~BitAt(y, k)
Bitwises == {"logand", "logor", "logxor", "logand_not", "logor_not", "logxor_not", "lognot_of"}

\* Bit k of x shifted by n.
ShiftedBit(op, x, n, k) ==
    CASE op = "lsl" -> BitAt(x, k - n)
      [] op = "lsr" -> BitAt(x, k + n)
      [] op = "asr" -> BitAt(x, IF k = 8 * Len(x) - 1 THEN k ELSE k + 1)
      [] op = "rol" -> BitAt(x, (k - n) % (8 * Len(x)))
      [] op = "ror" -> BitAt(x, (k + n) % (8 * Len(x)))
ShiftOps == {"lsl", "lsr", "asr", "rol", "ror"}

Sum(op, x, y, c) ==
    CASE op = "add" -> x + y [] op = "adc" -> x + y + c
      [] op = "sub" -> x - y [] op = "sbc" -> x - y - c
Sums == {"add", "adc", "sub", "sbc"}
SumOf(op, x, y, c) == Valued(Sum(op, Value(x), Value(y), c) % 256 ^ Len(x), Len(x))

Fill(x, y) == [i \in DOMAIN x |-> IF i <= Len(y) THEN y[i] ELSE 0]
Copy(x, y) == [i \in DOMAIN x |-> IF i <= Len(y) THEN y[i] ELSE x[i]]

\* x * 2, with the feedback for the bit that is lost.
DoubledBit(x, feedback, k) ==
    BitAt(x, k - 1) # (BitAt(x, 8 * Len(x) - 1) /\ BitAt(Valued(feedback, 2), k))

(***************************************************************************)
(* A statement is << calls, meanings >>, a meaning << register, value >>;  *)
(* the values are made from the values w that the registers had.           *)
(***************************************************************************)
Logical(op, x, y) == OfBits(Len(x), LAMBDA k : Bitwise2(op, x, y, k))
Shift(op, x, n) == OfBits(Len(x), LAMBDA k : ShiftedBit(op, x, n, k))
Permuted(x, perm, inverse) ==
    OfBits(Len(x), LAMBDA k : BitAt(x, IF k < Len(perm) THEN Comes(perm, inverse)[k + 1] ELSE k))
SwapBit(x, y, mask, shift, k) == BitAt(mask, k) /\ BitAt(x, k + shift) # BitAt(y, k)
SwapUpper(x, y, mask, shift) ==
    OfBits(Len(x), LAMBDA k : BitAt(x, k) # (k >= shift /\ SwapBit(x, y, mask, shift, k - shift)))
SwapLower(x, y, mask, shift) == OfBits(Len(y), LAMBDA k : BitAt(y, k) # SwapBit(x, y, mask, shift, k))
Doubles(x, feedback) == OfBits(Len(x), LAMBDA k : DoubledBit(x, feedback, k))
Nothing == <<>>
Changed(w, meanings) == [n \in DOMAIN w |->
    IF \E i \in DOMAIN meanings : meanings[i][1] = n
    THEN meanings[CHOOSE i \in DOMAIN meanings : meanings[i][1] = n][2] ELSE w[n]]

TwoRegisterStatements(w) ==
    { << << TwoReg(op, p[1], p[2]) >>, << <<p[1], Logical(op, w[p[1]], w[p[2]])>> >> >> :
        op \in Bitwises, p \in { <<"a", "b">>, <<"b", "a">> } }
    \cup { << << TwoReg(op, p[1], p[2]) >>, << <<p[1], SumOf(op, w[p[1]], w[p[2]], 0)>> >> >> :
        op \in {"add", "sub"}, p \in { <<"a", "b">>, <<"b", "a">> } }
    \cup { << << <<"compare_imm", V("c"), 100>>, TwoReg(op, "a", "b") >>,
              << <<"a", SumOf(op, w.a, w.b, IF w.c[1] < 100 THEN 1 ELSE 0)>> >> >> :
        op \in {"adc", "sbc"} }
    \cup { << << TwoReg("move", p[1], p[2]) >>, << <<p[1], Copy(w[p[1]], w[p[2]])>> >> >> :
        p \in { <<"a", "b">>, <<"d", "e">>, <<"f", "a">> } }
    \cup { << << TwoReg("move_fill", "a", "b") >>, << <<"a", Fill(w.a, w.b)>> >> >>,
           << << TwoReg("moveHighFirst", "d", "e") >>, << <<"d", w.e>> >> >>,
           << << TwoReg("swap", "d", "e") >>, << <<"d", w.e>>, <<"e", w.d>> >> >>,
           << << <<"logxor_and", V("a"), V("b"), V("d")>> >>,
              << <<"a", Logical("logxor", w.a, Logical("logand", w.b, w.d))>> >> >>,
           << << <<"logxor_or", V("a"), V("b"), V("d")>> >>,
              << <<"a", Logical("logxor", w.a, Logical("logor", w.b, w.d))>> >> >> }

\* Immediates with a byte that is 0, one that is 1 and one that is 255.
Immediates == {0, 1, 65280, 8323073}
ImmediateOf(op) ==
    CASE op = "logand_imm" -> "logand" [] op = "logor_imm" -> "logor" [] op = "logxor_imm" -> "logxor"
      [] op = "add_imm" -> "add" [] op = "sub_imm" -> "sub"
ImmediateStatements(w) ==
    { << << <<op, V(x), n>> >>, << <<x, Logical(ImmediateOf(op), w[x], Valued(n, Len(w[x])))>> >> >> :
        op \in {"logand_imm", "logor_imm", "logxor_imm"}, x \in {"a", "c"}, n \in Immediates }
    \cup { << << <<op, V(x), n>> >>, << <<x, SumOf(ImmediateOf(op), w[x], Valued(n, Len(w[x])), 0)>> >> >> :
        op \in {"add_imm", "sub_imm"}, x \in {"a", "c"}, n \in {0, 1, 5, 8323073} }
    \cup { << << <<"move_imm", V("a"), n>> >>, << <<"a", Valued(n, 3)>> >> >> : n \in Immediates }
    \* with a register for the meantime
    \cup { << << <<"allocateReg", "t", 1>>, <<"move_imm", V("t"), 0>>, <<"logxor_imm", V("c"), n>>,
                 OneReg("releaseReg", "t") >>,
              << <<"c", Logical("logxor", w.c, <<n>>)>> >> >> : n \in {1, 127} }

ShiftStatements(w) ==
    { << << <<op, V(x), n>> >>, << <<x, Shift(op, w[x], n)>> >> >> :
        op \in {"lsl", "lsr", "rol", "ror"}, x \in {"a", "c"}, n \in {1, 4, 7} }
    \cup { << << <<op, V("a"), n>> >>, << <<"a", Shift(op, w.a, n)>> >> >> :
        op \in {"lsl", "lsr", "rol", "ror"}, n \in {11, 14, 16} }
    \cup { << << <<op, V("f"), n>> >>, << <<"f", Shift(op, w.f, n)>> >> >> :
        op \in {"rol", "ror"}, n \in {16, 27} }
    \cup { << << OneReg("asr", "a") >>, << <<"a", Shift("asr", w.a, 1)>> >> >>,
           << << <<"double_gf", V("a"), 27>> >>, << <<"a", Doubles(w.a, 27)>> >> >>,
           << << <<"double_gf", V("d"), 1057>> >>, << <<"d", Doubles(w.d, 1057)>> >> >> }

Reversal == <<7, 6, 5, 4, 3, 2, 1, 0>>
Turn == <<1, 2, 3, 4, 0, 5, 7, 6, 9, 8>>
BitStatements(w) ==
    { << << <<"bit_permute", V("a"), perm, inverse>> >>, << <<"a", Permuted(w.a, perm, inverse)>> >> >> :
        perm \in {Reversal, Turn}, inverse \in BOOLEAN }
    \cup { << << <<"swapmove", V("d"), V("e"), s[1], s[2]>> >>,
              << <<"d", SwapUpper(w.d, w.e, Valued(s[1], 4), s[2])>>,
                 <<"e", SwapLower(w.d, w.e, Valued(s[1], 4), s[2])>> >> >> :
        s \in { <<255, 24>>, <<65535, 16>>, <<252641280, 4>>, <<252645135, 4>> } }
    \cup { << << <<"bit_get", V("a"), 9>>, <<"bit_put", V("b"), 3>> >>,
              << <<"b", OfBits(2, LAMBDA k : BitAt(IF k = 3 THEN w.a ELSE w.b, IF k = 3 THEN 9 ELSE k))>> >> >>,
           << << OneReg("lognot", "a") >>, << <<"a", Logical("lognot_of", w.a, w.a)>> >> >>,
           << << OneReg("neg", "a") >>, << <<"a", SumOf("sub", <<0, 0, 0>>, w.a, 0)>> >> >>,
           << << OneReg("neg", "c") >>, << <<"c", SumOf("sub", <<0>>, w.c, 0)>> >> >>,
           << << OneReg("push", "a"), OneReg("clr", "a"), OneReg("pop", "a") >>, Nothing >> }

\* Immediates are used on one of two ways, in a loop, and in a routine that is called.
SkipOver(test, reg, n) == << test[1], <<test[2], "skip">>, <<"add_imm", V(reg), n>>, <<"LABEL", "skip">> >>
Unless(holds, reg, x, n) == IF holds THEN Nothing ELSE << <<reg, SumOf("add", x, Valued(n, Len(x)), 0)>> >>
JumpStatements(w) ==
    { << SkipOver(<< <<"compare_imm", V("c"), n>>, "BREQ">>, "b", 5), Unless(w.c = <<n>>, "b", w.b, 5) >> :
        n \in {0, 254} }
    \cup { << SkipOver(<< TwoReg("compare", p[1], p[2]), "BRCS">>, "b", 5),
              Unless(Value(w[p[1]]) < Value(w[p[2]]), "b", w.b, 5) >> :
        p \in { <<"a", "b">>, <<"b", "a">> } }
    \cup { << SkipOver(<< <<"compare_imm", V("b"), 260>>, "BRCC">>, "b", 5),
              Unless(Value(w.b) >= 260, "b", w.b, 5) >>,
           << << <<"move_imm", V("c"), 3>>, <<"LABEL", "top">>, <<"add_imm", V("b"), 5>>,
                 <<"sub_imm", V("c"), 1>>, <<"compare_and_loop", V("c"), 0, "top">> >>,
              << <<"b", SumOf("add", w.b, <<15, 0>>, 0)>>, <<"c", <<0>> >> >> >>,
           << << <<"JMP", "over">>, <<"LABEL", "routine">>, <<"add_imm", V("b"), 5>>, <<"RET">>,
                 <<"LABEL", "over">>, <<"CALL", "routine">>, <<"CALL", "routine">> >>,
              << <<"b", SumOf("add", w.b, <<10, 0>>, 0)>> >> >> }
    \cup { << << <<"compare_and_set", V("b"), Part(p[1], 0), Part(p[2], 0), set>> >>,
              << <<"b", Valued(IF set = 1 THEN IF w[p[1]][1] = w[p[2]][1] THEN 1 ELSE 0
                               ELSE IF (set = 0) = (w[p[1]][1] = w[p[2]][1]) THEN 0 ELSE 65535, 2)>> >> >> :
        p \in { <<"a", "c">>, <<"d", "d">> }, set \in {0, 1, 2} }

\* What a register is stored to is read back, into it or into another.
Around1(op1, op2, reg, offset) ==
    << << <<op1, V(reg), offset>>, OneReg("clr", reg), <<op2, V(reg), offset>> >>, Nothing >>
ZStatements(w) ==
    { Around1("stz", "ldz", "d", offset) : offset \in {3, 80} }
    \cup { << << <<"stz", V("d"), offset>>, <<"ldz_xor", V("e"), offset>> >>,
              << <<"e", Logical("logxor", w.e, w.d)>> >> >> : offset \in {3, 80} }
    \cup { << << <<"stz", V("d"), offset>>, <<"ldz_xor_in", V("e"), offset>>, <<"ldz", V("d"), offset>> >>,
              << <<"d", Logical("logxor", w.d, w.e)>> >> >> : offset \in {3, 80} }
    \cup { << << <<"stz", V("d"), offset>>, <<"st_zero", "ST_Z", offset + 1, 2>>, <<"ldz", V("d"), offset>> >>,
              << <<"d", <<w.d[1], 0, 0, w.d[4]>> >> >> >> : offset \in {3, 80} }
XStatements(w) ==
    { << << <<"stx", V("d"), POST_INC>>, OneReg("clr", "d"), <<"ldx", V("d"), PRE_DEC>> >>, Nothing >>,
      << << <<"stx", V("d"), POST_INC>>, <<"add_ptr", 26, -4>>, <<"st_zero", "ST_X", 1, 2>>,
            <<"ldx", V("d"), 0>> >>, << <<"d", <<w.d[1], 0, 0, w.d[4]>> >> >> >> }
YStatements(w) ==
    { Around1("stlocal", "ldlocal", "f", 7),
      << << <<"sty", V("b"), 2>>, <<"ldy_xor", V("b"), 2>> >>, << <<"b", <<0, 0>> >> >> >> }
Substitution == [i \in 1 .. 512 |-> (7 * i + i \div 256) % 256]
SboxStatements(w) ==
    { << << <<"sbox_setup", 0, Substitution>>, TwoReg("sbox_lookup", "b", "a"), <<"sbox_cleanup">> >>,
         << <<"b", <<Substitution[w.a[1] + 1], Substitution[w.a[2] + 1]>> >> >> >>,
      << << <<"sbox_setup", 0, <<0>> >>, <<"sbox_switch", 1, Substitution>>, <<"move_imm", V("c"), 1>>,
            OneReg("sbox_adjust", "c"), TwoReg("sbox_lookup", "b", "a"), <<"sbox_cleanup">> >>,
         << <<"c", <<1>> >>,
            <<"b", <<Substitution[w.a[1] + 257], Substitution[w.a[2] + 257]>> >> >> >> }

(***************************************************************************)
(* How a program begins: its kind, its flags and its registers, so that    *)
(* the values are in high or in low registers, and that many registers,    *)
(* few or none are left for immediates and for a temporary.                *)
(***************************************************************************)
Named6(low) == IF low THEN << Alloc("d", 4), Alloc("e", 4), Alloc("f", 5), Alloc("a", 3), Alloc("b", 2), Alloc("c", 1) >>
               ELSE << Alloc("c", 1), Alloc("a", 3), Alloc("b", 2), Alloc("d", 4), Alloc("e", 4), Alloc("f", 5) >>
Beginnings ==
    { \* plenty of registers, X among them
      << <<"prologue_permutation", "none", 16>> >> \o Named6(FALSE),
      \* r0 taken; one high register is left for immediates
      << <<"prologue_masked_permutation", "round", 16>>, <<"setFlag", "TempR0">>,
         <<"explicitReg", "r0", 0, 1>>, <<"allocateHighReg", "high", 3>> >> \o Named6(TRUE),
      \* r1 is not zero
      << <<"prologue_encrypt_block", "none", 16>>, <<"setFlag", "TempR1">>,
         <<"explicitReg", "r1", 1, 1>>, <<"arg", "a", 3>>, Alloc("c", 1), Alloc("b", 2), Alloc("d", 4),
         Alloc("e", 4), Alloc("f", 5) >>,
      \* nothing is left
      << <<"prologue_tinyjambu", "rounds", 0>>, <<"setFlag", "TempR0">> >> \o Named6(FALSE)
      \o << <<"allocateOptionalReg", "rest", 30>> >>,
      \* an older processor without movw and adiw, and Z given up
      << <<"prologue_setup_key", "none", 4>>, <<"clearFlag", "MoveWord">>, <<"setFlag", "TempZ">>,
         <<"return_value", "b", 2>>, Alloc("d", 4), Alloc("e", 4), Alloc("f", 5), Alloc("a", 3),
         <<"allocateHighReg", "c", 1>> >>,
      \* a large frame; a tweak; no frame, and Y given up
      << <<"prologue_encrypt_block_key2", "none", 80>> >> \o Named6(TRUE),
      << <<"prologue_encrypt_block_with_tweak", "tweak", 64>>, <<"clearFlag", "MoveWord">> >> \o Named6(TRUE),
      << <<"prologue_setup_key_reversed", "none", 0>>, <<"setFlag", "TempY">>, <<"setFlag", "NoLocals">> >>
      \o Named6(FALSE) }

GivenBytes == [a |-> <<255, 1, 128>>, b |-> <<129, 255>>, c |-> <<254>>, d |-> <<18, 128, 255, 127>>,
          e |-> <<1, 240, 90, 200>>, f |-> <<1, 2, 4, 8, 144>>]
InRegister(s, reg, bytes) ==
    [s EXCEPT !.r = [r \in Range(reg) |-> bytes[CHOOSE i \in DOMAIN reg : reg[i] = r]] @@ @]
Started(g) ==
    FoldLeft(LAMBDA s, n : InRegister(s, g.env[n], GivenBytes[n]),
             WithFrame(WithPair(WithPair(AVRState, 26, FirstBuffer), 30, FirstBuffer), g),
             <<"a", "b", "c", "d", "e", "f">>)

Unallocated(g, reg) == {reg, reg + 1} \cap g.allocated = {}
Statements(g, s, w) ==
    TwoRegisterStatements(w) \cup ImmediateStatements(w) \cup ShiftStatements(w)
    \cup BitStatements(w) \cup JumpStatements(w)
    \cup (IF hasFlag(g, "TempZ") THEN {} ELSE SboxStatements(w))
    \cup (IF hasFlag(g, "TempZ") \/ Pair(s, 30) # FirstBuffer THEN {} ELSE ZStatements(w))
    \cup (IF hasFlag(g, "TempX") THEN {} ELSE XStatements(w))
    \cup (IF g.locals < 16 THEN {} ELSE YStatements(w))

AvrInit ==
    avrCode = EmptyCode /\ avrMachine = AVRState /\ avrWant = <<>> /\ avrLength = 0 /\ avrRun = <<>>

DoBegin ==
    /\ AvrRests
    /\ \E calls \in Beginnings : \E g \in {Calls(EmptyCode, calls)} :
        /\ avrCode' = g
        /\ avrMachine' = Started(g)
    /\ avrWant' = GivenBytes
    /\ UNCHANGED <<avrLength, avrRun>>

\* What a statement leaves for the next one: immediates that are known, registers.
Remembers(g) == g.imm # {} \/ g.allocated # UNION {Range(g.env[n]) : n \in DOMAIN g.env}

\* A statement for which registers are lacking is not one of the program.
DoStatement ==
    /\ avrWant # <<>> /\ avrLength < MaxStatements
    /\ avrLength > 0 => Remembers(avrCode)
    /\ \E st \in Statements(avrCode, avrMachine, avrWant) :
       \E g \in {Calls([avrCode EXCEPT !.refs = <<>>], st[1])} :
        /\ g.ok
        /\ avrCode' = g
        /\ avrMachine' = Execute(avrMachine, g)
        /\ avrWant' = Changed(avrWant, st[2])
    /\ avrLength' = avrLength + 1
    /\ UNCHANGED avrRun

(***************************************************************************)
(* The library's code: in the harness (exec_permutation,                   *)
(* exec_masked_permutation), and as the written function, called by a      *)
(* caller that has something in every register.                            *)
(***************************************************************************)
Kinds == {"permute", "free", "x2_2", "x2_3", "x3"}
SharesOf(kind) == CASE kind = "x2_2" -> 2 [] kind = "x2_3" -> 2 [] kind = "x3" -> 3 [] OTHER -> 1
SlotsOf(kind) == IF kind = "x2_3" THEN 3 ELSE SharesOf(kind)
HasShares(kind) == SharesOf(kind) > 1

AvrState(kind) == [i \in 1 .. 40 * SlotsOf(kind) |-> (37 * i + i \div 7) % 256]
Preserve(kind) == [i \in 1 .. 8 * (SharesOf(kind) - 1) |-> (101 * i + 5) % 256]
Executed(g, kind, round) ==
    IF HasShares(kind) THEN exec_masked_permutation(g, AvrState(kind), round, Preserve(kind))
    ELSE exec_permutation(g, AvrState(kind), round)

PreserveAt(kind) == FirstBuffer + Len(AvrState(kind))
CallerOf(kind) ==
    InMemory(InMemory([AVRState EXCEPT !.r = [r \in DOMAIN @ |-> IF r = 1 \/ r >= SP THEN @[r] ELSE 100 + r]],
                      FirstBuffer, AvrState(kind)), PreserveAt(kind), Preserve(kind))
WithArguments(s, kind, round) ==
    WithPair([WithPair(s, 24, FirstBuffer) EXCEPT !.r[22] = round], 20, PreserveAt(kind))
CalledAs(g, kind, round) ==
    Execute(push16(WithArguments(CallerOf(kind), kind, round), Len(g.insns)), g)

DoGenerate ==
    /\ AvrRests
    /\ \E kind \in Kinds, round \in AvrRounds, how \in {"exec", "call"} :
       \E g \in {Generated(kind)} :
        /\ avrCode' = g
        /\ avrMachine' = IF how = "exec" THEN Executed(g, kind, round) ELSE CalledAs(Written(g), kind, round)
        /\ avrRun' = <<kind, how, round>>
    /\ UNCHANGED <<avrWant, avrLength>>

\* A short program as a function, which is given buffers.
WithPointers(s) == FoldLeft(LAMBDA m, reg : WithPair(m, reg, FirstBuffer), s, <<18, 20, 22, 24>>)
CalledShort(g) == Execute(push16(WithPointers(CallerOf("permute")), Len(g.insns)), g)
DoCall ==
    /\ avrLength = 1 /\ avrRun = <<>>
    /\ \E g \in {Written(avrCode)} : avrMachine' = CalledShort(g)
    /\ avrRun' = <<"short", "call", 0>>
    /\ avrWant' = <<>>
    /\ UNCHANGED <<avrCode, avrLength>>

AvrNext == DoBegin \/ DoStatement \/ DoGenerate \/ DoCall
AvrSpec == AvrInit /\ [][AvrNext]_avrVars

(***************************************************************************)
(* Properties.                                                             *)
(***************************************************************************)

(***************************************************************************)
(* Whatever statements a generating program is made of, and whichever      *)
(* registers they work on, the emitted instructions compute what the       *)
(* statements mean, and nothing else: every named register has its value,  *)
(* r1 is 0 unless the program took it, the stack is where it was.  The     *)
(* generator keeps immediates in high registers and leaves out the loads   *)
(* of those that it believes to be there (Code::immtemp, tools/genavr/     *)
(* code.cpp:2753); what it believes is wrong once the register is used for *)
(* something else, or once the code can be reached along another way.      *)
(***************************************************************************)
RegisterBytes(s, reg) == [i \in DOMAIN reg |-> s.r[reg[i]]]
EmittedCodeDoesIt ==
    avrWant # <<>> =>
        /\ avrMachine.ok
        /\ \A n \in DOMAIN avrWant : RegisterBytes(avrMachine, avrCode.env[n]) = avrWant[n]
        /\ hasFlag(avrCode, "TempR1") \/ avrMachine.r[1] = 0
        /\ Pair(avrMachine, SP) = MEM_SIZE - avrCode.locals - 1

(***************************************************************************)
(* The functions that the generator writes for the library do what the C   *)
(* backends do, also when they are called as functions: the permutation of *)
(* the sum of the shares is that of ASCON, a third share in a buffer for   *)
(* three is not touched, and ascon_backend_free leaves nothing in the      *)
(* registers that it is to clear.  Whatever a function does, the registers *)
(* that its caller may rely on (r2-r17, Y, SP, and r1 = 0) come back as    *)
(* they were.  The generator's own tests execute the instructions without  *)
(* the prologue and epilogue that Code::write puts around them             *)
(* (tools/genavr/code_out.cpp:393).                                        *)
(***************************************************************************)
LoadedWord(s, at) == FlattenSeq([i \in 1 .. 8 |-> Number(s.memory[at + i - 1], 8)])
ShareAt(s, kind, word, share) == LoadedWord(s, FirstBuffer + 8 * (SlotsOf(kind) * word + share))
ValueAt(s, kind, word) ==
    FoldLeft(WordXor, ShareAt(s, kind, word, 0), [j \in 1 .. SharesOf(kind) - 1 |-> ShareAt(s, kind, word, j)])
ValuesAt(s, kind) == [k \in 1 .. 5 |-> ValueAt(s, kind, k - 1)]
Permutes(kind, round) ==
    ValuesAt(avrMachine, kind) = Reference(Evaluated(ValuesAt(CallerOf(kind), kind)), round)
ThirdShareKept ==
    \A k \in 0 .. 4 : ShareAt(avrMachine, "x2_3", k, 2) = ShareAt(CallerOf("x2_3"), "x2_3", k, 2)
\* movw is taken to use the lower register of its pairs only; one that nothing else is
\* done to is not saved.
MovedUnseen(g) ==
    {g.insns[i][2] + 1 : i \in {j \in DOMAIN g.insns : g.insns[j][1] = "MOVW"}} \ g.usedRegs
CallerKept(caller, overlooked) ==
    \A r \in (1 .. 17 \cup {28, 29, SP, SP + 1}) \ overlooked : avrMachine.r[r] = caller.r[r]
GeneratedIsAscon ==
    avrRun # <<>> =>
        /\ avrCode.ok /\ avrMachine.ok
        /\ avrRun[1] = "free" => \A r \in {0, 26, 27} \cup 18 .. 23 : avrMachine.r[r] = 0
        /\ avrRun[1] \notin {"free", "short"} => Permutes(avrRun[1], avrRun[3])
        /\ avrRun[1] = "x2_3" => ThirdShareKept
        /\ avrRun[2] = "call" /\ avrRun[1] # "short" => CallerKept(CallerOf(avrRun[1]), {})
        /\ avrRun[1] = "short" => CallerKept(CallerOf("permute"), MovedUnseen(avrCode))

=============================================================================
