------------------------------ MODULE AvrAscon -------------------------------
(***************************************************************************)
(* The programs of tools/genavr that generate the AVR assembly of the      *)
(* library: ascon_permute and ascon_backend_free, ascon_x2_permute for two *)
(* and for three shares, ascon_x3_permute; and the function that is        *)
(* written out around what they generate.                                  *)
(*                                                                         *)
(* A program is a sequence of pieces, a piece a sequence of calls.         *)
(***************************************************************************)
EXTENDS AvrCode

reversed(name) == <<name, <<7, 6, 5, 4, 3, 2, 1, 0>> >>
Part(name, byte) == <<name, <<byte>> >>
ASCON_BYTE(word, byte) == word * 8 + 7 - byte
ASCON_WORD(word) == word * 8

Alloc(name, size) == <<"allocateReg", name, size>>
AllocBytes(names) == [i \in DOMAIN names |-> Alloc(names[i], 1)]
Release(names) == [i \in DOMAIN names |-> <<"releaseReg", V(names[i])>>]
OneReg(op, a) == <<op, V(a)>>
TwoReg(op, a, b) == <<op, V(a), V(b)>>
\* Steps written with names, some of which stand for another register.
Operand(regs, name) == IF name \in DOMAIN regs THEN regs[name] ELSE V(name)
Steps(regs, steps) ==
    [k \in DOMAIN steps |->
        IF Len(steps[k]) = 2 THEN << steps[k][1], Operand(regs, steps[k][2]) >>
        ELSE << steps[k][1], Operand(regs, steps[k][2]), Operand(regs, steps[k][3]) >>]

\* round = ((0x0F - round) << 4) | round, the first round constant.
FirstConstant ==
    << <<"allocateHighReg", "temp", 1>>, <<"move_imm", V("temp"), 15>>,
       TwoReg("sub", "temp", "round"), OneReg("SWAP", "temp"),
       TwoReg("logor", "round", "temp"), OneReg("releaseReg", "temp") >>
NextConstant(label) ==
    << <<"sub_imm", V("round"), 15>>, <<"compare_and_loop", V("round"), 60, label>> >>

\* x ^= (x >>> shift1) ^ (x >>> shift2), through t.
RotationsAdded(x, shift1, shift2) ==
    << TwoReg("move", "t", x), <<"ror", V("t"), shift1>>, TwoReg("logxor", "t", x),
       <<"ror", V(x), shift2>>, TwoReg("logxor", x, "t") >>

(* ----- ascon_permute: x2 and x4 stay in registers ----- *)

\* The S-box on bytes; x2 ends with x0, x4 with x2, x1 with x4, x3 with x1 and x0 with x3.
SboxSteps ==
    << <<"move", "t0", "x1">>, <<"move", "t1", "x0">>, <<"move", "t2", "x3">>,
       <<"logxor", "t0", "x2">>, <<"logxor", "t1", "x4">>, <<"logxor", "t2", "x4">>,
       <<"lognot", "x4">>, <<"logor", "x4", "x3">>, <<"logxor", "x4", "t0">>,
       <<"logxor", "x3", "x1">>, <<"logor", "x3", "t0">>, <<"logxor", "x3", "t1">>,
       <<"logxor", "x2", "t1">>, <<"logor", "x2", "x1">>, <<"logxor", "x2", "t2">>,
       <<"lognot", "t1">>, <<"logand", "x1", "t1">>, <<"logxor", "x1", "t2">>,
       <<"logor", "x0", "t2">>, <<"logxor", "x0", "t0">> >>
ascon_substitute(i) ==
    AllocBytes(<<"x0", "x1", "x3">>)
    \o << <<"ldz", V("x0"), ASCON_BYTE(0, i)>>, <<"ldz", V("x1"), ASCON_BYTE(1, i)>>,
          <<"ldz", V("x3"), ASCON_BYTE(3, i)>> >>
    \o AllocBytes(<<"t0", "t1", "t2">>)
    \o Steps([x2 |-> Part("x2", i), x4 |-> Part("x4", i)], SboxSteps)
    \o << <<"stz", V("x0"), ASCON_BYTE(3, i)>>, <<"stz", V("x1"), ASCON_BYTE(4, i)>>,
          <<"stz", V("x3"), ASCON_BYTE(1, i)>>, <<"stz", Part("x4", i), ASCON_BYTE(2, i)>> >>
    \o Release(<<"x0", "x1", "x3", "t0", "t1", "t2">>)

ascon_diffuse(x, word, shift1, shift2) ==
    << Alloc("t", 8) >>
    \o (IF word # 0 THEN << <<"ldz", reversed(x), ASCON_WORD(word)>> >> ELSE <<>>)
    \o RotationsAdded(x, shift1, shift2)
    \o (IF word \notin {2, 4} THEN << <<"stz", reversed(x), ASCON_WORD(word)>> >> ELSE <<>>)
    \o Release(<<"t">>)

gen_ascon_permutation ==
    << << <<"prologue_permutation_with_count", "round", 0>>, <<"setFlag", "NoLocals">> >>
         \o FirstConstant
         \o << Alloc("x2", 8), Alloc("x4", 8), <<"ldz", reversed("x2"), ASCON_WORD(2)>>,
               <<"ldz", reversed("x4"), ASCON_WORD(4)>>,
               <<"LABEL", "top_label">>, TwoReg("logxor", "x2", "round") >> >>
    \o [k \in 1 .. 8 |-> ascon_substitute(k - 1)]
    \o << ascon_diffuse("x2", 0, 19, 28), ascon_diffuse("x4", 1, 61, 39),
          ascon_diffuse("x2", 2, 1, 6), ascon_diffuse("x4", 3, 10, 17),
          ascon_diffuse("x4", 4, 7, 41),
          NextConstant("top_label")
            \o << <<"stz", reversed("x2"), ASCON_WORD(2)>>,
                  <<"stz", reversed("x4"), ASCON_WORD(4)>> >> >>

gen_ascon_cleanup ==
    << << <<"prologue_permutation", "none", 0>>, <<"setFlag", "NoLocals">>, <<"setFlag", "TempR0">>,
          <<"explicitReg", "r0", TEMP_REG, 1>>, <<"explicitReg", "r18to23", 18, 6>>,
          <<"explicitReg", "r26to27", 26, 2>>, <<"move_imm", V("r18to23"), 0>>,
          <<"move_imm", V("r26to27"), 0>>, <<"move_imm", V("r0"), 0>> >> >>

(***************************************************************************)
(* The masked permutations.  A word is in the state, big-endian, at an     *)
(* offset from Z below 64, or in the locals, little-endian, from 64 on.    *)
(***************************************************************************)
ASCON_OFFSET_ADJUST == 64
AtByte(state, local, reg, offset, byte) ==
    IF offset < 64 THEN <<state, reg, offset + 7 - byte>> ELSE <<local, reg, offset + byte - 64>>
AtWord(state, local, name, offset) ==
    IF offset < 64 THEN <<state, reversed(name), offset>> ELSE <<local, V(name), offset - 64>>
load_byte(name, offset, share, byte) ==
    AtByte("ldz", "ldlocal", V(name), offset + share * 8, byte)
store_byte(name, offset, share, byte) ==
    AtByte("stz", "stlocal", V(name), offset + share * 8, byte)
load_word(name, offset, share) == AtWord("ldz", "ldlocal", name, offset + share * 8)
store_word(name, offset, share) == AtWord("stz", "stlocal", name, offset + share * 8)

\* What is loaded and stored: << register, word, share >>.
LoadBytes(which, loc, i) ==
    [k \in DOMAIN which |-> load_byte(which[k][1], loc[which[k][2]], which[k][3], i)]
StoreBytes(which, loc, i) ==
    [k \in DOMAIN which |-> store_byte(which[k][1], loc[which[k][2]], which[k][3], i)]
FirstOfEach(which) == [k \in DOMAIN which |-> which[k][1]]
\* Words << word, share >> between their places in the state and where they are worked on.
Transferred(name, which, st, loc) ==
    FlattenSeq([k \in DOMAIN which |->
        << load_word(name, st[which[k][1]] - ASCON_OFFSET_ADJUST, which[k][2]),
           store_word(name, loc[which[k][1]], which[k][2]) >>])
TransferredBack(name, which, st, loc) ==
    FlattenSeq([k \in DOMAIN which |->
        << load_word(name, loc[which[k][1]], which[k][2]),
           store_word(name, st[which[k][1]] - ASCON_OFFSET_ADJUST, which[k][2]) >>])
diffuse(x, resident, offset, share, shift1, shift2) ==
    << Alloc("t", 8) >>
    \o (IF resident THEN <<>> ELSE << load_word(x, offset, share) >>)
    \o RotationsAdded(x, shift1, shift2)
    \o (IF resident THEN <<>> ELSE << store_word(x, offset, share) >>)
    \o Release(<<"t">>)
\* The rotations of the words.
Shifts == << <<19, 28>>, <<61, 39>>, <<1, 6>>, <<10, 17>>, <<7, 41>> >>
AdjustZ == <<"add_ptr", 30, ASCON_OFFSET_ADJUST>>
AdjustBackZ == <<"add_ptr", 30, -ASCON_OFFSET_ADJUST>>

(* ----- two shares ----- *)

\* x2 is a byte of the register that x2.a is kept in.
Shares == [x0 |-> <<"x0_a", "x0_b", "x0_c">>, x1 |-> <<"x1_a", "x1_b", "x1_c">>,
           x2 |-> <<"x2_a", "x2_b", "x2_c">>, x3 |-> <<"x3_a", "x3_b", "x3_c">>,
           x4 |-> <<"x4_a", "x4_b", "x4_c">>, t0 |-> <<"t0_a", "t0_b", "t0_c">>,
           t1 |-> <<"t1_a", "t1_b", "t1_c">>]
ShareOf(regs, x, share) == Operand(regs, Shares[x][share])
OfShares(regs, x, y, z) ==
    [x_a |-> ShareOf(regs, x, 1), x_b |-> ShareOf(regs, x, 2), x_c |-> ShareOf(regs, x, 3),
     y_a |-> ShareOf(regs, y, 1), y_b |-> ShareOf(regs, y, 2), y_c |-> ShareOf(regs, y, 3),
     z_a |-> ShareOf(regs, z, 1), z_b |-> ShareOf(regs, z, 2), z_c |-> ShareOf(regs, z, 3)]

\* x ^= ~y & z, share by share.
BicXor2Steps ==
    << <<"lognot_of", "t1", "y_a">>, <<"move", "t2", "t1">>,
       <<"logand", "t1", "z_a">>, <<"logand", "t2", "z_b">>,
       <<"logxor", "x_a", "t1">>, <<"logxor", "x_a", "t2">>,
       <<"move", "t1", "y_b">>, <<"move", "t2", "y_b">>,
       <<"logand", "t1", "z_a">>, <<"logand", "t2", "z_b">>,
       <<"logxor", "x_b", "t1">>, <<"logxor", "x_b", "t2">> >>
bic_xor2(regs, x, y, z) ==
    AllocBytes(<<"t1", "t2">>) \o Steps(OfShares(regs, x, y, z), BicXor2Steps)
    \o Release(<<"t1", "t2">>)

\* The part of the substitution layer before and after Chi, for one share.
SboxInSteps(s) ==
    << <<"logxor", Shares.x0[s], Shares.x4[s]>>, <<"logxor", Shares.x4[s], Shares.x3[s]>>,
       <<"logxor", Shares.x2[s], Shares.x1[s]>>, <<"move", Shares.t1[s], Shares.x0[s]>> >>
SboxOutSteps(s) ==
    << <<"logxor", Shares.x1[s], Shares.x0[s]>>, <<"logxor", Shares.x0[s], Shares.x4[s]>>,
       <<"logxor", Shares.x3[s], Shares.x2[s]>> >>
ChiArguments == << <<"t0", "x0", "x1">>, <<"x0", "x1", "x2">>, <<"x1", "x2", "x3">>,
                   <<"x2", "x3", "x4">>, <<"x3", "x4", "t1">> >>
AddT0(shares) == [s \in 1 .. shares |-> <<"logxor", Shares.x4[s], Shares.t0[s]>>]

Bytes2 ==
    << <<"x0_a", 1, 0>>, <<"x0_b", 1, 1>>, <<"x1_a", 2, 0>>, <<"x1_b", 2, 1>>, <<"x2_b", 3, 1>>,
       <<"x3_a", 4, 0>>, <<"x3_b", 4, 1>>, <<"x4_a", 5, 0>>, <<"x4_b", 5, 1>> >>
Locals2 == <<"t0_a", "t0_b", "t1_a", "t1_b">>
\* regs says which byte of x2 stands for x2_a.
substitute2In(regs, loc, i) ==
    AllocBytes(<<"x0_a", "x1_a", "x3_a", "x4_a", "x0_b", "x1_b", "x2_b", "x3_b", "x4_b">>)
    \o LoadBytes(Bytes2, loc, i)
    \o AllocBytes(Locals2)
    \o Steps(regs, SboxInSteps(1) \o SboxInSteps(2))
    \o << load_byte("t0_a", loc[6], 0, i), TwoReg("move", "t0_b", "t0_a") >>
substitute2Chi(regs, n) ==
    bic_xor2(regs, ChiArguments[n][1], ChiArguments[n][2], ChiArguments[n][3])
substitute2Out(regs, loc, i) ==
    Steps(regs, AddT0(2) \o SboxOutSteps(1) \o << <<"lognot", "x2_a">> >> \o SboxOutSteps(2))
    \o StoreBytes(Append(Bytes2, <<"t0_a", 6, 0>>), loc, i)
    \o Release(FirstOfEach(Bytes2) \o Locals2)
X2Byte(i) == [x2_a |-> Part("x2", i)]
ascon_x2_substitute(loc, i) ==
    << substitute2In(X2Byte(i), loc, i) >>
    \o [n \in 1 .. 5 |-> substitute2Chi(X2Byte(i), n)]
    \o << substitute2Out(X2Byte(i), loc, i) >>

\* Where the words and, last, the preserved randomness are.
State2(max_shares) == [k \in 1 .. 5 |-> (k - 1) * 8 * max_shares]
Places2(max_shares) ==
    IF max_shares = 2 THEN <<0, 16, 32, 48, 64, 80>> ELSE <<0, 24, 48, 64, 80, 96>>
Moved2(max_shares) ==
    IF max_shares = 2 THEN << <<5, 0>>, <<5, 1>> >>
    ELSE << <<4, 0>>, <<4, 1>>, <<5, 0>>, <<5, 1>> >>
diffuse2(loc, word, share) ==
    diffuse(IF word = 3 /\ share = 0 THEN "x2" ELSE "t0", word = 3 /\ share = 0,
            loc[word], share, Shifts[word][1], Shifts[word][2])

\* The randomness for the next round: left by 3 and right by 16.
Rerandomized(offset) ==
    << load_word("t0", offset, 0), <<"rol", V("t0"), 3>>,
       <<"stlocal", <<"t0", <<2, 3, 4, 5, 6, 7, 0, 1>> >>, offset - 64>> >>
x2_begin(max_shares, st, loc) ==
    << <<"prologue_masked_permutation", "round", IF max_shares = 2 THEN 24 ELSE 40>>,
       <<"setFlag", "TempR0">> >>
    \o FirstConstant
    \o << Alloc("x2", 8), <<"ldx", reversed("x2"), POST_INC>>, store_word("x2", loc[6], 0),
          <<"setFlag", "TempX">>, load_word("x2", st[3], 0), Alloc("t0", 8), AdjustZ >>
    \o Transferred("t0", Moved2(max_shares), st, loc)
    \o << AdjustBackZ, OneReg("releaseReg", "t0"),
          <<"LABEL", "top_label">>, TwoReg("logxor", "x2", "round") >>
x2_end(max_shares, st, loc) ==
    << store_word("x2", st[3], 0), AdjustZ >>
    \o TransferredBack("x2", Moved2(max_shares), st, loc)
    \o << <<"load_output_ptr", 0>>, load_word("x2", loc[6], 0), <<"stx", reversed("x2"), POST_INC>> >>
gen_x2(max_shares, st, loc) ==
    << x2_begin(max_shares, st, loc) >>
    \o FlattenSeq([k \in 1 .. 8 |-> ascon_x2_substitute(loc, k - 1)])
    \o << << Alloc("t0", 8) >> >>
    \o [k \in 1 .. 5 |-> diffuse2(loc, k, 1)]
    \o [k \in 1 .. 5 |-> diffuse2(loc, k, 0)]
    \o << Rerandomized(loc[6]) \o << OneReg("releaseReg", "t0") >> \o NextConstant("top_label"),
          x2_end(max_shares, st, loc) >>
gen_ascon_x2_permutation(max_shares) == gen_x2(max_shares, State2(max_shares), Places2(max_shares))

(* ----- three shares ----- *)

BicXor3Steps ==
    << <<"lognot_of", "t1", "y_a">>, <<"logand", "t1", "z_a">>, <<"logxor", "x_a", "t1">>,
       <<"move", "t1", "y_a">>, <<"logand", "t1", "z_b">>, <<"logxor", "x_a", "t1">>,
       <<"move", "t1", "y_a">>, <<"logand", "t1", "z_c">>, <<"logxor", "x_a", "t1">>,
       <<"move", "t1", "y_b">>, <<"logand", "t1", "z_a">>, <<"logxor", "x_b", "t1">>,
       <<"lognot_of", "t1", "y_b">>, <<"logand", "t1", "z_b">>, <<"logxor", "x_b", "t1">>,
       <<"move", "t1", "y_b">>, <<"logand", "t1", "z_c">>, <<"logxor", "x_b", "t1">>,
       <<"lognot_of", "t1", "z_a">>, <<"logand", "t1", "y_c">>, <<"logxor", "x_c", "t1">>,
       <<"move", "t1", "y_c">>, <<"logand", "t1", "z_b">>, <<"logxor", "x_c", "t1">>,
       <<"move", "t1", "y_c">>, <<"logor", "t1", "z_c">>, <<"logxor", "x_c", "t1">> >>
bic_xor3(x, y, z) ==
    << Alloc("t1", 1) >> \o Steps(OfShares(<<>>, x, y, z), BicXor3Steps) \o Release(<<"t1">>)

Bytes3 ==
    << <<"x0_a", 1, 0>>, <<"x0_b", 1, 1>>, <<"x0_c", 1, 2>>, <<"x1_a", 2, 0>>, <<"x1_b", 2, 1>>,
       <<"x1_c", 2, 2>>, <<"x2_b", 3, 1>>, <<"x2_c", 3, 2>>, <<"x3_a", 4, 0>>, <<"x3_b", 4, 1>>,
       <<"x3_c", 4, 2>>, <<"x4_a", 5, 0>>, <<"x4_b", 5, 1>>, <<"x4_c", 5, 2>> >>
Order3 == <<"x0_a", "x1_a", "x3_a", "x4_a", "x0_b", "x1_b", "x2_b", "x3_b", "x4_b",
            "x0_c", "x1_c", "x2_c", "x3_c", "x4_c">>
Locals3 == <<"t0_a", "t0_b", "t0_c", "t1_a", "t1_b", "t1_c">>
\* The randomness is read through X, a byte of each of its two words at a time.
substitute3In(loc, i) ==
    AllocBytes(Order3) \o LoadBytes(Bytes3, loc, i) \o AllocBytes(Locals3)
    \o Steps(<<>>, SboxInSteps(1) \o SboxInSteps(2) \o SboxInSteps(3))
    \o << <<"ldx", V("t0_a"), POST_INC>>, <<"ldx", V("t0_b"), 0>>,
          TwoReg("move", "t0_c", "t0_a"), TwoReg("logxor", "t0_c", "t0_b") >>
substitute3Out(loc, i) ==
    Steps(<<>>, AddT0(3) \o SboxOutSteps(1) \o << <<"lognot", "x2_a">> >>
                \o SboxOutSteps(2) \o SboxOutSteps(3))
    \o StoreBytes(Bytes3, loc, i)
    \o << <<"add_ptr", 26, -1>>, <<"stx", V("t0_a"), POST_INC>>, <<"stx", V("t0_b"), POST_INC>> >>
    \o Release(Order3 \o Locals3)
ascon_x3_substitute(loc, i) ==
    << << Alloc("x2_a", 1), load_byte("x2_a", loc[3], 0, i) >>
         \o (IF i = 0 THEN << TwoReg("logxor", "x2_a", "round") >> ELSE <<>>),
       substitute3In(loc, i) >>
    \o [n \in 1 .. 5 |-> bic_xor3(ChiArguments[n][1], ChiArguments[n][2], ChiArguments[n][3])]
    \o << substitute3Out(loc, i)
            \o << store_byte("x2_a", loc[3], 0, i), OneReg("releaseReg", "x2_a") >> >>

Places3 == <<0, 24, 48, 72, 96>>
Moved3 == << <<3, 2>>, <<4, 0>>, <<4, 1>>, <<4, 2>>, <<5, 0>>, <<5, 1>>, <<5, 2>> >>
diffuse3(loc, share) ==
    [k \in 1 .. 5 |-> diffuse("t0", FALSE, loc[k], share, Shifts[k][1], Shifts[k][2])]
\* The two words of randomness: both left by 3, then right by 16 and by 32.
Rerandomized3 ==
    << Alloc("t1", 8) >>
    \o FlattenSeq([k \in 1 .. 8 |-> << <<"ldx", Part("t0", k - 1), POST_INC>>,
                                       <<"ldx", Part("t1", k - 1), POST_INC>> >>])
    \o << <<"rol", V("t0"), 3>>, <<"rol", V("t1"), 3>> >>
    \o FlattenSeq([k \in 1 .. 8 |-> << <<"stx", Part("t0", (10 - k) % 8), PRE_DEC>>,
                                       <<"stx", Part("t1", (12 - k) % 8), PRE_DEC>> >>])
    \o Release(<<"t1", "t0">>)
\* The branch back is too far away for brne: it jumps to a jump.
gen_x3(st, loc) ==
    << << <<"prologue_masked_permutation", "round", 56>> >> \o FirstConstant
         \o << Alloc("t0", 8), AdjustZ >> \o Transferred("t0", Moved3, st, loc)
         \o << AdjustBackZ, OneReg("releaseReg", "t0"), <<"LABEL", "top_label">> >> >>
    \o FlattenSeq([k \in 1 .. 8 |-> ascon_x3_substitute(loc, k - 1)])
    \o << << <<"add_ptr", 26, -16>>, <<"JMP", "label2">>, <<"LABEL", "label1">>,
             <<"JMP", "top_label">>, <<"LABEL", "label2">>, Alloc("t0", 8) >> >>
    \o diffuse3(loc, 2) \o diffuse3(loc, 1) \o diffuse3(loc, 0)
    \o << Rerandomized3 \o NextConstant("label1"),
          << Alloc("t0", 8), AdjustZ >> \o TransferredBack("t0", Moved3, st, loc) >>
gen_ascon_x3_permutation == gen_x3(State2(3), Places3)

Program(kind) ==
    CASE kind = "permute" -> gen_ascon_permutation
      [] kind = "free" -> gen_ascon_cleanup
      [] kind = "x2_2" -> gen_ascon_x2_permutation(2)
      [] kind = "x2_3" -> gen_ascon_x2_permutation(3)
      [] kind = "x3" -> gen_ascon_x3_permutation
Generated(kind) == Calls(EmptyCode, FlattenSeq(Program(kind)))

(***************************************************************************)
(* The function that Code::write puts around the instructions, as the      *)
(* instructions it consists of.  r0 gets the status register, to be put    *)
(* back between the bytes of SP.                                           *)
(***************************************************************************)
\* Mutant: r17 is not saved.
SavedShort(g) == SelectSeq([i \in 1 .. 15 |-> i + 1], LAMBDA reg : reg \in g.usedRegs)

Saved(g) == SelectSeq([i \in 1 .. 16 |-> i + 1], LAMBDA reg : reg \in g.usedRegs)
SavesY(g) == ~hasFlag(g, "NoLocals") \/ hasFlag(g, "TempY")
Pushed(regs) == [i \in DOMAIN regs |-> <<"PUSH", regs[i], 0>>]
Popped(regs) == [i \in DOMAIN regs |-> <<"POP", regs[i], 0>>]
MovedPair(g, to, from) ==
    IF hasFlag(g, "MoveWord") THEN << <<"MOVW", to, from>> >>
    ELSE << <<"MOV", to, from>>, <<"MOV", to + 1, from + 1>> >>

\* The pointer that is pushed, and where Z and X come from; the first argument is in r24.
Extra(g) ==
    CASE g.prologue = "EncryptBlock" -> <<23, 22>>
      [] g.prologue = "EncryptBlockKey2" -> <<25, 24>>
      [] g.prologue = "PermutationMasked" -> <<21, 20>>
      [] OTHER -> <<>>
ZFrom(g) == IF g.prologue \in {"EncryptBlockKey2", "KeySetupReversed", "TinyJAMBU"} THEN 22 ELSE 24
XFrom(g) ==
    CASE g.prologue \in {"EncryptBlock", "EncryptBlockKey2", "PermutationMasked"} -> 20
      [] g.prologue = "KeySetup" -> 22
      [] OTHER -> 24
Parameters(g) ==
    CASE g.prologue = "Permutation" -> MovedPair(g, 30, 24)
      [] g.prologue = "TinyJAMBU" -> MovedPair(g, 26, 24) \o MovedPair(g, 30, 22)
      [] OTHER -> MovedPair(g, 30, ZFrom(g)) \o MovedPair(g, 26, XFrom(g))

YFromStack == << <<"IN_SP", 28, 0>> >>
StackFromY == << <<"LDI", 0, 0>>, <<"OUT_SP", 28, 0>> >>
SubtractedY(g, n) ==
    CASE n % 256 = 0 -> << <<"SUBI", 29, (n \div 256) % 256>> >>
      [] n % 256 # 0 /\ (n \notin 0 .. 63 \/ ~hasFlag(g, "MoveWord")) ->
            << <<"SUBI", 28, n % 256>>, <<"SBCI", 29, (n \div 256) % 256>> >>
      [] OTHER -> << <<"SBIW", 28, n>> >>
AddedY(g, n) ==
    IF n <= 63 /\ hasFlag(g, "MoveWord") THEN << <<"ADIW", 28, n>> >> ELSE SubtractedY(g, -n)
FrameMade(g) ==
    CASE hasFlag(g, "NoLocals") /\ g.locals = 0 -> <<>>
      [] ~(hasFlag(g, "NoLocals") /\ g.locals = 0) /\ g.locals <= 6 ->
            [i \in 1 .. g.locals |-> <<"PUSH", 1, 0>>]
            \o (IF g.locals # 0 \/ ~hasFlag(g, "TempY") THEN YFromStack ELSE <<>>)
      [] OTHER -> YFromStack \o SubtractedY(g, g.locals) \o StackFromY
FrameGone(g, n) ==
    IF n <= 6 THEN [i \in 1 .. n |-> <<"POP", 0, 0>>]
    ELSE (IF hasFlag(g, "TempY") THEN YFromStack ELSE <<>>) \o AddedY(g, n) \o StackFromY

Head1(g) ==
    (IF SavesY(g) THEN Pushed(<<28, 29>>) ELSE <<>>) \o Pushed(Saved(g))
    \o Pushed(Extra(g)) \o Parameters(g) \o FrameMade(g)
Tail1(g) ==
    FrameGone(g, g.locals + Len(Extra(g))) \o Popped(Reverse(Saved(g)))
    \o (IF SavesY(g) THEN Popped(<<29, 28>>) ELSE <<>>)
    \o (IF hasFlag(g, "TempR1") THEN << <<"EOR", 1, 1>> >> ELSE <<>>)
    \o << <<"RET", 0, 0>> >>
WrittenAround(g, head, tail) ==
    [g EXCEPT !.insns = head \o @ \o tail,
              !.labels = [l \in DOMAIN @ |-> IF @[l] < 0 THEN @[l] ELSE @[l] + Len(head)]]
Written(g) == WrittenAround(g, Head1(g), Tail1(g))

=============================================================================
