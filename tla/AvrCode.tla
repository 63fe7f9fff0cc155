------------------------------ MODULE AvrCode -------------------------------
(***************************************************************************)
(* The rest of the code generator for AVR processors: shifts, rotations,   *)
(* bits, tables, prologues, memory, and programs as lists of calls on a    *)
(* Code (AvrEmit).                                                         *)
(***************************************************************************)
EXTENDS AvrEmit

(* ----- shifts ----- *)

asr(g, reg) ==
    Downwards(g, LAMBDA h, i : onereg(h, IF i = Len(reg) THEN "ASR" ELSE "ROR", reg[i]), Len(reg), 1)
lsl1(g, reg) == Each(g, LAMBDA h, i : onereg(h, First(i, "LSL", "ROL"), reg[i]), reg)
lsr1(g, reg) ==
    Downwards(g, LAMBDA h, i : onereg(h, IF i = Len(reg) THEN "LSR" ELSE "ROR", reg[i]), Len(reg), 1)

lsl_bytes(g, reg, count) ==
    IF count = 0 THEN g
    ELSE move_imm(moveHighFirst(g, RegFrom(reg, count), RegPart(reg, 0, Len(reg) - count)),
                  RegPart(reg, 0, count), 0)
lsr_bytes(g, reg, count) ==
    IF count = 0 THEN g
    ELSE move_imm(move(g, RegPart(reg, 0, Len(reg) - count), RegFrom(reg, count), FALSE),
                  RegFrom(reg, Len(reg) - Smaller(count, Len(reg))), 0)

\* By five to seven bits: in the other direction, with one more byte to come from.
LeftFrom(g, temp, bits) ==
    Repeat(zeroreg(g, temp[1], TRUE), LAMBDA h : lsr1(h, temp), 8 - (bits % 8))
LeftTo(g, reg, temp, count) ==
    move_imm(moveHighFirst(g, RegFrom(reg, count), RegPart(temp, 0, Len(reg) - count)),
             RegPart(reg, 0, count), 0)
ShiftedLeft(g, reg, temp, bits) == LeftTo(LeftFrom(g, temp, bits), reg, temp, bits \div 8)
LeftOver(g, reg, bits) ==
    ShiftedLeft(g, reg, g.got \o RegPart(reg, 0, Len(reg) - bits \div 8), bits)
RightFrom(g, temp, bits) ==
    Repeat(zeroreg(g, Last(temp), TRUE), LAMBDA h : lsl1(h, temp), 8 - (bits % 8))
RightTo(g, reg, temp, count) ==
    move_imm(move(g, RegPart(reg, 0, Len(reg) - count), RegPart(temp, 1, Len(reg) - count), FALSE),
             RegPart(reg, Len(reg) - count, count), 0)
ShiftedRight(g, reg, temp, bits) == RightTo(RightFrom(g, temp, bits), reg, temp, bits \div 8)
RightOver(g, reg, bits) ==
    ShiftedRight(g, reg, RegPart(reg, bits \div 8, Len(reg) - bits \div 8) \o g.got, bits)

\* A nibble of one byte; few single bits after whole bytes; or over the temporary.
Nibble(g, reg, mask) == Immediate(onereg(g, "SWAP", reg), "ANDI", "AND", reg, mask)
OneByOne(g, bits) == bits = 1 \/ bits % 8 <= 4 \/ ~have_tempreg(g)
Bits(n) == [k \in 1 .. n |-> k]
lsl(g, reg, bits) ==
    CASE reg = <<>> -> g
      [] reg # <<>> /\ bits = 4 /\ Len(reg) = 1 -> Nibble(g, reg[1], 240)
      [] reg # <<>> /\ ~(bits = 4 /\ Len(reg) = 1) ->
            IF OneByOne(g, bits)
            THEN Repeat(lsl_bytes(g, reg, bits \div 8), LAMBDA h : lsl1(h, reg), bits % 8)
            ELSE LeftOver(tempreg(g), reg, bits)
lsr(g, reg, bits) ==
    CASE reg = <<>> -> g
      [] reg # <<>> /\ bits = 4 /\ Len(reg) = 1 -> Nibble(g, reg[1], 15)
      [] reg # <<>> /\ ~(bits = 4 /\ Len(reg) = 1) ->
            IF OneByOne(g, bits)
            THEN Repeat(lsr_bytes(g, reg, bits \div 8), LAMBDA h : lsr1(h, reg), bits % 8)
            ELSE RightOver(tempreg(g), reg, bits)

(* ----- rotations of whole bytes; the other way round if that is shorter ----- *)

\* A byte is put aside in the register t, or on the stack.
Aside(g, t, reg) == IF t = <<>> THEN onereg(g, "PUSH", reg) ELSE tworeg(g, "MOV", t[1], reg)
Back(g, t, reg) == IF t = <<>> THEN onereg(g, "POP", reg) ELSE tworeg(g, "MOV", reg, t[1])
TempFor(g) == IF have_tempreg(g) THEN tempreg(g) ELSE Got(g, <<>>)

\* In strips of every count-th byte: the bytes of a strip in the order they are overwritten.
StripMoved(g, t, reg, way) ==
    Back(FoldLeft(LAMBDA h, k : tworeg(h, "MOV", reg[way[k]], reg[way[k + 1]]),
                  Aside(g, t, reg[way[1]]), Bits(Len(way) - 1)),
         t, reg[Last(way)])
StripDown(n, count, strip) == [k \in 1 .. n \div count |-> strip + (n \div count - k) * count]
StripUp(n, count, strip) == [k \in 1 .. n \div count |-> strip + (k - 1) * count]
Strips(g, t, reg, count, Way(_, _, _)) ==
    FoldLeft(LAMBDA h, strip : StripMoved(h, t, reg, Way(Len(reg), count, strip)), g, Bits(count))
StripsFrom(g, reg, count, Way(_, _, _)) == Strips(g, g.got, reg, count, Way)

\* Otherwise all that are pushed out are put aside, on the stack where registers lack.
PlusTemp(g) == Got(g, Append(g.got, TEMP_REG))
Spare(g, count) ==
    IF hasFlag(g, "TempR0") THEN allocateOptionalReg(g, count)
    ELSE PlusTemp(allocateOptionalReg(g, count - 1))
Nth(temp, k) == IF k <= Len(temp) THEN << temp[k] >> ELSE <<>>
Around(g, temp, reg, from, to, count, Inner(_)) ==
    FoldLeft(LAMBDA h, k : Back(h, Nth(temp, k), reg[to + k]),
        Inner(FoldLeft(LAMBDA h, k : Aside(h, Nth(temp, k), reg[from + k]), g, Bits(count))),
        Reverse(Bits(count)))
LeftAround(g, temp, reg, count) ==
    releaseReg(Around(g, temp, reg, Len(reg) - count, 0, count,
        LAMBDA h : Downwards(h, LAMBDA e, i : tworeg(e, "MOV", reg[i + count], reg[i]),
                             Len(reg) - count, 1)), temp)
RightAround(g, temp, reg, count) ==
    releaseReg(Around(g, temp, reg, 0, Len(reg) - count, count,
        LAMBDA h : Upwards(h, LAMBDA e, i : tworeg(e, "MOV", reg[i], reg[i + count]),
                           1, Len(reg) - count)), temp)
LeftAside(g, reg, count) == LeftAround(g, g.got, reg, count)
RightAside(g, reg, count) == RightAround(g, g.got, reg, count)

Left(g, reg, count) ==
    CASE count = 0 -> g
      [] count # 0 /\ Len(reg) % count = 0 -> StripsFrom(TempFor(g), reg, count, StripDown)
      [] OTHER -> LeftAside(Spare(g, count), reg, count)
Right(g, reg, count) ==
    CASE count = 0 -> g
      [] count # 0 /\ Len(reg) % count = 0 -> StripsFrom(TempFor(g), reg, count, StripUp)
      [] OTHER -> RightAside(Spare(g, count), reg, count)
\* Exactly half way round, each function rotates in its own direction.
rol_bytes(g, reg, count) ==
    IF count % Len(reg) <= Len(reg) \div 2 THEN Left(g, reg, count % Len(reg))
    ELSE Right(g, reg, Len(reg) - (count % Len(reg)))
ror_bytes(g, reg, count) ==
    IF count % Len(reg) <= Len(reg) \div 2 THEN Right(g, reg, count % Len(reg))
    ELSE Left(g, reg, Len(reg) - (count % Len(reg)))

(* ----- rotations by bits, up to four to one side ----- *)

rol1(g, reg) ==
    IF ~hasFlag(g, "TempR1") THEN tworeg(lsl1(g, reg), "ADC", reg[1], ZERO_REG)
    ELSE bitop(lsl1(bitop(g, "BST", Last(reg), 7), reg), "BLD", reg[1], 0)
ror1(g, reg) == bitop(lsr1(bitop(g, "BST", reg[1], 0), reg), "BLD", Last(reg), 7)

\* The bits shifted out to the right are collected in the temporary register.
Collected(g, temp, reg, bits) ==
    tworeg(Repeat(zeroreg(g, temp, TRUE), LAMBDA h : onereg(lsr1(h, reg), "ROR", temp), bits),
           "OR", Last(reg), temp)
RorWith(g, reg, bits) == Collected(g, g.got[1], reg, bits)
RolFew(g, reg, bits) == Repeat(g, LAMBDA h : rol1(h, reg), bits)
RorFew(g, reg, bits) ==
    CASE bits = 0 -> g
      [] bits # 0 /\ have_tempreg(g) -> RorWith(tempreg(g), reg, bits)
      [] OTHER -> Repeat(g, LAMBDA h : ror1(h, reg), bits)
\* One bit that is left of a rotation the other way is rotated by itself.
RorRest(g, reg, bits) == IF bits = 1 THEN ror1(g, reg) ELSE RorFew(g, reg, bits)

rol(g, reg, bits) ==
    CASE bits = 0 \/ reg = <<>> -> g
      [] bits = 1 /\ reg # <<>> -> rol1(g, reg)
      [] bits = 4 /\ Len(reg) = 1 -> onereg(g, "SWAP", reg[1])
      [] bits > 1 /\ reg # <<>> /\ ~(bits = 4 /\ Len(reg) = 1) ->
            IF bits % 8 <= 4 THEN RolFew(rol_bytes(g, reg, bits \div 8), reg, bits % 8)
            ELSE RorRest(rol_bytes(g, reg, bits \div 8 + 1), reg, 8 - (bits % 8))
ror(g, reg, bits) ==
    CASE bits = 0 \/ reg = <<>> -> g
      [] bits = 1 /\ reg # <<>> -> ror1(g, reg)
      [] bits = 4 /\ Len(reg) = 1 -> onereg(g, "SWAP", reg[1])
      [] bits > 1 /\ reg # <<>> /\ ~(bits = 4 /\ Len(reg) = 1) ->
            IF bits % 8 <= 4 THEN RorFew(ror_bytes(g, reg, bits \div 8), reg, bits % 8)
            ELSE RolFew(ror_bytes(g, reg, bits \div 8 + 1), reg, 8 - (bits % 8))

(* ----- single bits, counted from the lowest of the first byte ----- *)

bit_get(g, reg, bit) == bitop(g, "BST", reg[bit \div 8 + 1], bit % 8)
bit_put(g, reg, bit) == bitop(g, "BLD", reg[bit \div 8 + 1], bit % 8)

\* perm[i + 1] is where bit i goes to or, inverted, where it comes from.
IsPermutation(perm) == Range(perm) = 0 .. Len(perm) - 1
Comes(perm, inverse) ==
    IF inverse THEN perm
    ELSE [i \in DOMAIN perm |-> (CHOOSE j \in DOMAIN perm : perm[j] = i - 1) - 1]
CycleFrom(P, bit) ==
    FoldLeft(LAMBDA path, k : IF P[Last(path) + 1] = bit THEN path ELSE Append(path, P[Last(path) + 1]),
             <<bit>>, P)
BitCopied(g, reg, from, to) == IF g.ok THEN bit_put(bit_get(g, reg, from), reg, to) ELSE g
CycleMoved(g, temp, reg, path) ==
    bit_put(bitop(
        FoldLeft(LAMBDA h, k : BitCopied(h, reg, path[k + 1], path[k]),
                 bitop(bit_get(g, reg, path[1]), "BLD", temp, 0), Bits(Len(path) - 1)),
        "BST", temp, 0), reg, Last(path))
\* A cycle is moved when its lowest bit is met.
BitMoved(g, temp, reg, path) ==
    IF g.ok /\ Len(path) > 1 /\ path[1] = Min(Range(path)) THEN CycleMoved(g, temp, reg, path) ELSE g
BitsMoved(g, temp, reg, P) ==
    FoldLeft(LAMBDA h, k : BitMoved(h, temp, reg, CycleFrom(P, k - 1)), g, Bits(Len(P)))
BitsThrough(g, reg, P) == BitsMoved(g, g.got[1], reg, P)
bit_permute(g, reg, perm, inverse) ==
    IF Len(perm) > 8 * Len(reg) \/ (~inverse /\ ~IsPermutation(perm)) THEN Failed(g)
    ELSE BitsThrough(tempreg(g), reg, Comes(perm, inverse))

(***************************************************************************)
(* t = ((reg1 >> shift) ^ reg2) & mask; reg2 ^= t; reg1 ^= t << shift, on  *)
(* the bytes that the mask can reach.                                      *)
(***************************************************************************)
Masked(g, t, reg2, mask) == logxor(logand_imm(logxor(g, t, reg2), t, mask), reg2, t)
SwapTop(g, t, a, b, mask, shift) ==
    logxor(lsl(Masked(lsr(move(g, t, a, FALSE), t, shift), t, b, mask), t, shift), a, t)
\* All of t goes into b, the two bytes above the mask included.
LowMasked(g, t, b, mask) ==
    logxor(logand_imm(logxor(g, RegPart(t, 0, 2), RegPart(b, 0, 2)), RegPart(t, 0, 2), mask), b, t)
SwapLow(g, t, a, b, mask, shift) ==
    logxor(lsl(move_imm(LowMasked(lsr(move(g, t, a, FALSE), t, shift), t, b, mask),
                        RegPart(t, 2, 2), 0), t, shift), a, t)
SwapMasked(g, t, a, b, mask, shift) ==
    CASE Len(a) = 4 /\ mask % 65536 = 0 ->
            SwapTop(g, RegPart(t, 0, 2), RegPart(a, 2, 2), RegPart(b, 2, 2), mask \div 65536, shift)
      [] Len(a) = 4 /\ mask % 65536 # 0 /\ mask \div 65536 = 0 -> SwapLow(g, t, a, b, mask, shift)
      [] OTHER -> SwapTop(g, t, a, b, mask, shift)
SwapAllocated(g, t, a, b, mask, shift) == releaseReg(SwapMasked(g, t, a, b, mask, shift), t)
SwapIn(g, a, b, mask, shift) == SwapAllocated(g, g.got, a, b, mask, shift)
swapmove(g, reg1, reg2, mask, shift) ==
    CASE Len(reg1) # Len(reg2) -> Failed(g)
      [] Len(reg1) = Len(reg2) /\ mask = 255 /\ shift = 8 * (Len(reg1) - 1) ->
            swap(g, << Last(reg1) >>, << reg2[1] >>)
      [] Len(reg1) = 4 /\ Len(reg2) = 4 /\ mask = 65535 /\ shift = 16 ->
            swap(g, RegPart(reg1, 2, 2), RegPart(reg2, 0, 2))
      [] OTHER -> SwapIn(allocateRegPreferHigh(g, Len(reg1)), reg1, reg2, mask, shift)

(* ----- tables; the register that the assembler needs is allocated and released ----- *)

TableInsn(g, type, num, sbox) ==
    releaseReg([g EXCEPT !.insns = Append(@, <<type, g.got[1], num>>),
                         !.sboxes = (num :> sbox) @@ @], g.got)
sbox_setup(g, num, sbox) == TableInsn(allocateHighReg(g, 1), "LPM_SETUP", num, sbox)
sbox_switch(g, num, sbox) == TableInsn(allocateHighReg(g, 1), "LPM_SWITCH", num, sbox)
sbox_adjust(g, reg) == onereg(g, "LPM_ADJUST", reg[1])
sbox_cleanup(g) == bare(g, "LPM_CLEAN")
sbox_lookup(g, reg1, reg2) == Bytewise(g, "LPM_SBOX", reg1, reg2)

(* ----- the function: its kind, its locals, the registers of its arguments ----- *)

Prologue(g, type, locals) == [g EXCEPT !.prologue = type, !.locals = locals]
ArgumentIn(g, reg) ==
    [g EXCEPT !.allocated = @ \cup {reg}, !.usedRegs = @ \cup {reg}, !.got = <<reg>>]
prologue_setup_key(g, locals) == Prologue(g, "KeySetup", locals)
prologue_setup_key_reversed(g, locals) == Prologue(g, "KeySetupReversed", locals)
prologue_encrypt_block(g, locals) == Prologue(g, "EncryptBlock", locals)
prologue_encrypt_block_with_tweak(g, locals) == ArgumentIn(prologue_encrypt_block(g, locals), 18)
prologue_encrypt_block_key2(g, locals) == Prologue(g, "EncryptBlockKey2", locals)
prologue_permutation(g, locals) == setFlag(Prologue(g, "Permutation", locals), "TempX")
prologue_permutation_with_count(g, locals) == ArgumentIn(prologue_permutation(g, locals), 22)
prologue_masked_permutation(g, locals) == ArgumentIn(Prologue(g, "PermutationMasked", locals), 22)
prologue_tinyjambu(g) == ArgumentIn(Prologue(g, "TinyJAMBU", 0), 20)

Even(size) == size + (size % 2)
FirstFree(g) ==
    CASE g.prologue \in {"EncryptBlock", "EncryptBlockKey2", "PermutationMasked"} -> 20
      [] g.prologue \in {"KeySetup", "KeySetupReversed"} -> 22
      [] g.prologue = "Permutation" -> IF 22 \in g.allocated THEN 22 ELSE 24
      [] g.prologue = "TinyJAMBU" -> 18
arg(g, size) == allocateExplicitReg(g, FirstFree(g) - Even(size), size)
return_value(g, size) == allocateExplicitReg(g, 26 - Even(size), size)

(* ----- doubling in GF(2^n) ----- *)

Feedback1(g, temp, reg, feedback) ==
    tworeg(immreg(tworeg(zeroreg(g, temp, FALSE), "SBC", temp, temp), "ANDI", temp, feedback % 256),
           "EOR", reg[1], temp)
FeedbackByte(g, temp, mask, reg, b) ==
    tworeg(tworeg(immreg(g, "LDI", temp, b), "AND", temp, mask), "EOR", reg, temp)
Feedback2(g, temp, mask, reg, feedback) ==
    FeedbackByte(FeedbackByte(tworeg(zeroreg(g, mask, FALSE), "SBC", mask, mask),
                              temp, mask, reg[1], feedback % 256),
                 temp, mask, reg[2], feedback \div 256)
Feedback2With(g, temp, reg, feedback) == Feedback2(g, temp, g.got[1], reg, feedback)
DoubledBy(g, temp, reg, feedback) ==
    releaseReg(IF feedback < 256 \/ Len(reg) = 1 THEN Feedback1(g, temp, reg, feedback)
               ELSE Feedback2With(tempreg(g), temp, reg, feedback), <<temp>>)
Doubled(g, reg, feedback) == DoubledBy(g, g.got[1], reg, feedback)
double_gf(g, reg, feedback) ==
    IF reg = <<>> THEN g ELSE Doubled(allocateHighReg(lsl1(g, reg), 1), reg, feedback)

(* ----- memory ----- *)

\* A pointer is moved by an immediate word, or the negative is subtracted.
SubtractedFrom(g, reg, low, high) ==
    CASE low = 0 -> immreg(g, "SUBI", reg + 1, high)
      [] low # 0 /\ (high # 0 \/ hasFlag(g, "TempR1")) ->
            immreg(immreg(g, "SUBI", reg, low), "SBCI", reg + 1, high)
      [] OTHER -> tworeg(immreg(g, "SUBI", reg, low), "SBC", reg + 1, ZERO_REG)
add_ptr(g, reg, offset) ==
    CASE offset = 0 -> g
      [] offset \in 1 .. 63 /\ hasFlag(g, "MoveWord") -> immreg(g, "ADIW", reg, offset)
      [] offset \in -63 .. -1 /\ hasFlag(g, "MoveWord") -> immreg(g, "SBIW", reg, -offset)
      [] OTHER -> SubtractedFrom(g, reg, (-offset) % 256, ((-offset) \div 256) % 256)

\* To the place, through it byte by byte, and back from the last byte.
Walked(g, type, reg) ==
    memory(Upwards(g, LAMBDA h, i : memory(h, type, reg[i], POST_INC), 1, Len(reg) - 1),
           type, Last(reg), 0)
AwayAndBack(g, reg, type, ptr, offset) ==
    add_ptr(Walked(add_ptr(g, ptr, offset), type, reg), ptr, -(offset + Len(reg) - 1))
\* Only a load through X goes to the place and back; a store through X, far away, moves Z.
PointerFor(type) == IF type \in {"LD_Y", "ST_Y"} THEN 28 ELSE 30
ld_st_long(g, reg, type, offset) ==
    CASE reg = <<>> -> g
      [] reg # <<>> /\ type = "LD_X" /\ (offset # 0 \/ Len(reg) > 1) ->
            AwayAndBack(g, reg, type, 26, offset)
      [] reg # <<>> /\ ~(type = "LD_X" /\ (offset # 0 \/ Len(reg) > 1)) ->
            IF offset + Len(reg) <= 64
            THEN Each(g, LAMBDA h, i : memory(h, type, reg[i], offset + i - 1), reg)
            ELSE AwayAndBack(g, reg, type, PointerFor(type), offset)
ld_st(g, reg, type, offset) ==
    CASE offset = PRE_DEC -> Downwards(g, LAMBDA h, i : memory(h, type, reg[i], PRE_DEC), Len(reg), 1)
      [] offset = POST_INC -> Each(g, LAMBDA h, i : memory(h, type, reg[i], POST_INC), reg)
      [] OTHER -> ld_st_long(g, reg, type, offset)

XorLoaded(g, temp, reg, type, offset) == tworeg(memory(g, type, temp, offset), "EOR", reg, temp)
\* The last byte of a register far away is met without moving on.
Step(reg, i) == IF i < Len(reg) THEN POST_INC ELSE 0
Near(reg, offset) == offset + Len(reg) <= 64
LoadsXored(g, temp, reg, type, offset) ==
    IF Near(reg, offset)
    THEN Each(g, LAMBDA h, i : XorLoaded(h, temp, reg[i], type, offset + i - 1), reg)
    ELSE add_ptr(Each(add_ptr(g, PointerFor(type), offset),
                      LAMBDA h, i : XorLoaded(h, temp, reg[i], type, Step(reg, i)), reg),
                 PointerFor(type), -(offset + Len(reg) - 1))
LoadsXoredWith(g, reg, type, offset) == LoadsXored(g, g.got[1], reg, type, offset)
ld_xor(g, reg, type, offset) ==
    IF reg = <<>> THEN tempreg(g) ELSE LoadsXoredWith(tempreg(g), reg, type, offset)

StoreOf(type) == IF type = "LD_Y" THEN "ST_Y" ELSE "ST_Z"
XorStored(g, temp, reg, type, from, to) ==
    memory(tworeg(memory(g, type, temp, from), "EOR", temp, reg), StoreOf(type), temp, to)
XorsStored(g, temp, reg, type, offset) ==
    IF Near(reg, offset)
    THEN Each(g, LAMBDA h, i : XorStored(h, temp, reg[i], type, offset + i - 1, offset + i - 1), reg)
    ELSE add_ptr(Each(add_ptr(g, PointerFor(type), offset),
                      LAMBDA h, i : XorStored(h, temp, reg[i], type, 0, Step(reg, i)), reg),
                 PointerFor(type), -(offset + Len(reg) - 1))
XorsStoredWith(g, reg, type, offset) == XorsStored(g, g.got[1], reg, type, offset)
ld_xor_in(g, reg, type, offset) ==
    IF reg = <<>> THEN tempreg(g) ELSE XorsStoredWith(tempreg(g), reg, type, offset)

ZerosStored(g, zero, type, ptr, offset, count) ==
    IF type = "ST_X" \/ offset + count > 64
    THEN add_ptr(Repeat(add_ptr(g, ptr, offset), LAMBDA h : memory(h, type, zero, POST_INC), count),
                 ptr, -(offset + count))
    ELSE Upwards(g, LAMBDA h, i : memory(h, type, zero, offset + i - 1), 1, count)
ZerosWith(g, zero, type, offset, count) ==
    releaseReg(ZerosStored(g, zero, type, IF type = "ST_X" THEN 26 ELSE PointerFor(type), offset, count),
               <<zero>>)
Cleared(g) == tworeg(g, "EOR", g.got[1], g.got[1])
ZerosFrom(g, type, offset, count) == ZerosWith(g, g.got[1], type, offset, count)
st_zero(g, type, offset, count) ==
    ZerosFrom(IF hasFlag(g, "TempR1") THEN Cleared(allocateReg(g, 1)) ELSE Got(g, <<ZERO_REG>>),
              type, offset, count)

load_output_ptr(g) == ld_st(g, x_ptr, "LD_Y", g.locals + 1)

(***************************************************************************)
(* A generating program is a sequence of calls << operation, operands >>.  *)
(* An operand that is a register is << name, which of its bytes >>, none   *)
(* listed standing for all; "alloc" and its like give a name to what they  *)
(* return.                                                                 *)
(***************************************************************************)
V(name) == <<name, <<>>>>
RegOf(g, opd) ==
    IF opd[2] = <<>> THEN g.env[opd[1]] ELSE [i \in DOMAIN opd[2] |-> g.env[opd[1]][opd[2][i] + 1]]
Bound(g, name) == [g EXCEPT !.env = (name :> g.got) @@ @]

Transfers == {"ldx", "ldy", "ldz", "stx", "sty", "stz", "ldlocal", "stlocal"}
TransferType(op) ==
    CASE op = "ldx" -> "LD_X" [] op = "ldz" -> "LD_Z" [] op \in {"ldy", "ldlocal"} -> "LD_Y"
      [] op = "stx" -> "ST_X" [] op = "stz" -> "ST_Z" [] op \in {"sty", "stlocal"} -> "ST_Y"
Transfer(g, op, reg, offset) ==
    ld_st(g, reg, TransferType(op), IF op \in {"ldlocal", "stlocal"} THEN offset + 1 ELSE offset)

Allocate(g, op, size) ==
    CASE op = "allocateReg" -> allocateReg(g, size)
      [] op = "allocateHighReg" -> allocateHighReg(g, size)
      [] op = "allocateOptionalReg" -> allocateOptionalReg(g, size)
      [] op = "arg" -> arg(g, size)
      [] op = "return_value" -> return_value(g, size)
Allocators == {"allocateReg", "allocateHighReg", "allocateOptionalReg", "arg", "return_value"}

Enter(g, op, locals) ==
    CASE op = "prologue_setup_key" -> prologue_setup_key(g, locals)
      [] op = "prologue_setup_key_reversed" -> prologue_setup_key_reversed(g, locals)
      [] op = "prologue_encrypt_block" -> prologue_encrypt_block(g, locals)
      [] op = "prologue_encrypt_block_with_tweak" -> prologue_encrypt_block_with_tweak(g, locals)
      [] op = "prologue_encrypt_block_key2" -> prologue_encrypt_block_key2(g, locals)
      [] op = "prologue_permutation" -> prologue_permutation(g, locals)
      [] op = "prologue_permutation_with_count" -> prologue_permutation_with_count(g, locals)
      [] op = "prologue_masked_permutation" -> prologue_masked_permutation(g, locals)
      [] op = "prologue_tinyjambu" -> prologue_tinyjambu(g)
Prologues == {"prologue_setup_key", "prologue_setup_key_reversed", "prologue_encrypt_block",
    "prologue_encrypt_block_with_tweak", "prologue_encrypt_block_key2", "prologue_permutation",
    "prologue_permutation_with_count", "prologue_masked_permutation", "prologue_tinyjambu"}

\* Operations on one register; on two; on a register and a number.  The subtraction of
\* a number with a carry in adds, sbc(reg, value) in code.h; sub can be told of a carry.
One(g, op, a) ==
    CASE op = "asr" -> asr(g, a)
      [] op = "clr" -> clr(g, a)
      [] op = "lognot" -> lognot(g, a)
      [] op = "neg" -> neg(g, a)
      [] op = "pop" -> pop(g, a)
      [] op = "push" -> push(g, a)
      [] op = "releaseReg" -> releaseReg(g, a)
      [] op = "sbox_adjust" -> sbox_adjust(g, a)
      [] op = "SWAP" -> onereg(g, "SWAP", a[1])
Two(g, op, a, b) ==
    CASE op = "adc" -> adc(g, a, b)
      [] op = "add" -> add(g, a, b)
      [] op = "compare" -> compare(g, a, b)
      [] op = "logand" -> logand(g, a, b)
      [] op = "logand_not" -> logand_not(g, a, b)
      [] op = "lognot_of" -> lognot_of(g, a, b)
      [] op = "logor" -> logor(g, a, b)
      [] op = "logor_not" -> logor_not(g, a, b)
      [] op = "logxor" -> logxor(g, a, b)
      [] op = "logxor_not" -> logxor_not(g, a, b)
      [] op \in {"move", "move_fill"} -> move(g, a, b, op = "move_fill")
      [] op = "moveHighFirst" -> moveHighFirst(g, a, b)
      [] op = "sbc" -> sbc(g, a, b)
      [] op = "sbox_lookup" -> sbox_lookup(g, a, b)
      [] op = "sub" -> sub(g, a, b)
      [] op = "swap" -> swap(g, a, b)
Numeric(g, op, a, n) ==
    CASE op \in {"add_imm", "adc_imm", "sbc_imm"} -> add_imm(g, a, n, op # "add_imm")
      [] op \in {"sub_imm", "sub_carry"} -> sub_imm(g, a, n, op = "sub_carry")
      [] op = "bit_get" -> bit_get(g, a, n)
      [] op = "bit_put" -> bit_put(g, a, n)
      [] op = "compare_imm" -> compare_imm(g, a, n)
      [] op = "double_gf" -> double_gf(g, a, n)
      [] op = "logand_imm" -> logand_imm(g, a, n)
      [] op = "logor_imm" -> logor_imm(g, a, n)
      [] op = "logxor_imm" -> logxor_imm(g, a, n)
      [] op = "lsl" -> lsl(g, a, n)
      [] op = "lsr" -> lsr(g, a, n)
      [] op = "move_imm" -> move_imm(g, a, n)
      [] op = "rol" -> rol(g, a, n)
      [] op = "ror" -> ror(g, a, n)
      [] op \in Transfers -> Transfer(g, op, a, n)
      [] op = "ldy_xor" -> ld_xor(g, a, "LD_Y", n)
      [] op = "ldz_xor" -> ld_xor(g, a, "LD_Z", n)
      [] op = "ldy_xor_in" -> ld_xor_in(g, a, "LD_Y", n)
      [] op = "ldz_xor_in" -> ld_xor_in(g, a, "LD_Z", n)
OneRegOps == {"asr", "clr", "lognot", "neg", "pop", "push", "releaseReg", "sbox_adjust", "SWAP"}
TwoRegOps == {"adc", "add", "compare", "logand", "logand_not", "lognot_of", "logor", "logor_not",
    "logxor", "logxor_not", "move", "move_fill", "moveHighFirst", "sbc", "sbox_lookup", "sub", "swap"}
Branches == {"BRCC", "BRCS", "BREQ", "BRNE", "JMP", "CALL", "LABEL"}

\* The rest: flags, labels, pointers, tables, and what takes more operands.
Other(g, op, call) ==
    CASE op = "setFlag" -> setFlag(g, call[2])
      [] op = "clearFlag" -> clearFlag(g, call[2])
      [] op = "explicitReg" -> Bound(allocateExplicitReg(g, call[3], call[4]), call[2])
      [] op \in Branches -> branch(g, op, call[2])
      [] op = "RET" -> bare(g, "RET")
      [] op = "add_ptr" -> add_ptr(g, call[2], call[3])
      [] op = "st_zero" -> st_zero(g, call[2], call[3], call[4])
      [] op = "load_output_ptr" -> load_output_ptr(g)
      [] op = "sbox_setup" -> sbox_setup(g, call[2], call[3])
      [] op = "sbox_switch" -> sbox_switch(g, call[2], call[3])
      [] op = "sbox_cleanup" -> sbox_cleanup(g)
      [] op = "compare_and_loop" -> compare_and_loop(g, RegOf(g, call[2]), call[3], call[4])
      [] op = "compare_and_set" ->
            compare_and_set(g, RegOf(g, call[2]), RegOf(g, call[3]), RegOf(g, call[4]), call[5])
      [] op = "logxor_and" -> logxor_and(g, RegOf(g, call[2]), RegOf(g, call[3]), RegOf(g, call[4]))
      [] op = "logxor_or" -> logxor_or(g, RegOf(g, call[2]), RegOf(g, call[3]), RegOf(g, call[4]))
      [] op = "bit_permute" -> bit_permute(g, RegOf(g, call[2]), call[3], call[4])
      [] op = "swapmove" -> swapmove(g, RegOf(g, call[2]), RegOf(g, call[3]), call[4], call[5])

Do(g, call) ==
    CASE call[1] \in Allocators -> Bound(Allocate(g, call[1], call[3]), call[2])
      [] call[1] \in Prologues -> Bound(Enter(g, call[1], call[3]), call[2])
      [] call[1] \in OneRegOps -> One(g, call[1], RegOf(g, call[2]))
      [] call[1] \in TwoRegOps -> Two(g, call[1], RegOf(g, call[2]), RegOf(g, call[3]))
      [] Len(call) = 3 /\ call[1] \notin Allocators \cup Prologues \cup TwoRegOps
            /\ call[1] \notin {"add_ptr", "sbox_setup", "sbox_switch"} ->
            Numeric(g, call[1], RegOf(g, call[2]), call[3])
      [] OTHER -> Other(g, call[1], call)
\* A call that throws is the last one.  In halves, so that the recursion is not deep.
RECURSIVE CallsIn(_, _, _, _)
CallsIn(g, calls, first, last) ==
    CASE ~g.ok \/ first > last -> g
      [] g.ok /\ first = last -> Do(g, calls[first])
      [] g.ok /\ first < last ->
            CallsIn(CallsIn(g, calls, first, (first + last) \div 2),
                    calls, (first + last) \div 2 + 1, last)
Calls(g, calls) == CallsIn(g, calls, 1, Len(calls))

=============================================================================
