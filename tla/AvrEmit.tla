------------------------------ MODULE AvrEmit -------------------------------
(***************************************************************************)
(* The code generator for AVR processors (tools/genavr/code.cpp, code.h):  *)
(* a Code is the instructions emitted so far and what is known about the   *)
(* registers.  A Reg is the sequence of the registers that hold a value,   *)
(* lowest byte first.  Every operation maps a Code to the Code after it;   *)
(* one that returns a register leaves it in `got`, one that throws clears  *)
(* `ok`.  `env` holds the registers that the generating program has named. *)
(* Diagnostic printing is left out.                                        *)
(***************************************************************************)
EXTENDS Integers, SequencesExt, AvrMachine

TEMP_REG == 0
ZERO_REG == 1
HighReg(reg) == reg >= 16

\* imm has the high registers that are known to hold an immediate, each with it.
EmptyCode ==
    [insns |-> <<>>, labels |-> <<>>, refs |-> <<>>, flags |-> {"MoveWord"},
     allocated |-> {}, usedRegs |-> {}, imm |-> {}, prologue |-> "Permutation",
     locals |-> 0, sboxes |-> <<>>, env |-> <<>>, got |-> <<>>, ok |-> TRUE]

hasFlag(g, flag) == flag \in g.flags
setFlag(g, flag) == [g EXCEPT !.flags = @ \cup {flag}]
clearFlag(g, flag) == [g EXCEPT !.flags = @ \ {flag}]
\* Thrown; what would follow does not matter.
Failed(g) == [g EXCEPT !.ok = FALSE, !.got = [i \in 1 .. 33 |-> 33]]
Got(g, reg) == [g EXCEPT !.got = reg]

(* ----- registers made of others ----- *)

\* The constructor with an offset and a count goes round at the end of the register.
RegPart(reg, offset, count) ==
    IF offset >= Len(reg) THEN <<>>
    ELSE [i \in 1 .. IF count > Len(reg) THEN Len(reg) ELSE count |->
             reg[((offset + i - 1) % Len(reg)) + 1]]
RegFrom(reg, offset) == RegPart(reg, offset, Len(reg) - offset)
shuffle(reg, pattern) == [i \in DOMAIN reg |-> reg[pattern[i] + 1]]
x_ptr == <<26, 27>>
y_ptr == <<28, 29>>
z_ptr == <<30, 31>>

(* ----- emission: the instruction, and the registers it is said to use ----- *)

Emit(g, type, a, b, used) ==
    [g EXCEPT !.insns = Append(@, <<type, a, b>>), !.usedRegs = @ \cup used]
bare(g, type) ==
    Emit(IF type = "RET" THEN [g EXCEPT !.imm = {}] ELSE g, type, 0, 0, {})
onereg(g, type, reg) == Emit(g, type, reg, 0, {reg})
tworeg(g, type, reg1, reg2) == Emit(g, type, reg1, reg2, {reg1, reg2})
bitop(g, type, reg, bit) == Emit(g, type, reg, bit, {reg})
immreg(g, type, reg, value) == Emit(g, type, reg, value, {reg})
memory(g, type, reg, offset) == Emit(g, type, reg, offset, {reg})

\* A label is a name here; its number is given when it is first mentioned.
\* Mutant: a branch leaves the immediates known.
Remembering(g) == g
Flushed(g) == [g EXCEPT !.imm = {}]

Numbered(g, name, place) ==
    [g EXCEPT !.labels = Append(@, place), !.refs = (name :> Len(g.labels) + 1) @@ @]
Placed(g, l) ==
    IF g.labels[l] # -1 THEN Failed(g) ELSE [g EXCEPT !.labels[l] = Len(g.insns)]
Referred(g, type, name) ==
    IF name \notin DOMAIN g.refs
    THEN Numbered(g, name, IF type = "LABEL" THEN Len(g.insns) ELSE -1)
    ELSE IF type = "LABEL" THEN Placed(g, g.refs[name]) ELSE g
EmittedTo(g, type, name) == Emit(g, type, g.refs[name], 0, {})
branch(g, type, name) == EmittedTo(Referred(Flushed(g), type, name), type, name)

(* ----- allocation ----- *)

RegOrder(g) ==
    <<18, 19, 20, 21, 22, 23>>
    \o (IF hasFlag(g, "TempX") THEN x_ptr ELSE <<>>)
    \o (IF hasFlag(g, "TempY") THEN y_ptr ELSE <<>>)
    \o (IF hasFlag(g, "TempZ") THEN z_ptr ELSE <<>>)
    \o <<2, 3, 4, 5, 6, 7, 8, 9, 10, 11, 12, 13, 14, 15, 24, 25, 16, 17>>
    \o (IF hasFlag(g, "TempR1") THEN <<1>> ELSE <<>>)
    \o (IF hasFlag(g, "TempR0") THEN <<0>> ELSE <<>>)

\* An allocated register is no longer known to hold an immediate.
\* Mutant: it still is.
TakenKnown(g, regs) == [g EXCEPT !.allocated = @ \cup Range(regs), !.got = @ \o regs]
Taken(g, regs) ==
    [g EXCEPT !.allocated = @ \cup Range(regs), !.got = @ \o regs,
              !.imm = {known \in @ : known[1] \notin Range(regs)}]

Spares(g, order, high) ==
    {i \in DOMAIN order : order[i] \notin g.allocated /\ (high => HighReg(order[i]))}
SparePairs(g, order, high) ==
    {i \in 1 .. Len(order) - 1 :
        /\ order[i] % 2 = 0
        /\ order[i + 1] = order[i] + 1
        /\ {order[i], order[i + 1]} \cap g.allocated = {}
        /\ high => HighReg(order[i])}

FirstOf(g, order, pairs, singles) ==
    CASE pairs # {} -> Taken(g, << order[Min(pairs)], order[Min(pairs) + 1] >>)
      [] pairs = {} /\ singles # {} -> Taken(g, << order[Min(singles)] >>)
      [] OTHER -> g
OneMore(g, order, left, high) ==
    IF left <= 0 THEN g
    ELSE FirstOf(g, order,
             IF Len(g.got) % 2 = 0 /\ left >= 2 THEN SparePairs(g, order, high) ELSE {},
             Spares(g, order, high))
Allocated(g, size, high) ==
    FoldLeft(LAMBDA h, k : OneMore(h, RegOrder(g), size - Len(h.got), high), Got(g, <<>>),
             [k \in 1 .. size |-> k])

releaseReg(g, reg) == [g EXCEPT !.allocated = @ \ Range(reg)]
OrFailed(g, size) == IF Len(g.got) < size THEN Failed(releaseReg(g, g.got)) ELSE g
allocateReg(g, size) == OrFailed(Allocated(g, size, FALSE), size)
allocateHighReg(g, size) == OrFailed(Allocated(g, size, TRUE), size)
allocateOptionalReg(g, size) == Allocated(g, size, FALSE)
OrLow(g, size) ==
    IF Len(g.got) < size THEN allocateReg(releaseReg(g, g.got), size) ELSE g
allocateRegPreferHigh(g, size) == OrLow(Allocated(g, size, TRUE), size)

\* Known immediates are not forgotten here.
allocateExplicitReg(g, first_reg, size) ==
    LET regs == first_reg .. first_reg + size - 1
    IN  IF regs \cap g.allocated # {} THEN Failed(g)
        ELSE [g EXCEPT !.allocated = @ \cup regs, !.usedRegs = @ \cup regs,
                       !.got = [i \in 1 .. size |-> first_reg + i - 1]]

(***************************************************************************)
(* A high register with an immediate in it: one that has it already, the   *)
(* last one that is free, or the first one whose immediate is given up.    *)
(* It is not allocated.  m_immCount stays 0, so that its limit of four is  *)
(* never reached.                                                          *)
(***************************************************************************)
Known(g, reg, value) ==
    Got(immreg([g EXCEPT !.imm = {known \in @ : known[1] # reg} \cup {<<reg, value>>}], "LDI", reg, value), <<reg>>)
GivenUp(g, reg, value) ==
    IF reg = <<>> THEN Failed(g) ELSE Known(releaseReg(g, reg), reg[1], value)
Reused(g, value) == GivenUp(g, g.got, value)
ImmFrom(g, value, have, free) ==
    CASE have # {} -> Got(g, <<Min(have)>>)
      [] have = {} /\ free # {} -> Known(g, Max(free), value)
      [] OTHER -> Reused(OneMore(Got(g, <<>>), RegOrder(g), 1, TRUE), value)
immtemp(g, value) ==
    ImmFrom(g, value, {known[1] : known \in {k \in g.imm : k[2] = value}},
            {r \in Range(RegOrder(g)) : HighReg(r) /\ r \notin g.allocated
                                       /\ \A known \in g.imm : known[1] # r})

tempregFrom(g) == releaseReg(g, g.got)
tempreg(g) ==
    IF ~hasFlag(g, "TempR0") \/ TEMP_REG \notin g.allocated THEN Got(g, <<TEMP_REG>>)
    ELSE tempregFrom(allocateReg(g, 1))
have_tempreg(g) ==
    \/ ~hasFlag(g, "TempR0") \/ TEMP_REG \notin g.allocated
    \/ Spares(g, RegOrder(g), FALSE) # {}

\* type reg, with a register that holds the value; with zero in r1 if it may be used.
WithGot(g, type, reg) == tworeg(g, type, reg, g.got[1])
immop(g, type, reg, value) == WithGot(immtemp(g, value), type, reg)
zeroop(g, type, reg) ==
    IF ~hasFlag(g, "TempR1") THEN tworeg(g, type, reg, ZERO_REG) ELSE immop(g, type, reg, 0)

zeroreg(g, reg, sideEffects) ==
    CASE ~hasFlag(g, "TempR1") -> tworeg(g, "MOV", reg, ZERO_REG)
      [] hasFlag(g, "TempR1") /\ HighReg(reg) -> immreg(g, "LDI", reg, 0)
      [] hasFlag(g, "TempR1") /\ ~HighReg(reg) ->
            IF sideEffects THEN tworeg(g, "EOR", reg, reg) ELSE immop(g, "MOV", reg, 0)

(* ----- loops over the bytes of a register ----- *)

Smaller(a, b) == IF a < b THEN a ELSE b
Common(reg1, reg2) == Smaller(Len(reg1), Len(reg2))
\* What has failed stays as it is.
Upwards(g, Op(_, _), first, last) ==
    IF g.ok THEN FoldLeft(Op, g, [k \in 1 .. last - first + 1 |-> first + k - 1]) ELSE g
Downwards(g, Op(_, _), last, first) ==
    IF g.ok THEN FoldLeft(Op, g, [k \in 1 .. last - first + 1 |-> last - k + 1]) ELSE g
Repeat(g, Op(_), times) == Upwards(g, LAMBDA h, k : Op(h), 1, times)
ImmByte(value, i) == IF i > 4 THEN 0 ELSE (value \div 256 ^ (i - 1)) % 256


Each(g, Op(_, _), reg) == Upwards(g, Op, 1, Len(reg))
Bytewise(g, type, reg1, reg2) ==
    Upwards(g, LAMBDA h, i : tworeg(h, type, reg1[i], reg2[i]), 1, Common(reg1, reg2))
First(i, first, rest) == IF i = 1 THEN first ELSE rest

(* ----- addition, subtraction and comparison ----- *)

CarriedByte(g, type, reg, reg2, i) ==
    IF i <= Len(reg2) THEN tworeg(g, type, reg, reg2[i]) ELSE zeroop(g, type, reg)
Carried(g, first, rest, reg1, reg2) ==
    Each(g, LAMBDA h, i : CarriedByte(h, First(i, first, rest), reg1[i], reg2, i), reg1)

adc(g, reg1, reg2) == Carried(g, "ADC", "ADC", reg1, reg2)
sbc(g, reg1, reg2) == Carried(g, "SBC", "SBC", reg1, reg2)
add(g, reg1, reg2) == IF reg2 = <<>> THEN g ELSE Carried(g, "ADD", "ADC", reg1, reg2)
sub(g, reg1, reg2) == IF reg2 = <<>> THEN g ELSE Carried(g, "SUB", "SBC", reg1, reg2)

\* The carry is alive above the first byte that is not zero.
CarryAt(value, i, carryIn) == carryIn \/ value % 256 ^ (i - 1) # 0
AddByte(g, reg, i, b, carry) ==
    CASE b = 0 -> IF carry THEN zeroop(g, "ADC", reg[i]) ELSE g
      [] b # 0 /\ ~carry /\ Len(reg) = 1 /\ b = 1 -> onereg(g, "INC", reg[i])
      [] b > 1 /\ ~carry /\ Len(reg) = 1 /\ HighReg(reg[1]) -> immreg(g, "SUBI", reg[i], 256 - b)
      [] OTHER -> immop(g, IF carry THEN "ADC" ELSE "ADD", reg[i], b)
add_imm(g, reg, value, carryIn) ==
    Each(g, LAMBDA h, i : AddByte(h, reg, i, ImmByte(value, i), CarryAt(value, i, carryIn)), reg)
SubByte(g, reg, i, b, carry) ==
    CASE b = 0 -> IF carry THEN zeroop(g, "SBC", reg[i]) ELSE g
      [] b = 1 /\ ~carry /\ Len(reg) = 1 -> onereg(g, "DEC", reg[i])
      [] b # 0 /\ HighReg(reg[i]) /\ ~(b = 1 /\ ~carry /\ Len(reg) = 1) ->
            immreg(g, IF carry THEN "SBCI" ELSE "SUBI", reg[i], b)
      [] OTHER -> immop(g, IF carry THEN "SBC" ELSE "SUB", reg[i], b)
sub_imm(g, reg, value, carryIn) ==
    Each(g, LAMBDA h, i : SubByte(h, reg, i, ImmByte(value, i), CarryAt(value, i, carryIn)), reg)

\* A register with zero for the bytes that only one operand has; it is not kept.
Zeroed(g) == zeroreg(releaseReg(g, g.got), g.got[1], TRUE)
ZeroFor(g, reg1, reg2) ==
    IF hasFlag(g, "TempR1") /\ Len(reg1) # Len(reg2) THEN Zeroed(allocateReg(g, 1))
    ELSE Got(g, <<ZERO_REG>>)
OrZero(g, reg, i) == IF i <= Len(reg) THEN reg[i] ELSE g.got[1]
Compared(g, reg1, reg2) ==
    Upwards(g, LAMBDA h, i : tworeg(h, First(i, "CP", "CPC"), OrZero(h, reg1, i), OrZero(h, reg2, i)),
            1, Max({Len(reg1), Len(reg2)}))
compare(g, reg1, reg2) == Compared(ZeroFor(g, reg1, reg2), reg1, reg2)

CompareByte(g, reg, i, b) ==
    CASE b = 0 /\ ~hasFlag(g, "TempR1") -> tworeg(g, First(i, "CP", "CPC"), reg, ZERO_REG)
      [] (b # 0 \/ hasFlag(g, "TempR1")) /\ i = 1 /\ HighReg(reg) -> immreg(g, "CPI", reg, b)
      [] OTHER -> immop(g, First(i, "CP", "CPC"), reg, b)
compare_imm(g, reg, value) ==
    Each(g, LAMBDA h, i : CompareByte(h, reg[i], i, ImmByte(value, i)), reg)

\* A label is close by if it is at most 50 instructions back; one not set is an error.
CloseBy(g, name) == name \in DOMAIN g.refs /\ Len(g.insns) - g.labels[g.refs[name]] <= 50
Unset(g, name) == name \in DOMAIN g.refs /\ g.labels[g.refs[name]] < 0
compare_and_loop(g, reg, value, name) ==
    CASE Len(reg) # 1 -> branch(compare_imm(g, reg, value), "BRNE", name)
      [] Len(reg) = 1 /\ Unset(g, name) -> Failed(g)
      [] Len(reg) = 1 /\ ~Unset(g, name) ->
            IF CloseBy(g, name) /\ ((value = 0 /\ ~hasFlag(g, "TempR1")) \/ HighReg(reg[1]))
            THEN branch(CompareByte(g, reg[1], 1, ImmByte(value, 1)), "BRNE", name)
            ELSE branch(IF value = 0 THEN zeroop(g, "CPSE", reg[1])
                        ELSE immop(g, "CPSE", reg[1], ImmByte(value, 1)), "JMP", name)

\* The first byte alone is looked at, as often as there are bytes.
Differ(g, temp, temp2, reg1, reg2) ==
    FoldLeft(LAMBDA h, i :
                tworeg(tworeg(tworeg(h, "MOV", temp, reg1[1]), "EOR", temp, reg2[1]), "OR", temp2, temp),
             tworeg(tworeg(g, "MOV", temp2, reg1[1]), "EOR", temp2, reg2[1]),
             Tail(reg1))
\* The carry says that they differ.
Borrowed(g, temp, temp2, reg1, reg2) ==
    releaseReg(tworeg(zeroreg(Differ(g, temp, temp2, reg1, reg2), temp, TRUE), "SUB", temp, temp2),
               <<temp>>)
WithTemp(g, temp, reg1, reg2) == Borrowed(g, temp, g.got[1], reg1, reg2)
Difference(g, reg1, reg2) == WithTemp(tempreg(g), g.got[1], reg1, reg2)
Filled(g, reg) ==
    Upwards(g, LAMBDA h, i : tworeg(h, "MOV", reg[i], reg[1]), 2, Len(reg))
SetFrom(g, regout, set) ==
    CASE set = 0 -> Filled(tworeg(g, "SBC", regout[1], regout[1]), regout)
      [] set = 1 -> Upwards(immop(onereg(g, "ROL", regout[1]), "EOR", regout[1], 1),
                            LAMBDA h, i : zeroreg(h, regout[i], TRUE), 2, Len(regout))
      [] OTHER -> Filled(onereg(onereg(g, "ROL", regout[1]), "DEC", regout[1]), regout)
compare_and_set(g, regout, reg1, reg2, set) ==
    IF Len(reg1) # Len(reg2) \/ reg1 = <<>> THEN Failed(g)
    ELSE SetFrom(zeroreg(Difference(allocateReg(g, 1), reg1, reg2), regout[1], FALSE), regout, set)

(* ----- logic ----- *)

Above(g, Op(_, _), reg1, reg2) == Upwards(g, Op, Common(reg1, reg2) + 1, Len(reg1))
logand(g, reg1, reg2) ==
    Above(Bytewise(g, "AND", reg1, reg2), LAMBDA h, i : zeroreg(h, reg1[i], TRUE), reg1, reg2)
logor(g, reg1, reg2) == Bytewise(g, "OR", reg1, reg2)
logxor(g, reg1, reg2) == Bytewise(g, "EOR", reg1, reg2)
clr(g, reg) == Bytewise(g, "EOR", reg, reg)
lognot(g, reg) == Each(g, LAMBDA h, i : onereg(h, "COM", reg[i]), reg)

\* type, with an immediate that only a high register can take itself.
Immediate(g, high, type, reg, b) ==
    IF HighReg(reg) THEN immreg(g, high, reg, b) ELSE immop(g, type, reg, b)
AndByte(g, reg, b) ==
    CASE b = 0 -> zeroreg(g, reg, TRUE)
      [] b = 255 -> g
      [] b \in 1 .. 254 -> Immediate(g, "ANDI", "AND", reg, b)
logand_imm(g, reg, value) == Each(g, LAMBDA h, i : AndByte(h, reg[i], ImmByte(value, i)), reg)
OrByte(g, reg, b) ==
    CASE b = 0 -> g
      [] b = 255 -> Immediate(g, "LDI", "MOV", reg, b)
      [] b \in 1 .. 254 -> Immediate(g, "ORI", "OR", reg, b)
logor_imm(g, reg, value) == Each(g, LAMBDA h, i : OrByte(h, reg[i], ImmByte(value, i)), reg)
XorByte(g, reg, b) ==
    CASE b = 0 -> g
      [] b = 255 -> onereg(g, "COM", reg)
      [] b \in 1 .. 254 -> immop(g, "EOR", reg, b)
logxor_imm(g, reg, value) == Each(g, LAMBDA h, i : XorByte(h, reg[i], ImmByte(value, i)), reg)

\* reg1 = reg1 type NOT reg2, through the temporary register.
NotByte(g, temp, type, reg, other) ==
    tworeg(onereg(tworeg(g, "MOV", temp, other), "COM", temp), type, reg, temp)
NotBytes(g, type, reg1, reg2) ==
    Upwards(g, LAMBDA h, i : NotByte(h, g.got[1], type, reg1[i], reg2[i]), 1, Common(reg1, reg2))
WithNot(g, type, reg1, reg2) == NotBytes(tempreg(g), type, reg1, reg2)
OnesAbove(g, reg1, reg2) ==
    Above(g, LAMBDA h, i : Immediate(h, "LDI", "MOV", reg1[i], 255), reg1, reg2)
logand_not(g, reg1, reg2) == WithNot(g, "AND", reg1, reg2)
logor_not(g, reg1, reg2) == OnesAbove(WithNot(g, "OR", reg1, reg2), reg1, reg2)
logxor_not(g, reg1, reg2) ==
    Above(WithNot(g, "EOR", reg1, reg2), LAMBDA h, i : onereg(h, "COM", reg1[i]), reg1, reg2)
lognot_of(g, reg1, reg2) ==
    OnesAbove(Upwards(g, LAMBDA h, i : onereg(tworeg(h, "MOV", reg1[i], reg2[i]), "COM", reg1[i]),
                      1, Common(reg1, reg2)), reg1, reg2)

XorOfByte(g, temp, type, reg1, reg2, reg3) ==
    tworeg(tworeg(tworeg(g, "MOV", temp, reg2), type, temp, reg3), "EOR", reg1, temp)
XorOf(g, type, reg1, reg2, reg3) ==
    Upwards(g, LAMBDA h, i : XorOfByte(h, g.got[1], type, reg1[i], reg2[i], reg3[i]),
            1, Common(reg1, reg2))
logxor_and(g, reg1, reg2, reg3) == XorOf(tempreg(g), "AND", reg1, reg2, reg3)
logxor_or(g, reg1, reg2, reg3) == XorOf(tempreg(g), "OR", reg1, reg2, reg3)

(* ----- moves ----- *)

\* Two neighbours that are a pair, the even one below or above; i counts from 1.
isRegPair(reg, i) ==
    i \in 1 .. Len(reg) - 1 /\ reg[i] % 2 = 0 /\ reg[i + 1] = reg[i] + 1
isRevRegPair(reg, i) ==
    i \in 1 .. Len(reg) - 1 /\ reg[i] % 2 = 1 /\ reg[i + 1] = reg[i] - 1
sameReg(reg1, i, reg2, j) == i \in DOMAIN reg1 /\ j \in DOMAIN reg2 /\ reg1[i] = reg2[j]
noOverlap(reg1, reg2, i) == \A j, k \in {i, i + 1} : ~sameReg(reg1, j, reg2, k)

WordAt(g, reg1, reg2, i) ==
    /\ hasFlag(g, "MoveWord")
    /\ \/ isRegPair(reg1, i) /\ isRegPair(reg2, i)
       \/ isRevRegPair(reg1, i) /\ isRevRegPair(reg2, i)
MovedWord(g, reg1, reg2, i) ==
    tworeg(g, "MOVW", Smaller(reg1[i], reg1[i + 1]), Smaller(reg2[i], reg2[i + 1]))

\* The loop variable runs with the code: << code, byte that is next >>.
MoveNext(g, reg1, reg2, i) ==
    CASE i > Common(reg1, reg2) -> <<g, i>>
      [] i <= Common(reg1, reg2) /\ reg1[i] = reg2[i] -> <<g, i + 1>>
      [] i <= Common(reg1, reg2) /\ reg1[i] # reg2[i] ->
            IF WordAt(g, reg1, reg2, i) THEN << MovedWord(g, reg1, reg2, i), i + 2 >>
            ELSE << tworeg(g, "MOV", reg1[i], reg2[i]), i + 1 >>
MoveLoop(g, reg1, reg2) ==
    FoldLeft(LAMBDA p, k : MoveNext(p[1], reg1, reg2, p[2]), <<g, 1>>, reg1)
ZeroFilled(p, reg) == Upwards(p[1], LAMBDA h, i : zeroreg(h, reg[i], TRUE), p[2], Len(reg))
move(g, reg1, reg2, zeroFill) ==
    IF zeroFill THEN ZeroFilled(MoveLoop(g, reg1, reg2), reg1) ELSE MoveLoop(g, reg1, reg2)[1]

MoveDown(g, reg1, reg2, i) ==
    CASE i < 1 -> <<g, i>>
      [] i >= 1 /\ reg1[i] = reg2[i] -> <<g, i - 1>>
      [] i >= 1 /\ reg1[i] # reg2[i] ->
            IF WordAt(g, reg1, reg2, i - 1) /\ noOverlap(reg1, reg2, i - 1)
            THEN << MovedWord(g, reg1, reg2, i - 1), i - 2 >>
            ELSE << tworeg(g, "MOV", reg1[i], reg2[i]), i - 1 >>
moveHighFirst(g, reg1, reg2) ==
    FoldLeft(LAMBDA p, k : MoveDown(p[1], reg1, reg2, p[2]), <<g, Common(reg1, reg2)>>, reg1)[1]

move_imm(g, reg, value) ==
    Each(g, LAMBDA h, i :
        IF ImmByte(value, i) = 0 /\ ~hasFlag(h, "TempR1") THEN tworeg(h, "MOV", reg[i], ZERO_REG)
        ELSE Immediate(h, "LDI", "MOV", reg[i], ImmByte(value, i)), reg)

neg(g, reg) ==
    IF Len(reg) = 1 THEN onereg(g, "NEG", reg[1]) ELSE add_imm(lognot(g, reg), reg, 1, FALSE)

pop(g, reg) == Each(g, LAMBDA h, i : onereg(h, "POP", reg[i]), reg)
push(g, reg) == Downwards(g, LAMBDA h, i : onereg(h, "PUSH", reg[i]), Len(reg), 1)

XorSwapped(g, a, b) == tworeg(tworeg(tworeg(g, "EOR", a, b), "EOR", b, a), "EOR", a, b)
TempSwapped(g, a, b) ==
    tworeg(tworeg(tworeg(g, "MOV", TEMP_REG, a), "MOV", a, b), "MOV", b, TEMP_REG)
swap(g, reg1, reg2) ==
    Upwards(g, LAMBDA h, i : IF hasFlag(h, "TempR0") THEN XorSwapped(h, reg1[i], reg2[i])
                             ELSE TempSwapped(h, reg1[i], reg2[i]),
            1, Common(reg1, reg2))

=============================================================================
