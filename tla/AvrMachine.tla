----------------------------- MODULE AvrMachine -----------------------------
(***************************************************************************)
(* The interpreter of the AVR code generator (tools/genavr/interpret.cpp): *)
(* 32 byte registers and the stack pointer, carry, zero and T flags, a     *)
(* memory, and one step for each kind of instruction.  An instruction is   *)
(* << type, reg1, reg2 >>, its second operand being a register, a value,   *)
(* a bit or an offset; a branch is << type, label, 0 >>.                   *)
(***************************************************************************)
EXTENDS Integers, Sequences, Bitwise, TLC

CONSTANT MEM_SIZE       \* bytes of memory, 4096 in the source

PRE_DEC  == 254
POST_INC == 255
SP == 32

Byte(n) == n % 256
Pair(s, reg) == s.r[reg + 1] * 256 + s.r[reg]
WithPair(s, reg, value) ==
    [s EXCEPT !.r[reg] = Byte(value), !.r[reg + 1] = Byte(value \div 256)]

\* Memory above 0x01F2 is given to buffers; `ok` until something is thrown.
FirstBuffer == 498
AVRState ==
    WithPair([r |-> (1 :> 0) @@ [i \in 0 .. 33 |-> 85],
              c |-> 0, z |-> FALSE, t |-> 0,
              memory |-> [a \in 0 .. MEM_SIZE - 1 |-> 170] @@ <<>>,
              pc |-> 0, sbox |-> <<>>, sbox_offset |-> 0, ok |-> TRUE], SP, MEM_SIZE)

Thrown(s) == [s EXCEPT !.ok = FALSE]

(* ----- arithmetic ----- *)

Total(s, type, a, b) ==
    CASE type = "ADC" -> s.r[a] + s.c + s.r[b]
      [] type = "ADD" -> s.r[a] + s.r[b]
      [] type \in {"SUB", "CP"} -> s.r[a] - s.r[b]
      [] type \in {"SBC", "CPC"} -> s.r[a] - s.r[b] - s.c
      [] type \in {"SUBI", "CPI"} -> s.r[a] - b
      [] type = "SBCI" -> s.r[a] - b - s.c

\* Z tells of this byte only, also with a carry in; a difference of -256 is not 0.
WithTotal(s, a, kept, total, sum) ==
    [s EXCEPT !.r[a] = IF kept THEN @ ELSE Byte(total),
              !.c = IF total \in 0 .. 255 THEN 0 ELSE 1,
              !.z = IF sum THEN Byte(total) = 0 ELSE total = 0]
Arithmetic(s, type, a, b) ==
    WithTotal(s, a, type \in {"CP", "CPC", "CPI"}, Total(s, type, a, b), type \in {"ADC", "ADD"})

WithWord(s, reg, total) ==
    [WithPair(s, reg, total % 65536) EXCEPT !.c = IF total \in 0 .. 65535 THEN 0 ELSE 1,
                                            !.z = total % 65536 = 0]
WordArithmetic(s, type, reg, value) ==
    WithWord(s, reg, IF type = "ADIW" THEN Pair(s, reg) + value ELSE Pair(s, reg) - value)

(* ----- logic, which leaves the carry alone ----- *)

WithZero(s, a, value) == [s EXCEPT !.r[a] = value, !.z = value = 0]
Logic(s, type, a, b) ==
    WithZero(s, a,
        CASE type = "AND"  -> s.r[a] & s.r[b]
          [] type = "ANDI" -> s.r[a] & b
          [] type = "OR"   -> s.r[a] | s.r[b]
          [] type = "ORI"  -> s.r[a] | b
          [] type = "EOR"  -> s.r[a] ^^ s.r[b]
          [] type = "COM"  -> 255 - s.r[a]
          [] type = "INC"  -> Byte(s.r[a] + 1)
          [] type = "DEC"  -> Byte(s.r[a] - 1))

Negated(s, a) == [WithZero(s, a, Byte(-s.r[a])) EXCEPT !.c = IF s.r[a] # 0 THEN 1 ELSE 0]

(* ----- shifts through the carry ----- *)

WithCarry(s, a, value, carry) == [WithZero(s, a, value) EXCEPT !.c = carry]
Shifted(s, type, a) ==
    CASE type = "LSL" -> WithCarry(s, a, Byte(2 * s.r[a]), s.r[a] \div 128)
      [] type = "ROL" -> WithCarry(s, a, Byte(2 * s.r[a] + s.c), s.r[a] \div 128)
      [] type = "LSR" -> WithCarry(s, a, s.r[a] \div 2, s.r[a] % 2)
      [] type = "ROR" -> WithCarry(s, a, s.r[a] \div 2 + 128 * s.c, s.r[a] % 2)
      [] type = "ASR" -> WithCarry(s, a, s.r[a] \div 2 + 128 * (s.r[a] \div 128), s.r[a] % 2)

(* ----- moves ----- *)

BitOf(n, bit) == (n \div 2 ^ bit) % 2
Moved(s, type, a, b) ==
    CASE type = "MOV"  -> [s EXCEPT !.r[a] = s.r[b]]
      [] type = "MOVW" -> [s EXCEPT !.r[a] = s.r[b], !.r[a + 1] = s.r[b + 1]]
      [] type = "LDI"  -> [s EXCEPT !.r[a] = b]
      [] type = "SWAP" -> [s EXCEPT !.r[a] = 16 * (@ % 16) + @ \div 16]
      [] type = "BST"  -> [s EXCEPT !.t = BitOf(s.r[a], b)]
      [] type = "BLD"  -> [s EXCEPT !.r[a] = @ + (s.t - BitOf(@, b)) * 2 ^ b]

(* ----- memory, through a pair of registers ----- *)

Pointer(s, reg, offset) ==
    CASE offset = PRE_DEC -> Pair(s, reg) - 1
      [] offset = POST_INC -> Pair(s, reg)
      [] OTHER -> Pair(s, reg) + offset
PointerMoved(s, reg, offset) ==
    CASE offset = PRE_DEC -> WithPair(s, reg, (Pair(s, reg) - 1) % 65536)
      [] offset = POST_INC -> WithPair(s, reg, (Pair(s, reg) + 1) % 65536)
      [] OTHER -> s

LoadedAt(s, moved, a, address) ==
    IF address \in DOMAIN s.memory THEN [moved EXCEPT !.r[a] = s.memory[address]] ELSE Thrown(s)
StoredAt(s, moved, value, address) ==
    IF address \in DOMAIN s.memory THEN [moved EXCEPT !.memory[address] = value] ELSE Thrown(s)
Load(s, a, reg, offset) ==
    LoadedAt(s, PointerMoved(s, reg, offset), a, Pointer(s, reg, offset))
Store(s, value, reg, offset) ==
    StoredAt(s, PointerMoved(s, reg, offset), value, Pointer(s, reg, offset))
push16(s, value) ==
    Store(Store(s, value \div 256, SP, PRE_DEC), Byte(value), SP, PRE_DEC)

PointerOf(type) ==
    CASE type \in {"LD_X", "ST_X"} -> 26
      [] type \in {"LD_Y", "ST_Y"} -> 28
      [] type \in {"LD_Z", "ST_Z"} -> 30
Memory(s, type, a, b) ==
    CASE type \in {"LD_X", "LD_Y", "LD_Z"} -> Load(s, a, PointerOf(type), b)
      [] type \in {"ST_X", "ST_Y", "ST_Z"} -> Store(s, s.r[a], PointerOf(type), b)
      [] type = "PUSH" -> Store(s, s.r[a], SP, PRE_DEC)
      [] type = "POP"  -> Load(s, a, SP, POST_INC)

(* ----- tables in program memory ----- *)

Switched(s, sbox) == WithPair([s EXCEPT !.sbox = sbox, !.sbox_offset = 0], 30, 48640)
LookedUp(s, a, at) == IF at \in DOMAIN s.sbox THEN [s EXCEPT !.r[a] = s.sbox[at]] ELSE Thrown(s)
Table(s, sboxes, type, a, b) ==
    CASE type = "LPM_SBOX"   -> LookedUp(s, a, s.r[b] + s.sbox_offset + 1)
      [] type = "LPM_SETUP"  -> Store(Switched(s, sboxes[b]), 186, SP, PRE_DEC)
      [] type = "LPM_SWITCH" -> Switched(s, sboxes[b])
      [] type = "LPM_ADJUST" -> [s EXCEPT !.sbox_offset = s.r[a] * 256]
      [] type = "LPM_CLEAN"  ->
            IF s.memory[Pair(s, SP)] # 186 THEN Thrown(s) ELSE PointerMoved(s, SP, POST_INC)

(* ----- control ----- *)

Jumps(s, type) ==
    CASE type = "BRCC" -> s.c = 0
      [] type = "BRCS" -> s.c # 0
      [] type = "BREQ" -> s.z
      [] type = "BRNE" -> ~s.z
      [] type \in {"JMP", "CALL"} -> TRUE
\* labels[l] is the place of label l, -1 until it is set.
JumpedTo(s, labels, l) ==
    IF l \in DOMAIN labels /\ labels[l] >= 0 THEN [s EXCEPT !.pc = labels[l]] ELSE Thrown(s)
Branch(s, labels, type, l) ==
    IF ~Jumps(s, type) THEN s
    ELSE JumpedTo(IF type = "CALL" THEN push16(s, s.pc) ELSE s, labels, l)
Returned(s) ==
    [WithPair(s, SP, Pair(s, SP) + 2) EXCEPT
        !.pc = s.memory[Pair(s, SP)] + 256 * s.memory[Pair(s, SP) + 1]]
SkipIfSame(s, a, b) == IF s.r[a] = s.r[b] THEN [s EXCEPT !.pc = @ + 1] ELSE s

\* Only the written function moves SP.  The processor's SP points below the byte that was
\* pushed last, the interpreter's to it.
StackMoved(s, type, reg) ==
    IF type = "IN_SP" THEN WithPair(s, reg, Pair(s, SP) - 1) ELSE WithPair(s, SP, Pair(s, reg) + 1)

\* An instruction on s, whose pc is already that of the next one.
exec_insn(s, code, type, a, b) ==
    CASE type \in {"ADC", "ADD", "SUB", "SBC", "SUBI", "SBCI", "CP", "CPC", "CPI"} ->
            Arithmetic(s, type, a, b)
      [] type \in {"AND", "ANDI", "OR", "ORI", "EOR", "COM", "INC", "DEC"} -> Logic(s, type, a, b)
      [] type \in {"ADIW", "SBIW"} -> WordArithmetic(s, type, a, b)
      [] type = "NEG" -> Negated(s, a)
      [] type \in {"LSL", "ROL", "LSR", "ROR", "ASR"} -> Shifted(s, type, a)
      [] type \in {"MOV", "MOVW", "LDI", "SWAP", "BST", "BLD"} -> Moved(s, type, a, b)
      [] type \in {"LD_X", "LD_Y", "LD_Z", "ST_X", "ST_Y", "ST_Z", "PUSH", "POP"} ->
            Memory(s, type, a, b)
      [] type \in {"LPM_SBOX", "LPM_SETUP", "LPM_SWITCH", "LPM_ADJUST", "LPM_CLEAN"} ->
            Table(s, code.sboxes, type, a, b)
      [] type \in {"BRCC", "BRCS", "BREQ", "BRNE", "JMP", "CALL"} ->
            Branch(s, code.labels, type, a)
      [] type = "RET" -> Returned(s)
      [] type = "CPSE" -> SkipIfSame(s, a, b)
      [] type \in {"IN_SP", "OUT_SP"} -> StackMoved(s, type, a)
      [] type \in {"LABEL", "NOP"} -> s

(***************************************************************************)
(* Instructions are executed until the pc is behind the last one; a pc     *)
(* that is elsewhere is an error.  MAX_STEPS bounds the run.               *)
(***************************************************************************)
CONSTANT MAX_STEPS

Stopped(s, code) == s.pc = Len(code.insns) \/ ~s.ok
Fetched(s, code, insn) == exec_insn([s EXCEPT !.pc = @ + 1], code, insn[1], insn[2], insn[3])
Stepped(s, code) ==
    IF s.pc > Len(code.insns) THEN Thrown(s) ELSE Fetched(s, code, code.insns[s.pc + 1])
\* n steps, in halves so that the recursion is not deep.
RECURSIVE Run(_, _, _)
Run(s, code, n) ==
    CASE Stopped(s, code) -> s
      [] ~Stopped(s, code) /\ n = 1 -> Stepped(s, code)
      [] OTHER -> Run(Run(s, code, n \div 2), code, n - (n \div 2))
StoppedOr(s, code) == IF Stopped(s, code) THEN s ELSE Thrown(s)
Execute(s, code) == StoppedOr(Run(s, code, MAX_STEPS), code)

\* The return address, what else the caller pushes, the locals; Y is the frame pointer.
Framed(s, fp) == WithPair(WithPair(s, 28, fp), SP, fp)
WithFrame(s, code) == Framed(s, Pair(s, SP) - code.locals - 1)

\* What is thrown at the end: r1 is not zero, or the stack is not where it was.
Finished(s, code, fp) ==
    IF (s.r[1] # 0 /\ "TempR1" \notin code.flags) \/ Pair(s, SP) # fp THEN Thrown(s) ELSE s
RunFrom(s, code) == Finished(Execute(s, code), code, Pair(s, SP))

InMemory(s, at, bytes) ==
    [s EXCEPT !.memory = [a \in at .. at + Len(bytes) - 1 |-> bytes[a - at + 1]] @@ @]
BytesAt(s, at, n) == [i \in 1 .. n |-> s.memory[at + i - 1]]

exec_permutation(code, state, count) ==
    RunFrom(WithPair(WithFrame(push16(
        WithPair(InMemory(AVRState, FirstBuffer, state), 30, FirstBuffer), 65535), code),
        22, count), code)

exec_masked_permutation(code, state, count, preserve) ==
    RunFrom(WithPair(WithFrame(push16(push16(
        WithPair(WithPair(
            InMemory(InMemory(AVRState, FirstBuffer, state), FirstBuffer + Len(state), preserve),
            30, FirstBuffer), 26, FirstBuffer + Len(state)), 65535),
        FirstBuffer + Len(state)), code), 22, count), code)

=============================================================================
