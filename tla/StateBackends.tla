--------------------------- MODULE StateBackends ---------------------------
(***************************************************************************)
(* The same program on the portable backends of the permutation state:     *)
(* 32-bit words of even and odd bits, and 64-bit words on a little-endian  *)
(* and on a big-endian machine.  Every call of the byte interface          *)
(* (ascon/permutation.h) and of the macros that the modes use in its place *)
(* (core/ascon-util-snp.h) has to do to each of the memories what it does  *)
(* to the 40 bytes of AsconState.                                          *)
(*                                                                         *)
(* A run starts with 320 unknown bits, so that one call stands for that    *)
(* call in every state and on every data, or with known bytes, which can   *)
(* be permuted by all rounds.                                              *)
(***************************************************************************)
EXTENDS Permutations

CONSTANTS
    Offsets,        \* offsets of the calls
    Sizes,          \* lengths of their data
    KnownRounds,    \* first rounds of the permutations of known bytes
    MaxCalls        \* bound on the calls of a run

ASSUME BackendAssumption ==
    /\ Offsets \subseteq 0 .. 40 /\ Sizes \subseteq 0 .. 40
    /\ KnownRounds \subseteq 0 .. 12 /\ MaxCalls \in Nat

A == INSTANCE AsconState WITH WORD <- 8
S32 == INSTANCE Sliced32
S64L == INSTANCE Sliced64 WITH LITTLE_ENDIAN <- TRUE
S64B == INSTANCE Sliced64 WITH LITTLE_ENDIAN <- FALSE

Backends == {"sliced32", "little", "big"}

VARIABLES
    known,  \* whether the run started with known bytes
    mem,    \* the state in the memory of each backend
    out,    \* the bits that the last call delivered on each backend
    call,   \* the last call
    was,    \* history: the 40 bytes before it, as bits
    calls   \* their number

backendVars == <<known, mem, out, call, was, calls>>

\* The 40 bytes of a memory, as bits.
Plain(b, s) ==
    CASE b = "sliced32" -> FlattenSeq([i \in 1 .. 5 |-> S32!PlainWord(s[i])])
      [] b = "little"   -> FlattenSeq(S64L!Words(s))
      [] b = "big"      -> FlattenSeq(S64B!Words(s))

WordsOf(bits) == Evaluated([i \in 1 .. 5 |-> SubSeq(bits, 64 * i - 63, 64 * i)])

\* The memory that holds five words.
Stored(b, words) ==
    CASE b = "sliced32" -> [i \in 1 .. 5 |-> S32!SlicedWord(words[i])]
      [] b = "little"   -> S64L!Memory(words)
      [] b = "big"      -> S64B!Memory(words)

\* Bytes that are different from each other, and from their bit-reversals.
KnownWord(i) ==
    FlattenSeq([j \in 1 .. 8 |-> Number((40 * i + 17 * j + 3 * i * j) % 256, 8)])

InitialWords ==
    Evaluated([i \in 1 .. 5 |->
        IF known THEN KnownWord(i) ELSE UnknownWord(<<"s", i>>, 64)])

\* The n bytes that a call is given.
Data(n) == UnknownWord(<<"d", 0>>, 8 * n)

(***************************************************************************)
(* A bit-level byte as AsconState has it: the set of its monomials, each   *)
(* with the bit it occurs in.  Setting the highest bit is padding there    *)
(* and setting the lowest one is the separator.                            *)
(***************************************************************************)
AtomsOf(byte) ==
    UNION {{IF m # {} THEN <<"bit", k, m>>
            ELSE IF k = 1 THEN <<"pad", 0, 0>>
            ELSE IF k = 8 THEN <<"sep", 0, 0>> ELSE <<"one", k, 0>> : m \in byte[k]} :
           k \in 1 .. 8}
AtomsOfBytes(bits) ==
    Evaluated([j \in 1 .. Len(bits) \div 8 |-> AtomsOf(ByteOf(bits, j - 1))])
StateOf(bits) ==
    LET bytes == AtomsOfBytes(bits)
    IN  [chain |-> <<>>, b |-> [i \in 0 .. 39 |-> bytes[i + 1]]]

-----------------------------------------------------------------------------
BackendInit ==
    /\ known \in BOOLEAN
    /\ mem = [b \in Backends |-> Stored(b, InitialWords)]
    /\ out = [b \in Backends |-> <<>>]
    /\ call = [op |-> "init", offset |-> 0, size |-> 0]
    /\ was = <<>>
    /\ calls = 0

\* A call that makes state[b] of each memory and delivers output[b].
Called(op, offset, size, state, output) ==
    /\ calls < MaxCalls
    /\ calls' = calls + 1
    /\ call' = [op |-> op, offset |-> offset, size |-> size]
    /\ mem' = state
    /\ out' = output
    /\ was' = Plain("big", mem["big"])
    /\ UNCHANGED known

Silent == [b \in Backends |-> <<>>]
States(results) == [b \in Backends |-> results[b].state]
Outputs(results) == [b \in Backends |-> results[b].out]

\* What each backend makes of its memory.
OnEach(Op32(_), OpL(_), OpB(_)) ==
    [b \in Backends |->
        CASE b = "sliced32" -> Op32(mem[b])
          [] b = "little"   -> OpL(mem[b])
          [] b = "big"      -> OpB(mem[b])]

DoInit ==
    Called("zero", 0, 40,
           OnEach(LAMBDA s : S32!ascon_init, LAMBDA s : S64L!ascon_init,
                  LAMBDA s : S64B!ascon_init), Silent)

DoAdd(offset, size) ==
    Called("add", offset, size,
           OnEach(LAMBDA s : S32!ascon_add_bytes(s, Data(size), offset, size),
                  LAMBDA s : S64L!ascon_add_bytes(s, Data(size), offset, size),
                  LAMBDA s : S64B!ascon_add_bytes(s, Data(size), offset, size)), Silent)

DoOverwrite(offset, size) ==
    Called("overwrite", offset, size,
           OnEach(LAMBDA s : S32!ascon_overwrite_bytes(s, Data(size), offset, size),
                  LAMBDA s : S64L!ascon_overwrite_bytes(s, Data(size), offset, size),
                  LAMBDA s : S64B!ascon_overwrite_bytes(s, Data(size), offset, size)),
           Silent)

DoZeroes(offset, size) ==
    Called("zero", offset, size,
           OnEach(LAMBDA s : S32!ascon_overwrite_with_zeroes(s, offset, size),
                  LAMBDA s : S64L!ascon_overwrite_with_zeroes(s, offset, size),
                  LAMBDA s : S64B!ascon_overwrite_with_zeroes(s, offset, size)), Silent)

DoExtract(offset, size) ==
    Called("extract", offset, size, mem,
           OnEach(LAMBDA s : S32!ascon_extract_bytes(s, offset, size),
                  LAMBDA s : S64L!ascon_extract_bytes(s, offset, size),
                  LAMBDA s : S64B!ascon_extract_bytes(s, offset, size)))

DoExtractAndAdd(offset, size) ==
    Called("extract_and_add", offset, size, mem,
           OnEach(LAMBDA s : S32!ascon_extract_and_add_bytes(s, Data(size), offset, size),
                  LAMBDA s : S64L!ascon_extract_and_add_bytes(s, Data(size), offset, size),
                  LAMBDA s : S64B!ascon_extract_and_add_bytes(s, Data(size), offset, size)))

DoExtractAndOverwrite(offset, size) ==
    LET r == OnEach(
            LAMBDA s : S32!ascon_extract_and_overwrite_bytes(s, Data(size), offset, size),
            LAMBDA s : S64L!ascon_extract_and_overwrite_bytes(s, Data(size), offset, size),
            LAMBDA s : S64B!ascon_extract_and_overwrite_bytes(s, Data(size), offset, size))
    IN  Called("decrypt", offset, size, States(r), Outputs(r))

DoPad(offset) ==
    Called("pad", offset, 1,
           OnEach(LAMBDA s : S32!ascon_pad(s, offset), LAMBDA s : S64L!ascon_pad(s, offset),
                  LAMBDA s : S64B!ascon_pad(s, offset)), Silent)

DoSeparator ==
    Called("separator", 39, 1,
           OnEach(LAMBDA s : S32!ascon_separator(s), LAMBDA s : S64L!ascon_separator(s),
                  LAMBDA s : S64B!ascon_separator(s)), Silent)

DoAbsorb(offset, size) ==
    LET d == Data(size)
    IN  Called("add", offset, size,
            IF size = 8
            THEN OnEach(LAMBDA s : S32!ascon_absorb_8(s, d, offset),
                        LAMBDA s : S64L!ascon_absorb_8(s, d, offset),
                        LAMBDA s : S64B!ascon_absorb_8(s, d, offset))
            ELSE OnEach(LAMBDA s : S32!ascon_absorb_16(s, d, offset),
                        LAMBDA s : S64L!ascon_absorb_16(s, d, offset),
                        LAMBDA s : S64B!ascon_absorb_16(s, d, offset)), Silent)

DoSqueeze(offset, size) ==
    Called("extract", offset, size, mem,
           IF size = 8
           THEN OnEach(LAMBDA s : S32!ascon_squeeze_8(s, offset),
                       LAMBDA s : S64L!ascon_squeeze_8(s, offset),
                       LAMBDA s : S64B!ascon_squeeze_8(s, offset))
           ELSE OnEach(LAMBDA s : S32!ascon_squeeze_16(s, offset),
                       LAMBDA s : S64L!ascon_squeeze_16(s, offset),
                       LAMBDA s : S64B!ascon_squeeze_16(s, offset)))

DoEncrypt(offset, size) ==
    LET m == Data(size)
        r == IF size = 8
             THEN OnEach(LAMBDA s : S32!ascon_encrypt_8(s, m, offset),
                         LAMBDA s : S64L!ascon_encrypt_8(s, m, offset),
                         LAMBDA s : S64B!ascon_encrypt_8(s, m, offset))
             ELSE OnEach(LAMBDA s : S32!ascon_encrypt_16(s, m, offset),
                         LAMBDA s : S64L!ascon_encrypt_16(s, m, offset),
                         LAMBDA s : S64B!ascon_encrypt_16(s, m, offset))
    IN  Called("encrypt", offset, size, States(r), Outputs(r))

DoDecrypt(offset, size) ==
    LET c == Data(size)
        r == IF size = 8
             THEN OnEach(LAMBDA s : S32!ascon_decrypt_8(s, c, offset),
                         LAMBDA s : S64L!ascon_decrypt_8(s, c, offset),
                         LAMBDA s : S64B!ascon_decrypt_8(s, c, offset))
             ELSE OnEach(LAMBDA s : S32!ascon_decrypt_16(s, c, offset),
                         LAMBDA s : S64L!ascon_decrypt_16(s, c, offset),
                         LAMBDA s : S64B!ascon_decrypt_16(s, c, offset))
    IN  Called("decrypt", offset, size, States(r), Outputs(r))

\* Unknown bits can be followed through one round only.
DoPermute(first_round) ==
    /\ known \/ first_round >= 11
    /\ Called("permute", first_round, 0,
              OnEach(LAMBDA s : S32!ascon_permute_c32(s, first_round),
                     LAMBDA s : S64L!ascon_permute(s, first_round),
                     LAMBDA s : S64B!ascon_permute(s, first_round)), Silent)

\* A rotation of a 32-bit word, composed or not.
DoRotate(left, bits) ==
    LET x == SubSeq(Data(4), 1, 32)
    IN  Called(IF left THEN "rotate left" ELSE "rotate right", bits, 4, mem,
               [b \in Backends |->
                  IF b = "sliced32"
                  THEN IF left THEN leftRotate(x, bits) ELSE rightRotate(x, bits)
                  ELSE RotR(x, IF left THEN 32 - bits ELSE bits)])

BackendNext ==
    \/ DoInit
    \/ ~known /\ \E left \in BOOLEAN, bits \in 1 .. 31 : DoRotate(left, bits)
    \/ \E offset \in Offsets, size \in Sizes :
          /\ offset + size <= 40
          /\ \/ DoAdd(offset, size)
             \/ DoOverwrite(offset, size)
             \/ DoZeroes(offset, size)
             \/ DoExtract(offset, size)
             \/ DoExtractAndAdd(offset, size)
             \/ DoExtractAndOverwrite(offset, size)
    \/ \E offset \in 0 .. 39 : DoPad(offset)
    \/ DoSeparator
    \/ \E offset \in {0, 8, 16, 24, 32}, size \in {8, 16} :
          /\ offset + size <= 40
          /\ \/ DoAbsorb(offset, size)
             \/ DoSqueeze(offset, size)
             \/ DoEncrypt(offset, size)
             \/ DoDecrypt(offset, size)
    \/ \E first_round \in KnownRounds : DoPermute(first_round)

BackendSpec == BackendInit /\ [][BackendNext]_backendVars

-----------------------------------------------------------------------------
(***************************************************************************)
(* BackendsAgree: after any calls the memories of all backends stand for   *)
(* the same 40 bytes, and each delivered the same output: which backend    *)
(* the build selects cannot be seen through the interface.                 *)
(***************************************************************************)
BackendsAgree ==
    \A b \in Backends :
        /\ Plain(b, mem[b]) = Plain("big", mem["big"])
        /\ out[b] = out["big"]

(***************************************************************************)
(* BytesAreState: a call of the byte interface does to the memory of the   *)
(* backends what it does to the bytes of AsconState, with which the modes  *)
(* are modelled, also when its data begins or ends within a word; and it   *)
(* delivers the same bytes.                                                *)
(***************************************************************************)
BytesOfCall(b) ==
    LET s == StateOf(was)
        t == StateOf(Plain(b, mem[b]))
        o == AtomsOfBytes(out[b])
        d == AtomsOfBytes(Data(call.size))
        at == call.offset
        n == call.size
    IN  CASE call.op = "add"       -> t = A!ascon_add_bytes(s, d, at) /\ o = <<>>
          [] call.op = "overwrite" -> t = A!ascon_overwrite_bytes(s, d, at) /\ o = <<>>
          [] call.op = "zero"      ->
                t = A!ascon_overwrite_bytes(s, [j \in 1 .. n |-> {}], at) /\ o = <<>>
          [] call.op = "extract"   -> t = s /\ o = A!ascon_extract_bytes(s, at, n)
          [] call.op = "extract_and_add" ->
                t = s /\ o = A!ascon_extract_and_add_bytes(s, d, at)
          [] call.op = "encrypt"   ->
                t = A!ascon_add_bytes(s, d, at) /\ o = A!ascon_extract_bytes(t, at, n)
          [] call.op = "decrypt"   ->
                /\ t = A!ascon_overwrite_bytes(s, d, at)
                /\ o = A!ascon_extract_and_add_bytes(s, d, at)
          [] call.op = "pad"       -> t = A!ascon_pad(s, at) /\ o = <<>>
          [] call.op = "separator" -> t = A!ascon_separator(s) /\ o = <<>>
          [] OTHER                 -> TRUE

BytesAreState == calls > 0 => BackendsAgree /\ \A b \in Backends : BytesOfCall(b)

(***************************************************************************)
(* PermutationIsAscon: what the backends compute round by round, with the  *)
(* inversion of one word folded into the constants and the words split     *)
(* into halves, is the permutation that ASCON defines by its table: for    *)
(* every state when it is one round, for the known bytes otherwise.        *)
(***************************************************************************)
PermutationIsAscon ==
    call.op = "permute" =>
        \A b \in Backends :
            Plain(b, mem[b]) = FlattenSeq(Reference(WordsOf(was), call.offset))

=============================================================================
