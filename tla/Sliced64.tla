------------------------------ MODULE Sliced64 ------------------------------
(***************************************************************************)
(* The permutation state of the backends with 64-bit words                 *)
(* (core/ascon-sliced64.c).  The words S[i] are numbers, and the bytes     *)
(* B[j] of the same memory depend on the byte order of the machine: a      *)
(* state is here its 40 bytes in memory.                                   *)
(***************************************************************************)
EXTENDS Permutations

CONSTANT LITTLE_ENDIAN

\* Mutant: the order of the bytes of a word is forgotten.
CellInOrder(offset) == offset

\* Where the byte at an offset of the state is: ASCON_C64_BYTE_FOR_OFFSET.
Cell(offset) ==
    IF LITTLE_ENDIAN THEN (offset \div 8) * 8 + 7 - (offset % 8) ELSE offset

\* The words S[0] .. S[4] of the memory, and the memory that holds given words.
Words(s) ==
    Evaluated([i \in 1 .. 5 |-> FlattenSeq([j \in 1 .. 8 |->
        s[IF LITTLE_ENDIAN THEN 8 * i - j ELSE 8 * (i - 1) + j - 1]])])
Memory(words) ==
    [c \in 0 .. 39 |->
        ByteOf(words[c \div 8 + 1], IF LITTLE_ENDIAN THEN 7 - (c % 8) ELSE c % 8)]

\* The offsets that a loop over `size` bytes from `offset` comes to.
Reached(offset, size) == {i \in 0 .. 39 : offset <= i /\ i < offset + size}

\* The byte of data for an offset of the state.
DataByte(data, offset, i) == ByteOf(data, i - offset)

\* The memory after each byte that the loop reaches became Op(its byte, i).
Loop(Op(_, _), s, offset, size) ==
    LET at == [c \in {Cell(i) : i \in Reached(offset, size)} |->
                  CHOOSE i \in Reached(offset, size) : Cell(i) = c]
    IN  [c \in 0 .. 39 |-> IF c \in DOMAIN at THEN Op(s[c], at[c]) ELSE s[c]]

ascon_init == [c \in 0 .. 39 |-> Blank(8)]
ascon_add_bytes(s, data, offset, size) ==
    Loop(LAMBDA b, i : WordXor(b, DataByte(data, offset, i)), s, offset, size)
ascon_overwrite_bytes(s, data, offset, size) ==
    Loop(LAMBDA b, i : DataByte(data, offset, i), s, offset, size)
ascon_overwrite_with_zeroes(s, offset, size) ==
    Loop(LAMBDA b, i : Blank(8), s, offset, size)
ascon_extract_bytes(s, offset, size) ==
    FlattenSeq([j \in 1 .. size |-> s[Cell(offset + j - 1)]])
ascon_extract_and_add_bytes(s, in, offset, size) ==
    FlattenSeq([j \in 1 .. size |->
        WordXor(ByteOf(in, j - 1), s[Cell(offset + j - 1)])])
ascon_extract_and_overwrite_bytes(s, in, offset, size) ==
    [state |-> ascon_overwrite_bytes(s, in, offset, size),
     out |-> ascon_extract_and_add_bytes(s, in, offset, size)]
ascon_copy(dest, src) == src

\* core/ascon-c64.c between loading and storing S[i].
ascon_permute(s, first_round) == Memory(ascon_permute_c64(Words(s), first_round))

(* Without a call (core/ascon-util-snp.h). *)

ascon_pad(s, offset) ==
    LET w == Words(s)
    IN  Memory([w EXCEPT ![offset \div 8 + 1] =
            WordXor(@, ShiftR(<<On>> \o Blank(63), 8 * (offset % 8)))])
ascon_separator(s) ==
    LET w == Words(s) IN Memory([w EXCEPT ![5] = WordXor(@, Number(1, 64))])
ascon_absorb_8(s, data, offset) ==
    LET w == Words(s)
    IN  Memory([w EXCEPT ![offset \div 8 + 1] = WordXor(@, data)])
ascon_absorb_16(s, data, offset) ==
    ascon_absorb_8(ascon_absorb_8(s, High(data), offset), Low(data), offset + 8)
ascon_squeeze_8(s, offset) == Words(s)[offset \div 8 + 1]
ascon_squeeze_16(s, offset) == ascon_squeeze_8(s, offset) \o ascon_squeeze_8(s, offset + 8)
ascon_encrypt_8(s, m, offset) ==
    LET t == ascon_absorb_8(s, m, offset)
    IN  [state |-> t, out |-> ascon_squeeze_8(t, offset)]
ascon_encrypt_16(s, m, offset) ==
    LET t == ascon_absorb_16(s, m, offset)
    IN  [state |-> t, out |-> ascon_squeeze_16(t, offset)]
ascon_decrypt_8(s, c, offset) ==
    LET w == Words(s)
    IN  [state |-> Memory([w EXCEPT ![offset \div 8 + 1] = c]),
         out |-> WordXor(c, w[offset \div 8 + 1])]
ascon_decrypt_16(s, c, offset) ==
    LET first == ascon_decrypt_8(s, High(c), offset)
        second == ascon_decrypt_8(first.state, Low(c), offset + 8)
    IN  [state |-> second.state, out |-> first.out \o second.out]

=============================================================================
