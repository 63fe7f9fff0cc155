------------------------------ MODULE Sliced32 ------------------------------
(***************************************************************************)
(* The permutation state of the backends with 32-bit words                 *)
(* (core/ascon-sliced32.c, .h): W[2i] holds the even bits of the i-th      *)
(* 64-bit word and W[2i + 1] its odd bits, and every access to bytes       *)
(* separates or combines them.  A state is the sequence of its five        *)
(* stored words, data the sequence of the bits of its bytes.               *)
(***************************************************************************)
EXTENDS Permutations

\* The bits that the mask selects change places with those `shift` above them.
Exchanged(y, t, shift) == WordXor(WordXor(y, t), ShiftL(t, shift))
ascon_bit_permute_step(y, mask, shift) ==
    Exchanged(y, WordAnd(WordXor(ShiftR(y, shift), y), mask), shift)

\* 32-bit masks, as pairs of 16-bit numbers, each with the shift of its step.
BitPermuted(x, steps) ==
    FoldLeft(LAMBDA y, s : ascon_bit_permute_step(y, Constant32(s[1], s[2]), s[3]), x, steps)
ascon_separate(x) ==
    BitPermuted(x, << <<8738, 8738, 1>>, <<3084, 3084, 2>>, <<240, 240, 4>>, <<0, 65280, 8>> >>)
ascon_combine(x) ==
    BitPermuted(x, << <<0, 43690, 15>>, <<0, 52428, 14>>, <<0, 61680, 12>>, <<0, 65280, 8>> >>)

\* The stored word of a 64-bit value, and back.
EvenOdd(high, low) == (Low(high) \o Low(low)) \o (High(high) \o High(low))
SlicedWord(value) == EvenOdd(ascon_separate(High(value)), ascon_separate(Low(value)))
PlainWord(w) ==
    LET even == High(w)
        odd  == Low(w)
    IN  ascon_combine(High(odd) \o High(even)) \o ascon_combine(Low(odd) \o Low(even))

ascon_set_word64(s, value, w) == [s EXCEPT ![w + 1] = SlicedWord(value)]
ascon_absorb_word64(s, value, w) == [s EXCEPT ![w + 1] = WordXor(@, SlicedWord(value))]
ascon_squeeze_word64(s, w) == PlainWord(s[w + 1])

\* The same for eight bytes of data.
ascon_set_sliced(s, data, w) == ascon_set_word64(s, data, w)
ascon_absorb_sliced(s, data, w) == ascon_absorb_word64(s, data, w)
ascon_squeeze_sliced(s, w) == ascon_squeeze_word64(s, w)

\* Four bytes into the lower or the upper half of a word.
ascon_absorb32_low_sliced(s, data, w) ==
    LET low == ascon_separate(data)
    IN  [s EXCEPT ![w + 1] =
            WordXor(@, Blank(16) \o Low(low) \o Blank(16) \o High(low))]
ascon_absorb32_high_sliced(s, data, w) ==
    LET high == ascon_separate(data)
    IN  [s EXCEPT ![w + 1] =
            WordXor(@, Low(high) \o Blank(16) \o High(high) \o Blank(16))]

Squeezed(t, w) == [state |-> t, out |-> ascon_squeeze_sliced(t, w)]
ascon_encrypt_sliced(s, m, w) == Squeezed(ascon_absorb_sliced(s, m, w), w)

\* The word is combined with the separated ciphertext before it is replaced.
ascon_decrypt_sliced_no_insert(s, c, w) ==
    LET even  == High(s[w + 1])
        odd   == Low(s[w + 1])
        high2 == WordXor(ascon_separate(High(c)), High(odd) \o High(even))
        low2  == WordXor(ascon_separate(Low(c)), Low(odd) \o Low(even))
    IN  ascon_combine(high2) \o ascon_combine(low2)
ascon_decrypt_sliced(s, c, w) ==
    [state |-> ascon_set_sliced(s, c, w), out |-> ascon_decrypt_sliced_no_insert(s, c, w)]

(***************************************************************************)
(* Data that begins or ends within a word is treated in pieces: what is    *)
(* left of the first word, full words, the beginning of the last one.      *)
(* A piece has n bytes, from byte `at` of word w and byte `from` of data.  *)
(***************************************************************************)
Pieces(offset, size) ==
    LET ofs   == offset % 8
        head  == IF ofs = 0 THEN 0 ELSE IF 8 - ofs < size THEN 8 - ofs ELSE size
        first == (offset + head) \div 8
        full  == (size - head) \div 8
        tail  == (size - head) % 8
        Piece(w, at, from, n) == [w |-> w, at |-> at, from |-> from, n |-> n]
    IN  (IF ofs = 0 THEN <<>> ELSE <<Piece(offset \div 8, ofs, 0, head)>>)
        \o [k \in 1 .. full |-> Piece(first + k - 1, 0, head + 8 * (k - 1), 8)]
        \o (IF tail = 0 THEN <<>>
            ELSE <<Piece(first + full, 0, head + 8 * full, tail)>>)

PieceOf(data, p) == SubSeq(data, 8 * p.from + 1, 8 * (p.from + p.n))
\* The piece of data in its place in a word of zeroes, and in a given word.
Shifted(data, p) ==
    Blank(8 * p.at) \o PieceOf(data, p) \o Blank(8 * (8 - p.at - p.n))
Inserted(value, data, p) ==
    SubSeq(value, 1, 8 * p.at) \o PieceOf(data, p)
    \o SubSeq(value, 8 * (p.at + p.n) + 1, 64)
Taken(value, p) == SubSeq(value, 8 * p.at + 1, 8 * (p.at + p.n))

Each(Op(_, _), s, offset, size) == FoldLeft(Op, s, Pieces(offset, size))

ascon_init == [i \in 1 .. 5 |-> Blank(64)]

ascon_add_bytes(s, data, offset, size) ==
    Each(LAMBDA t, p :
            IF p.n = 8 THEN ascon_absorb_sliced(t, PieceOf(data, p), p.w)
            ELSE ascon_absorb_word64(t, Shifted(data, p), p.w), s, offset, size)

ascon_overwrite_bytes(s, data, offset, size) ==
    Each(LAMBDA t, p :
            IF p.n = 8 THEN ascon_set_sliced(t, PieceOf(data, p), p.w)
            ELSE ascon_set_word64(t, Inserted(ascon_squeeze_word64(t, p.w), data, p), p.w),
         s, offset, size)

ascon_overwrite_with_zeroes(s, offset, size) ==
    LET Kept(p) ==
            IF p.at # 0
            THEN WordOr(ShiftL(Ones(64), 8 * (8 - p.at)), ShiftR(Ones(64), 8 * (p.at + p.n)))
            ELSE ShiftR(Ones(64), 8 * p.n)
    IN  Each(LAMBDA t, p :
                IF p.n = 8 THEN [t EXCEPT ![p.w + 1] = Blank(64)]
                ELSE ascon_set_word64(t, WordAnd(ascon_squeeze_word64(t, p.w), Kept(p)), p.w),
             s, offset, size)

ascon_extract_bytes(s, offset, size) ==
    FoldLeft(LAMBDA out, p : out \o Taken(ascon_squeeze_word64(s, p.w), p),
             <<>>, Pieces(offset, size))

ascon_extract_and_add_bytes(s, in, offset, size) ==
    FoldLeft(LAMBDA out, p : out \o
                IF p.n = 8 THEN ascon_decrypt_sliced_no_insert(s, PieceOf(in, p), p.w)
                ELSE WordXor(PieceOf(in, p), Taken(ascon_squeeze_word64(s, p.w), p)),
             <<>>, Pieces(offset, size))

\* A whole word is decrypted, a part of one is added and then replaced.
Moved(r, next) == [state |-> next.state, out |-> r.out \o next.out]
PartDecrypted(s, value, in, p) ==
    [state |-> ascon_set_word64(s, Inserted(value, in, p), p.w),
     out |-> WordXor(PieceOf(in, p), Taken(value, p))]
ascon_extract_and_overwrite_bytes(s, in, offset, size) ==
    Each(LAMBDA r, p :
            Moved(r, IF p.n = 8 THEN ascon_decrypt_sliced(r.state, PieceOf(in, p), p.w)
                     ELSE PartDecrypted(r.state, ascon_squeeze_word64(r.state, p.w), in, p)),
         [state |-> s, out |-> <<>>], offset, size)

ascon_copy(dest, src) == src

(***************************************************************************)
(* What the modes use instead, without a call (core/ascon-util-snp.h): one *)
(* byte of padding, the domain separator, and one or two whole words.      *)
(***************************************************************************)
\* Mutant: the padding bit goes into the word of the even bits.
PadEven(s, offset) ==
    [s EXCEPT ![offset \div 8 + 1] =
        WordXor(@, ShiftR(Constant32(32768, 0), 4 * (offset % 8)) \o Blank(32))]

ascon_pad(s, offset) ==
    [s EXCEPT ![offset \div 8 + 1] =
        WordXor(@, Blank(32) \o ShiftR(Constant32(32768, 0), 4 * (offset % 8)))]
ascon_separator(s) == [s EXCEPT ![5] = WordXor(@, Number(1, 32) \o Blank(32))]

\* Op on each of the words that `data` covers from `offset`; r is [state, out].
WordByWord(Op(_, _, _), s, data, offset) ==
    FoldLeft(LAMBDA r, k :
                Moved(r, Op(r.state, SubSeq(data, 64 * k + 1, 64 * k + 64), offset \div 8 + k)),
             [state |-> s, out |-> <<>>],
             [k \in 1 .. Len(data) \div 64 |-> k - 1])

ascon_absorb_8(s, data, offset) == ascon_absorb_sliced(s, data, offset \div 8)
ascon_absorb_16(s, data, offset) ==
    ascon_absorb_8(ascon_absorb_8(s, High(data), offset), Low(data), offset + 8)
ascon_squeeze_8(s, offset) == ascon_squeeze_sliced(s, offset \div 8)
ascon_squeeze_16(s, offset) == ascon_squeeze_8(s, offset) \o ascon_squeeze_8(s, offset + 8)
ascon_encrypt_8(s, m, offset) == WordByWord(ascon_encrypt_sliced, s, m, offset)
ascon_encrypt_16(s, m, offset) == WordByWord(ascon_encrypt_sliced, s, m, offset)
ascon_decrypt_8(s, c, offset) == WordByWord(ascon_decrypt_sliced, s, c, offset)
ascon_decrypt_16(s, c, offset) == WordByWord(ascon_decrypt_sliced, s, c, offset)

=============================================================================
