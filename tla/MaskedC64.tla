----------------------------- MODULE MaskedC64 ------------------------------
(***************************************************************************)
(* Masked words on 64-bit machines: a share is a 64-bit word, rotated by   *)
(* 11 bits against the one before it (masking/ascon-masked-word-c64.c,     *)
(* masking/ascon-x2-c64.c, x3, x4).                                        *)
(***************************************************************************)
EXTENDS Permutations

Slice(value) == value
PlainWord(w) == w
Rot(k, w) == RotR(w, 11 * k)
Linear(x) == Linear64(x)
RoundConstant(round) == RoundConstant64(round)
Turn(k, w) == RotR(w, <<13, 29, 59>>[k])

M == INSTANCE MaskedWord
P == INSTANCE MaskedPermutation

ascon_masked_word_x2_zero(r) == M!Zero(2, r)
ascon_masked_word_x2_load(data, r) == M!Load(2, data, r)
ascon_masked_word_x2_load_partial(data, r) == M!LoadPartial(2, data, r)
ascon_masked_word_x2_load_32(data1, data2, r) == M!Load32(2, data1, data2, r)
ascon_masked_word_x2_store(w) == M!Store(2, w)
ascon_masked_word_x2_store_partial(w, size) == M!StorePartial(2, w, size)
ascon_masked_word_x2_randomize(dest, src, r) == M!Randomize(2, dest, src, r)
ascon_masked_word_x2_xor(dest, src) == M!AddWord(2, dest, src)
ascon_masked_word_x2_replace(dest, src, size) == M!Replace(2, dest, src, size)
ascon_masked_word_x2_from_x3(src, r) == M!Convert(2, 3, src, r)
ascon_masked_word_x2_from_x4(src, r) == M!Convert(2, 4, src, r)

ascon_masked_word_x3_zero(r) == M!Zero(3, r)
ascon_masked_word_x3_load(data, r) == M!Load(3, data, r)
ascon_masked_word_x3_load_partial(data, r) == M!LoadPartial(3, data, r)
ascon_masked_word_x3_load_32(data1, data2, r) == M!Load32(3, data1, data2, r)
ascon_masked_word_x3_store(w) == M!Store(3, w)
ascon_masked_word_x3_store_partial(w, size) == M!StorePartial(3, w, size)
ascon_masked_word_x3_randomize(dest, src, r) == M!Randomize(3, dest, src, r)
ascon_masked_word_x3_xor(dest, src) == M!AddWord(3, dest, src)
ascon_masked_word_x3_replace(dest, src, size) == M!Replace(3, dest, src, size)
ascon_masked_word_x3_from_x2(src, r) == M!Convert(3, 2, src, r)
ascon_masked_word_x3_from_x4(src, r) == M!Convert(3, 4, src, r)

ascon_masked_word_x4_zero(r) == M!Zero(4, r)
ascon_masked_word_x4_load(data, r) == M!Load(4, data, r)
ascon_masked_word_x4_load_partial(data, r) == M!LoadPartial(4, data, r)
ascon_masked_word_x4_load_32(data1, data2, r) == M!Load32(4, data1, data2, r)
ascon_masked_word_x4_store(w) == M!Store(4, w)
ascon_masked_word_x4_store_partial(w, size) == M!StorePartial(4, w, size)
ascon_masked_word_x4_randomize(dest, src, r) == M!Randomize(4, dest, src, r)
ascon_masked_word_x4_xor(dest, src) == M!AddWord(4, dest, src)
ascon_masked_word_x4_replace(dest, src, size) == M!Replace(4, dest, src, size)
ascon_masked_word_x4_from_x2(src, r) == M!Convert(4, 2, src, r)
ascon_masked_word_x4_from_x3(src, r) == M!Convert(4, 3, src, r)

ascon_masked_word_pad(w, offset) == M!Pad(w, offset)
ascon_masked_word_separator(w) == M!Separate(w)

ascon_x2_permute(x, first_round, preserve) ==
    P!MaskedPermute(2, x, first_round, preserve)
ascon_x3_permute(x, first_round, preserve) ==
    P!MaskedPermute(3, x, first_round, preserve)
ascon_x4_permute(x, first_round, preserve) ==
    P!MaskedPermute(4, x, first_round, preserve)

(* The function for n shares. *)

zero(n, r) ==
    CASE n = 2 -> ascon_masked_word_x2_zero(r)
      [] n = 3 -> ascon_masked_word_x3_zero(r)
      [] n = 4 -> ascon_masked_word_x4_zero(r)
load(n, data, r) ==
    CASE n = 2 -> ascon_masked_word_x2_load(data, r)
      [] n = 3 -> ascon_masked_word_x3_load(data, r)
      [] n = 4 -> ascon_masked_word_x4_load(data, r)
load_partial(n, data, r) ==
    CASE n = 2 -> ascon_masked_word_x2_load_partial(data, r)
      [] n = 3 -> ascon_masked_word_x3_load_partial(data, r)
      [] n = 4 -> ascon_masked_word_x4_load_partial(data, r)
load_32(n, data1, data2, r) ==
    CASE n = 2 -> ascon_masked_word_x2_load_32(data1, data2, r)
      [] n = 3 -> ascon_masked_word_x3_load_32(data1, data2, r)
      [] n = 4 -> ascon_masked_word_x4_load_32(data1, data2, r)
store(n, w) ==
    CASE n = 2 -> ascon_masked_word_x2_store(w)
      [] n = 3 -> ascon_masked_word_x3_store(w)
      [] n = 4 -> ascon_masked_word_x4_store(w)
store_partial(n, w, size) ==
    CASE n = 2 -> ascon_masked_word_x2_store_partial(w, size)
      [] n = 3 -> ascon_masked_word_x3_store_partial(w, size)
      [] n = 4 -> ascon_masked_word_x4_store_partial(w, size)
randomize(n, dest, src, r) ==
    CASE n = 2 -> ascon_masked_word_x2_randomize(dest, src, r)
      [] n = 3 -> ascon_masked_word_x3_randomize(dest, src, r)
      [] n = 4 -> ascon_masked_word_x4_randomize(dest, src, r)
xor(n, dest, src) ==
    CASE n = 2 -> ascon_masked_word_x2_xor(dest, src)
      [] n = 3 -> ascon_masked_word_x3_xor(dest, src)
      [] n = 4 -> ascon_masked_word_x4_xor(dest, src)
replace(n, dest, src, size) ==
    CASE n = 2 -> ascon_masked_word_x2_replace(dest, src, size)
      [] n = 3 -> ascon_masked_word_x3_replace(dest, src, size)
      [] n = 4 -> ascon_masked_word_x4_replace(dest, src, size)
convert(n, m, src, r) ==
    CASE <<n, m>> = <<2, 3>> -> ascon_masked_word_x2_from_x3(src, r)
      [] <<n, m>> = <<2, 4>> -> ascon_masked_word_x2_from_x4(src, r)
      [] <<n, m>> = <<3, 2>> -> ascon_masked_word_x3_from_x2(src, r)
      [] <<n, m>> = <<3, 4>> -> ascon_masked_word_x3_from_x4(src, r)
      [] <<n, m>> = <<4, 2>> -> ascon_masked_word_x4_from_x2(src, r)
      [] <<n, m>> = <<4, 3>> -> ascon_masked_word_x4_from_x3(src, r)
permute(n, x, first_round, preserve) ==
    CASE n = 2 -> ascon_x2_permute(x, first_round, preserve)
      [] n = 3 -> ascon_x3_permute(x, first_round, preserve)
      [] n = 4 -> ascon_x4_permute(x, first_round, preserve)

(* States and keys of such words. *)

S == INSTANCE MaskedState

=============================================================================
