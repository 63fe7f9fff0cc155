---------------------------- MODULE MaskedState -----------------------------
(***************************************************************************)
(* The permutation state of five masked words (masking/ascon-masked-state. *)
(* c) and the masked keys (masking/ascon-masked-key.c), over the masked    *)
(* words of a backend.  r[i] is the randomness that word i draws.          *)
(***************************************************************************)
EXTENDS BitWords

CONSTANTS   \* the word functions for n shares, see MaskedC64
    load(_, _, _), load_32(_, _, _, _), store(_, _), store_partial(_, _, _),
    randomize(_, _, _, _), convert(_, _, _, _)

EachWord(f(_)) == Evaluated([i \in 1 .. 5 |-> f(i)])

\* The state as it is without masks: its five words.
CopyFromX1(n, src, r) == EachWord(LAMBDA i : load(n, src[i], r[i]))
CopyToX1(n, src) == EachWord(LAMBDA i : store(n, src[i]))
Refresh(n, dest, src, r) == EachWord(LAMBDA i : randomize(n, dest[i], src[i], r[i]))
CopyFrom(n, m, src, r) == EachWord(LAMBDA i : convert(n, m, src[i], r[i]))

ascon_x2_randomize(s, r) == Refresh(2, s, s, r)
ascon_x2_copy_from_x1(src, r) == CopyFromX1(2, src, r)
ascon_x2_copy_to_x1(src) == CopyToX1(2, src)
ascon_x2_copy_from_x2(dest, src, r) == Refresh(2, dest, src, r)
ascon_x2_copy_from_x3(src, r) == CopyFrom(2, 3, src, r)
ascon_x2_copy_from_x4(src, r) == CopyFrom(2, 4, src, r)

ascon_x3_randomize(s, r) == Refresh(3, s, s, r)
ascon_x3_copy_from_x1(src, r) == CopyFromX1(3, src, r)
ascon_x3_copy_to_x1(src) == CopyToX1(3, src)
ascon_x3_copy_from_x2(src, r) == CopyFrom(3, 2, src, r)
ascon_x3_copy_from_x3(dest, src, r) == Refresh(3, dest, src, r)
ascon_x3_copy_from_x4(src, r) == CopyFrom(3, 4, src, r)

ascon_x4_randomize(s, r) == Refresh(4, s, s, r)
ascon_x4_copy_from_x1(src, r) == CopyFromX1(4, src, r)
ascon_x4_copy_to_x1(src) == CopyToX1(4, src)
ascon_x4_copy_from_x2(src, r) == CopyFrom(4, 2, src, r)
ascon_x4_copy_from_x3(src, r) == CopyFrom(4, 3, src, r)
ascon_x4_copy_from_x4(dest, src, r) == Refresh(4, dest, src, r)

\* The function for n shares, to or from m.
state_randomize(n, s, r) ==
    CASE n = 2 -> ascon_x2_randomize(s, r)
      [] n = 3 -> ascon_x3_randomize(s, r)
      [] n = 4 -> ascon_x4_randomize(s, r)
copy_from_x1(n, src, r) ==
    CASE n = 2 -> ascon_x2_copy_from_x1(src, r)
      [] n = 3 -> ascon_x3_copy_from_x1(src, r)
      [] n = 4 -> ascon_x4_copy_from_x1(src, r)
copy_to_x1(n, src) ==
    CASE n = 2 -> ascon_x2_copy_to_x1(src)
      [] n = 3 -> ascon_x3_copy_to_x1(src)
      [] n = 4 -> ascon_x4_copy_to_x1(src)
copy_from(n, m, dest, src, r) ==
    CASE <<n, m>> = <<2, 2>> -> ascon_x2_copy_from_x2(dest, src, r)
      [] <<n, m>> = <<2, 3>> -> ascon_x2_copy_from_x3(src, r)
      [] <<n, m>> = <<2, 4>> -> ascon_x2_copy_from_x4(src, r)
      [] <<n, m>> = <<3, 2>> -> ascon_x3_copy_from_x2(src, r)
      [] <<n, m>> = <<3, 3>> -> ascon_x3_copy_from_x3(dest, src, r)
      [] <<n, m>> = <<3, 4>> -> ascon_x3_copy_from_x4(src, r)
      [] <<n, m>> = <<4, 2>> -> ascon_x4_copy_from_x2(src, r)
      [] <<n, m>> = <<4, 3>> -> ascon_x4_copy_from_x3(src, r)
      [] <<n, m>> = <<4, 4>> -> ascon_x4_copy_from_x4(dest, src, r)

-----------------------------------------------------------------------------
(* Keys, with n = ASCON_MASKED_KEY_SHARES shares.  `key` are its bits.     *)

Part(key, from, n) == SubSeq(key, 8 * from + 1, 8 * (from + n))

ascon_masked_key_128_init(n, key, r) ==
    << load(n, Part(key, 0, 8), r[1]), load(n, Part(key, 8, 8), r[2]) >>
ascon_masked_key_128_randomize(n, k, r) ==
    Evaluated([i \in 1 .. 2 |-> randomize(n, k[i], k[i], r[i])])
ascon_masked_key_128_extract(n, k) == store(n, k[1]) \o store(n, k[2])

\* ASCON-80pq adds its key at two places, it is masked once for each.
ascon_masked_key_160_init(n, key, r) ==
    << load(n, Part(key, 0, 8), r[1]), load(n, Part(key, 8, 8), r[2]),
       load_32(n, Part(key, 16, 4), Blank(32), r[3]),
       load_32(n, Blank(32), Part(key, 0, 4), r[4]),
       load(n, Part(key, 4, 8), r[5]), load(n, Part(key, 12, 8), r[6]) >>

\* Two shares of each word are randomized, whatever their number is.
ascon_masked_key_160_randomize(n, k, r) ==
    Evaluated([i \in 1 .. 6 |-> randomize(2, k[i], k[i], r[i])])
ascon_masked_key_160_extract(n, k) ==
    store(n, k[1]) \o store(n, k[2]) \o store_partial(n, k[3], 4)

=============================================================================
