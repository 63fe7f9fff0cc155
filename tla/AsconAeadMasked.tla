-------------------------- MODULE AsconAeadMasked --------------------------
(***************************************************************************)
(* The masked versions of the three algorithms                             *)
(* (src/aead/ascon-aead-masked-*.c).  The key is masked with more shares   *)
(* than the data: the state is converted after the key has entered it, and *)
(* back before the tag is made.                                            *)
(*                                                                         *)
(* A masked state is its value s together with the number n of shares its  *)
(* words are kept in; what the shares look like is the subject of module   *)
(* MaskedWord.  An operation for another number of shares than a word has  *)
(* reads and leaves garbage.  With one share the state is a plain one and  *)
(* the functions of module AsconAead work on it.                           *)
(***************************************************************************)
EXTENDS AsconAead

\* The value that operations for n shares see.
Seen(x, n) == IF x.n = n THEN x.s ELSE ascon_permute(x.s, -1)

\* Xors words into consecutive words of the state, the first of them M[at].
XorWords(x, n, at, words) ==
    [s |-> FoldLeft(LAMBDA s, j : Absorbed(s, words[j], (at + j - 1) * WORD),
                    Seen(x, n), [j \in DOMAIN words |-> j]), n |-> n]
MaskedPermute(x, n, round) == [s |-> ascon_permute(Seen(x, n), round), n |-> n]
\* Mutant: the state stays in the shares it has.
NotConverted(x, from, to) == x

\* ascon_copy_key_to_x1 to _x4, ascon_copy_key_from_x1 to _x4.
Converted(x, from, to) == [s |-> Seen(x, from), n |-> to]

Word(bytes, i) == SubSeq(bytes, (i - 1) * WORD + 1, i * WORD)

\* A 160-bit key is kept twice: from the left, and up to the right end.
ascon_masked_key_128_init(key) == <<Word(key, 1), Word(key, 2)>>
ascon_masked_key_160_init(key) ==
    LET half == Zeroes(WORD \div 2)
    IN  [i \in 1 .. 6 |-> IF i <= 3 THEN Word(key \o half, i) ELSE Word(half \o key, i - 3)]

\* The words of a key that reach the right end of what they are added to.
RightWords(v, k) == IF v.alg = "80pq" THEN SubSeq(k, 4, 6) ELSE k
LeftWords(v, k) == IF v.alg = "80pq" THEN SubSeq(k, 1, 3) ELSE k

\* IV, key and nonce, each word with the place it goes to.
Filled(v, n, npub, key) ==
    FoldLeft(LAMBDA x, w : XorWords(x, n, w[1], w[2]), [s |-> ascon_init, n |-> n],
             << <<0, <<IvBytes(v, "aead")>>>>, <<3 - Len(key), key>>,
                <<3, <<Word(npub, 1), Word(npub, 2)>>>> >>)
MaskedInit(v, shares, npub, k) ==
    LET key == RightWords(v, k)
    IN  Converted(XorWords(MaskedPermute(Filled(v, shares.key, npub, key), shares.key, 0),
                           shares.key, 5 - Len(key), key),
                  shares.key, shares.data)

MaskedFinalize(v, shares, x, k) ==
    TagOf(XorWords(MaskedPermute(
              XorWords(Converted(x, shares.data, shares.key),
                       shares.key, v.rate \div WORD, LeftWords(v, k)), shares.key, 0),
          shares.key, 3, IF v.alg = "80pq" THEN SubSeq(k, 5, 6) ELSE k).s)

(***************************************************************************)
(* ascon_masked_aead_absorb_8, _16, encrypt_8, _16, decrypt_8, _16: blocks *)
(* go through the state a word at a time.                                  *)
(***************************************************************************)
\* The words of one block, the last of them shorter if the block is the rest.
BlockWords(v, block) ==
    IF Len(block) < WORD THEN <<block>>
    ELSE IF v.rate = WORD THEN <<block>>
    ELSE <<SubSeq(block, 1, WORD), SubSeq(block, WORD + 1, Len(block))>>

\* The last block is padded in the word that the data ends in.
PadWord(v, x, n, block) ==
    LET words == BlockWords(v, block)
        last  == Len(words)
    IN  [s |-> ascon_pad(Seen(x, n), (last - 1) * WORD + Len(words[last])), n |-> n]

\* One block: what leaves the state, and the state that keeps the ciphertext.
MaskedSealed(r, x, size) ==
    [x |-> x, out |-> r.out \o Leaving(x.s, ascon_extract_bytes(x.s, 0, size))]
MaskedSeal(v, n, r, block) ==
    MaskedSealed(r, XorWords(r.x, n, 0, BlockWords(v, block)), Len(block))
MaskedOpened(r, n, s, cipher) ==
    [x |-> [s |-> ascon_overwrite_bytes(s, cipher, 0), n |-> n],
     out |-> r.out \o Leaving(s, ascon_extract_and_add_bytes(s, cipher, 0))]
MaskedOpen(v, n, r, block) == MaskedOpened(r, n, Seen(r.x, n), Entering(Seen(r.x, n), block))

\* Full blocks, each followed by the permutation, and the padded rest.
MaskedBlocks(v, n, x, in, Part(_, _, _, _)) ==
    LET blocks == Len(in) \div v.rate
        rest   == SubSeq(in, blocks * v.rate + 1, Len(in))
        Next(r) == [r EXCEPT !.x = MaskedPermute(@, n, v.round)]
        Padded(r) == [r EXCEPT !.x = PadWord(v, @, n, rest)]
    IN  Padded(Part(v, n, FoldLeft(LAMBDA r, k : Next(Part(v, n, r,
                                     SubSeq(in, (k - 1) * v.rate + 1, k * v.rate))),
                            [x |-> x, out |-> <<>>], [k \in 1 .. blocks |-> k]), rest))

Separated(x) == [x EXCEPT !.s = ascon_separator(@)]
MaskedAd(v, n, x, ad) ==
    Separated(IF ad = <<>> THEN x
              ELSE MaskedPermute(MaskedBlocks(v, n, x, ad, MaskedSeal).x, n, v.round))

\* With one share per word of data: the functions for a plain state.
PlainPadded(x, r) == [x |-> [x EXCEPT !.s = ascon_pad(r.state, r.posn)], out |-> r.out]
PlainSeal(v, x, ad, in) == PlainPadded(x, EncryptBlocks(v, AfterAd(v, x.s, ad), in, 0))
PlainOpen(v, x, ad, in) == PlainPadded(x, DecryptBlocks(v, AfterAd(v, x.s, ad), in, 0))

SealMasked(v, n, x, ad, m) ==
    IF n = 1 THEN PlainSeal(v, x, ad, m)
    ELSE MaskedBlocks(v, n, MaskedAd(v, n, x, ad), m, MaskedSeal)
OpenMasked(v, n, x, ad, in) ==
    IF n = 1 THEN PlainOpen(v, x, ad, in)
    ELSE MaskedBlocks(v, n, MaskedAd(v, n, x, ad), in, MaskedOpen)

MaskedPacket(v, shares, e, k) == e.out \o MaskedFinalize(v, shares, e.x, k)
MaskedEncrypt(v, shares, m, ad, npub, k) ==
    MaskedPacket(v, shares, SealMasked(v, shares.data,
        MaskedInit(v, shares, NonceBytes(npub), k), ad, m), k)

MaskedChecked(v, shares, d, k, tag) ==
    ascon_aead_check_tag(d.out, MaskedFinalize(v, shares, d.x, k), tag)
MaskedDecrypt(v, shares, c, ad, npub, k) ==
    LET mlen == Len(c) - TAG_SIZE
    IN  IF mlen < 0 THEN Refused
        ELSE MaskedChecked(v, shares, OpenMasked(v, shares.data,
                 MaskedInit(v, shares, NonceBytes(npub), k), ad, SubSeq(c, 1, mlen)), k,
                 SubSeq(c, mlen + 1, Len(c)))

ascon128_masked_aead_encrypt(shares, m, ad, npub, k) ==
    MaskedEncrypt(Ascon128, shares, m, ad, npub, k)
ascon128_masked_aead_decrypt(shares, c, ad, npub, k) ==
    MaskedDecrypt(Ascon128, shares, c, ad, npub, k)
ascon128a_masked_aead_encrypt(shares, m, ad, npub, k) ==
    MaskedEncrypt(Ascon128a, shares, m, ad, npub, k)
ascon128a_masked_aead_decrypt(shares, c, ad, npub, k) ==
    MaskedDecrypt(Ascon128a, shares, c, ad, npub, k)
ascon80pq_masked_aead_encrypt(shares, m, ad, npub, k) ==
    MaskedEncrypt(Ascon80pq, shares, m, ad, npub, k)
ascon80pq_masked_aead_decrypt(shares, c, ad, npub, k) ==
    MaskedDecrypt(Ascon80pq, shares, c, ad, npub, k)

masked_aead_encrypt(alg, shares, m, ad, npub, k) ==
    CASE alg = "128" -> ascon128_masked_aead_encrypt(shares, m, ad, npub, k)
      [] alg = "128a" -> ascon128a_masked_aead_encrypt(shares, m, ad, npub, k)
      [] alg = "80pq" -> ascon80pq_masked_aead_encrypt(shares, m, ad, npub, k)
masked_aead_decrypt(alg, shares, c, ad, npub, k) ==
    CASE alg = "128" -> ascon128_masked_aead_decrypt(shares, c, ad, npub, k)
      [] alg = "128a" -> ascon128a_masked_aead_decrypt(shares, c, ad, npub, k)
      [] alg = "80pq" -> ascon80pq_masked_aead_decrypt(shares, c, ad, npub, k)

=============================================================================
