----------------------------- MODULE AsconAead -----------------------------
(***************************************************************************)
(* ASCON-128, ASCON-128a and ASCON-80pq: the functions that seal and open  *)
(* a packet in one call, and those that take it in pieces                  *)
(* (src/aead/ascon-aead-*.c).                                              *)
(*                                                                         *)
(* The source has one copy of every function per algorithm; the copies     *)
(* differ in what a record such as Ascon128 says.  A function of the       *)
(* source is here the shared definition applied to its record.             *)
(***************************************************************************)
EXTENDS AsconState, SequencesExt

CONSTANT
    BASE    \* values of one byte of a nonce: 256 in the code

ASSUME AeadAssumption == BASE \in Nat \ {0, 1} /\ WORD % 2 = 0

TAG_SIZE == 2 * WORD
NONCE_SIZE == 2 * WORD

(***************************************************************************)
(* What distinguishes the algorithms: lengths of the IV and of the key,    *)
(* the bytes of a block and the first round of the permutations between    *)
(* blocks.  The key fills the state after the IV; of an 80pq key only the  *)
(* last 16 bytes go into the tag.                                          *)
(***************************************************************************)
Ascon128 == [alg |-> "128", iv |-> WORD, key |-> 2 * WORD, rate |-> WORD, round |-> 6]
Ascon128a == [Ascon128 EXCEPT !.alg = "128a", !.rate = 2 * WORD, !.round = 4]
Ascon80pq == [Ascon128 EXCEPT !.alg = "80pq", !.iv = WORD \div 2,
                              !.key = 2 * WORD + WORD \div 2]

IvBytes(v, phase) == [i \in 1 .. v.iv |-> {<<"iv", <<v.alg, phase>>, i>>}]

\* The bytes of a nonce, each a number below BASE; zero is the empty set.
NonceBytes(npub) ==
    [i \in 1 .. NONCE_SIZE |-> IF npub[i] = 0 THEN {} ELSE {<<"nonce", npub[i], i>>}]

\* IV, key and nonce fill the whole state, whatever it held.
KeyedState(v, old, phase, npub, k) ==
    LET filled == ascon_overwrite_bytes(ascon_overwrite_bytes(ascon_overwrite_bytes(
                      old, IvBytes(v, phase), 0), k, v.iv), npub, 3 * WORD)
    IN  ascon_add_bytes(ascon_permute(Forgetful(filled), 0), k, STATE_SIZE - v.key)

\* ascon_aead_absorb_8 and _16: full blocks, then the padded rest.
Absorbed(s, in, at) == ascon_add_bytes(s, Entering(s, in), at)
PermutedIf(yes, s, round) == IF yes THEN ascon_permute(s, round) ELSE s
AbsorbBlocks(v, s, data, last_permute) ==
    LET blocks == Len(data) \div v.rate
        rest   == SubSeq(data, blocks * v.rate + 1, Len(data))
        after[k \in 0 .. blocks] ==
            IF k = 0 THEN s
            ELSE ascon_permute(Absorbed(after[k - 1],
                     SubSeq(data, (k - 1) * v.rate + 1, k * v.rate), 0), v.round)
    IN  PermutedIf(last_permute,
            ascon_pad(Absorbed(after[blocks], rest, 0), Len(rest)), v.round)

(***************************************************************************)
(* ascon_aead_encrypt_8, _16 and ascon_aead_decrypt_8, _16: what is left   *)
(* of the block that the last call began, full blocks, the beginning of    *)
(* the next block.  r is [state, out, posn].                               *)
(***************************************************************************)
\* Mutant: the ciphertext is taken from the beginning of the block.
SealFromStart(v, r, in) ==
    LET state == ascon_add_bytes(r.state, Entering(r.state, in), r.posn)
    IN  [state |-> state, posn |-> r.posn + Len(in),
         out |-> r.out \o Leaving(state, ascon_extract_bytes(state, 0, Len(in)))]

\* Mutant: the state keeps the plaintext.
OpenKeepsPlaintext(v, r, in) ==
    LET cipher == Entering(r.state, in)
    IN  [state |-> ascon_add_bytes(r.state, cipher, r.posn),
         posn |-> r.posn + Len(in),
         out |-> r.out \o Leaving(r.state,
                    ascon_extract_and_add_bytes(r.state, cipher, r.posn))]

\* One piece that lies within a block: the state keeps the ciphertext.
SealedFrom(r, state, in) ==
    [state |-> state, posn |-> r.posn + Len(in),
     out |-> r.out \o Leaving(state, ascon_extract_bytes(state, r.posn, Len(in)))]
SealPart(v, r, in) == SealedFrom(r, Absorbed(r.state, in, r.posn), in)
OpenedFrom(r, cipher) ==
    [state |-> ascon_overwrite_bytes(r.state, cipher, r.posn),
     posn |-> r.posn + Len(cipher),
     out |-> r.out \o Leaving(r.state,
                ascon_extract_and_add_bytes(r.state, cipher, r.posn))]
OpenPart(v, r, in) == OpenedFrom(r, Entering(r.state, in))

\* Every part that reaches the end of a block is followed by the permutation.
NextBlock(v, r) == [r EXCEPT !.state = ascon_permute(@, v.round), !.posn = 0]
Crypted(v, state, in, posn, Part(_, _, _)) ==
    LET complete == (posn + Len(in)) \div v.rate
        From(k) == IF k = 1 THEN 1 ELSE (k - 1) * v.rate - posn + 1
        after[k \in 0 .. complete] ==
            IF k = 0 THEN [state |-> state, posn |-> posn, out |-> <<>>]
            ELSE NextBlock(v, Part(v, after[k - 1],
                                   SubSeq(in, From(k), k * v.rate - posn)))
    IN  Part(v, after[complete], SubSeq(in, From(complete + 1), Len(in)))

EncryptBlocks(v, state, in, posn) == Crypted(v, state, in, posn, SealPart)
DecryptBlocks(v, state, in, posn) == Crypted(v, state, in, posn, OpenPart)

\* The tag: the key goes in before and after the last permutation.
Finalized(v, s, k) ==
    LET last == ascon_permute(ascon_add_bytes(s, k, v.rate), 0)
        low  == SubSeq(k, v.key - 2 * WORD + 1, v.key)
    IN  ascon_add_bytes(last, low, 3 * WORD)
TagOf(s) == Leaving(s, ascon_extract_bytes(s, 3 * WORD, TAG_SIZE))

\* Mutant: the plaintext stays in the buffer.
CheckTagKeeps(m, tag1, tag2) == [result |-> IF tag1 = tag2 THEN 0 ELSE -1, m |-> m]

\* Plaintext survives only if the tags match.
ascon_aead_check_tag(m, tag1, tag2) ==
    IF tag1 = tag2 THEN [result |-> 0, m |-> m]
    ELSE [result |-> -1, m |-> Zeroes(Len(m))]

Refused == [result |-> -1, m |-> <<>>]

-----------------------------------------------------------------------------
(* One call per packet. *)

AfterAd(v, s, ad) ==
    ascon_separator(IF ad = <<>> THEN s ELSE AbsorbBlocks(v, s, ad, TRUE))

PacketFrom(v, e, k) == e.out \o TagOf(Finalized(v, ascon_pad(e.state, e.posn), k))
Encrypt(v, m, ad, npub, k) ==
    PacketFrom(v, EncryptBlocks(v,
        AfterAd(v, KeyedState(v, ascon_init, "aead", NonceBytes(npub), k), ad), m, 0), k)

CheckedPacket(v, d, k, tag) ==
    ascon_aead_check_tag(d.out, TagOf(Finalized(v, ascon_pad(d.state, d.posn), k)), tag)
Decrypt(v, c, ad, npub, k) ==
    IF Len(c) < TAG_SIZE THEN Refused
    ELSE CheckedPacket(v, DecryptBlocks(v,
             AfterAd(v, KeyedState(v, ascon_init, "aead", NonceBytes(npub), k), ad),
             SubSeq(c, 1, Len(c) - TAG_SIZE), 0), k,
             SubSeq(c, Len(c) - TAG_SIZE + 1, Len(c)))

ascon128_aead_encrypt(m, ad, npub, k) == Encrypt(Ascon128, m, ad, npub, k)
ascon128_aead_decrypt(c, ad, npub, k) == Decrypt(Ascon128, c, ad, npub, k)
ascon128a_aead_encrypt(m, ad, npub, k) == Encrypt(Ascon128a, m, ad, npub, k)
ascon128a_aead_decrypt(c, ad, npub, k) == Decrypt(Ascon128a, c, ad, npub, k)
ascon80pq_aead_encrypt(m, ad, npub, k) == Encrypt(Ascon80pq, m, ad, npub, k)
ascon80pq_aead_decrypt(c, ad, npub, k) == Decrypt(Ascon80pq, c, ad, npub, k)

\* The functions of an algorithm.
aead_encrypt(alg, m, ad, npub, k) ==
    CASE alg = "128" -> ascon128_aead_encrypt(m, ad, npub, k)
      [] alg = "128a" -> ascon128a_aead_encrypt(m, ad, npub, k)
      [] alg = "80pq" -> ascon80pq_aead_encrypt(m, ad, npub, k)
aead_decrypt(alg, c, ad, npub, k) ==
    CASE alg = "128" -> ascon128_aead_decrypt(c, ad, npub, k)
      [] alg = "128a" -> ascon128a_aead_decrypt(c, ad, npub, k)
      [] alg = "80pq" -> ascon80pq_aead_decrypt(c, ad, npub, k)

-----------------------------------------------------------------------------
(* A packet in pieces: an object keeps its key and the nonce of the next   *)
(* packet.                                                                 *)

\* Mutant: the carry goes no further than one byte.
IncrementNoCarry(npub) == [npub EXCEPT ![NONCE_SIZE] = (@ + 1) % BASE]

\* Big-endian addition of one.
ascon_aead_increment_nonce(npub) ==
    [i \in 1 .. NONCE_SIZE |->
        IF \A j \in i + 1 .. NONCE_SIZE : npub[j] = BASE - 1
        THEN (npub[i] + 1) % BASE ELSE npub[i]]

\* The high half is zero, the low half counts.
ascon_aead_set_counter(n) ==
    [i \in 1 .. NONCE_SIZE |->
        IF i <= WORD THEN 0 ELSE (n \div BASE ^ (NONCE_SIZE - i)) % BASE]

\* A null key or nonce stands for zeroes.
KeyOrZero(v, k) == IF k = <<>> THEN Zeroes(v.key) ELSE k
NonceOrZero(npub) == IF npub = <<>> THEN ascon_aead_set_counter(0) ELSE npub

Reinit(v, x, npub, k) ==
    [x EXCEPT !.key = KeyOrZero(v, k), !.nonce = NonceOrZero(npub), !.posn = 0]
Started(v, x, ad) ==
    [x EXCEPT !.state = AfterAd(v,
                  KeyedState(v, @, "aead", NonceBytes(x.nonce), x.key), ad),
              !.posn = 0, !.nonce = ascon_aead_increment_nonce(@)]
Pieced(x, r) == [obj |-> [x EXCEPT !.state = r.state, !.posn = r.posn], out |-> r.out]
FinalState(v, x) == Finalized(v, ascon_pad(x.state, x.posn), x.key)
EncryptFinalized(x, s) == [obj |-> [x EXCEPT !.state = s], tag |-> TagOf(s)]
EncryptFinalize(v, x) == EncryptFinalized(x, FinalState(v, x))
DecryptFinalized(x, s, tag) ==
    [obj |-> [x EXCEPT !.state = s],
     result |-> ascon_aead_check_tag(<<>>, TagOf(s), tag).result]
DecryptFinalize(v, x, tag) == DecryptFinalized(x, FinalState(v, x), tag)

Unset(v) == [state |-> ascon_init, key |-> Zeroes(v.key), nonce |-> <<>>, posn |-> 0]

ascon128_aead_reinit(x, npub, k) == Reinit(Ascon128, x, npub, k)
ascon128_aead_init(npub, k) == ascon128_aead_reinit(Unset(Ascon128), npub, k)
ascon128_aead_start(x, ad) == Started(Ascon128, x, ad)
ascon128_aead_encrypt_block(x, in) ==
    Pieced(x, EncryptBlocks(Ascon128, x.state, in, x.posn))
ascon128_aead_decrypt_block(x, in) ==
    Pieced(x, DecryptBlocks(Ascon128, x.state, in, x.posn))
ascon128_aead_encrypt_finalize(x) == EncryptFinalize(Ascon128, x)
ascon128_aead_decrypt_finalize(x, tag) == DecryptFinalize(Ascon128, x, tag)

ascon128a_aead_reinit(x, npub, k) == Reinit(Ascon128a, x, npub, k)
ascon128a_aead_init(npub, k) == ascon128a_aead_reinit(Unset(Ascon128a), npub, k)
ascon128a_aead_start(x, ad) == Started(Ascon128a, x, ad)
ascon128a_aead_encrypt_block(x, in) ==
    Pieced(x, EncryptBlocks(Ascon128a, x.state, in, x.posn))
ascon128a_aead_decrypt_block(x, in) ==
    Pieced(x, DecryptBlocks(Ascon128a, x.state, in, x.posn))
ascon128a_aead_encrypt_finalize(x) == EncryptFinalize(Ascon128a, x)
ascon128a_aead_decrypt_finalize(x, tag) == DecryptFinalize(Ascon128a, x, tag)

ascon80pq_aead_reinit(x, npub, k) == Reinit(Ascon80pq, x, npub, k)
ascon80pq_aead_init(npub, k) == ascon80pq_aead_reinit(Unset(Ascon80pq), npub, k)
ascon80pq_aead_start(x, ad) == Started(Ascon80pq, x, ad)
ascon80pq_aead_encrypt_block(x, in) ==
    Pieced(x, EncryptBlocks(Ascon80pq, x.state, in, x.posn))
ascon80pq_aead_decrypt_block(x, in) ==
    Pieced(x, DecryptBlocks(Ascon80pq, x.state, in, x.posn))
ascon80pq_aead_encrypt_finalize(x) == EncryptFinalize(Ascon80pq, x)
ascon80pq_aead_decrypt_finalize(x, tag) == DecryptFinalize(Ascon80pq, x, tag)

aead_init(alg, npub, k) ==
    CASE alg = "128" -> ascon128_aead_init(npub, k)
      [] alg = "128a" -> ascon128a_aead_init(npub, k)
      [] alg = "80pq" -> ascon80pq_aead_init(npub, k)
aead_start(alg, x, ad) ==
    CASE alg = "128" -> ascon128_aead_start(x, ad)
      [] alg = "128a" -> ascon128a_aead_start(x, ad)
      [] alg = "80pq" -> ascon80pq_aead_start(x, ad)
aead_encrypt_block(alg, x, in) ==
    CASE alg = "128" -> ascon128_aead_encrypt_block(x, in)
      [] alg = "128a" -> ascon128a_aead_encrypt_block(x, in)
      [] alg = "80pq" -> ascon80pq_aead_encrypt_block(x, in)
aead_decrypt_block(alg, x, in) ==
    CASE alg = "128" -> ascon128_aead_decrypt_block(x, in)
      [] alg = "128a" -> ascon128a_aead_decrypt_block(x, in)
      [] alg = "80pq" -> ascon80pq_aead_decrypt_block(x, in)
aead_encrypt_finalize(alg, x) ==
    CASE alg = "128" -> ascon128_aead_encrypt_finalize(x)
      [] alg = "128a" -> ascon128a_aead_encrypt_finalize(x)
      [] alg = "80pq" -> ascon80pq_aead_encrypt_finalize(x)
aead_decrypt_finalize(alg, x, tag) ==
    CASE alg = "128" -> ascon128_aead_decrypt_finalize(x, tag)
      [] alg = "128a" -> ascon128a_aead_decrypt_finalize(x, tag)
      [] alg = "80pq" -> ascon80pq_aead_decrypt_finalize(x, tag)

=============================================================================
