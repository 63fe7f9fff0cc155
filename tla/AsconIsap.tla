----------------------------- MODULE AsconIsap -----------------------------
(***************************************************************************)
(* ISAP (src/isap/ascon-isap-common.h, included once per algorithm): the   *)
(* key is expanded once into two states, from which a key for every packet *)
(* is derived one bit at a time.                                           *)
(***************************************************************************)
EXTENDS AsconAead

CONSTANT BITS   \* bits of a byte: 8 in the code

ISAP_RATE == WORD
SAVED_KEY_SIZE == 2 * STATE_SIZE

\* The rounds of an algorithm; sH and sK are 12 for all of them.
Isap128 == [alg |-> "isap128", key |-> 2 * WORD, sE |-> 12, sB |-> 12]
Isap128a == [alg |-> "isap128a", key |-> 2 * WORD, sE |-> 6, sB |-> 1]
Isap80pq == [alg |-> "isap80pq", key |-> 2 * WORD + WORD \div 2, sE |-> 12, sB |-> 12]

\* What follows n bytes of key or nonce in a state.
IsapIv(v, phase, n) ==
    [i \in 1 .. STATE_SIZE - n |-> {<<"iv", <<v.alg, phase>>, i>>}]

\* One bit of a byte, by itself in the top bit of the first byte.
BitOf(byte, bit) == <<{<<"bit", <<a, bit>>, 0>> : a \in byte}>>

\* A state whose bytes all come from elsewhere has the history of those bytes.
Recalled(s) ==
    LET from == UNION {{a[2] : a \in {x \in s.b[i] : x[1] = "px"}} : i \in DOMAIN s.b}
        home == CHOOSE c \in from : \A d \in from : Len(d) <= Len(c)
        b    == Entering([chain |-> home], [j \in 1 .. STATE_SIZE |-> s.b[j - 1]])
    IN  IF from = {} THEN Forgetful(s)
        ELSE [chain |-> home, b |-> [i \in 0 .. STATE_SIZE - 1 |-> b[i + 1]]]

\* Every bit of data goes in by itself; after the last one come more rounds.
Rekeyed(v, pk, data) ==
    FoldLeft(LAMBDA s, j : ascon_permute(Absorbed(s, BitOf(data[j \div BITS + 1], j % BITS), 0),
                 IF j + 1 < Len(data) * BITS THEN 12 - v.sB ELSE 0),
             pk, [j \in 1 .. Len(data) * BITS |-> j - 1])

\* Encryption is decryption.
FedBack(r, state, block) ==
    [state |-> state,
     out |-> r.out \o Leaving(state,
         ascon_extract_and_add_bytes(state, Entering(state, block), 0))]
IsapCrypt(v, pk, npub, in) ==
    LET To(k) == IF k * ISAP_RATE < Len(in) THEN k * ISAP_RATE ELSE Len(in)
    IN  FoldLeft(LAMBDA r, k : FedBack(r, ascon_permute(r.state, 12 - v.sE),
                                       SubSeq(in, (k - 1) * ISAP_RATE + 1, To(k))),
                 [state |-> ascon_overwrite_bytes(Rekeyed(v, pk.ke, npub), npub,
                                                  STATE_SIZE - NONCE_SIZE),
                  out |-> <<>>],
                 [k \in 1 .. (Len(in) + ISAP_RATE - 1) \div ISAP_RATE |-> k]).out

\* Blocks of associated data or ciphertext, padded.
IsapAbsorb(s, data) == AbsorbBlocks([rate |-> ISAP_RATE, round |-> 0], s, data, TRUE)

\* The digest of the packet selects the key of the last permutation.
IsapHashed(v, npub, ad, c) ==
    IsapAbsorb(ascon_separator(IsapAbsorb(
        ascon_permute(Forgetful(ascon_overwrite_bytes(ascon_overwrite_bytes(
            ascon_init, npub, 0), IsapIv(v, "A", NONCE_SIZE), NONCE_SIZE)), 0), ad)), c)
FirstBytes(s, n) == Leaving(s, ascon_extract_bytes(s, 0, n))
RestKept(v, rekeyed, kept) ==
    ascon_permute(ascon_overwrite_bytes(rekeyed, Entering(rekeyed, kept), v.key), 0)
TagOfHash(v, pk, hashed) ==
    FirstBytes(RestKept(v, Rekeyed(v, pk.ka, FirstBytes(hashed, v.key)),
                   Leaving(hashed, ascon_extract_bytes(hashed, v.key, STATE_SIZE - v.key))),
               TAG_SIZE)
IsapMac(v, pk, npub, ad, c) == TagOfHash(v, pk, IsapHashed(v, npub, ad, c))

Expanded(v, phase, k) ==
    ascon_permute(ascon_overwrite_bytes(ascon_overwrite_bytes(ascon_init, k, 0),
                      IsapIv(v, phase, v.key), v.key), 0)
isap_aead_init(v, k) == [ke |-> Expanded(v, "KE", k), ka |-> Expanded(v, "KA", k)]

Whole(bytes) == Recalled(ascon_overwrite_bytes(ascon_init, bytes, 0))
isap_aead_load_key(k) ==
    [ke |-> Whole(SubSeq(k, 1, STATE_SIZE)),
     ka |-> Whole(SubSeq(k, STATE_SIZE + 1, SAVED_KEY_SIZE))]
isap_aead_save_key(pk) ==
    Leaving(pk.ke, ascon_extract_bytes(pk.ke, 0, STATE_SIZE)) \o
    Leaving(pk.ka, ascon_extract_bytes(pk.ka, 0, STATE_SIZE))
\* The memory is cleaned.
isap_aead_free == [ke |-> ascon_init, ka |-> ascon_init]

IsapPacket(v, pk, npub, ad, c) == c \o IsapMac(v, pk, npub, ad, c)
isap_aead_encrypt(v, m, ad, npub, pk) ==
    IsapPacket(v, pk, NonceBytes(npub), ad, IsapCrypt(v, pk, NonceBytes(npub), m))
isap_aead_decrypt(v, c, ad, npub, pk) ==
    LET mlen == Len(c) - TAG_SIZE
        in   == SubSeq(c, 1, mlen)
    IN  IF mlen < 0 THEN Refused
        ELSE ascon_aead_check_tag(IsapCrypt(v, pk, NonceBytes(npub), in),
                IsapMac(v, pk, NonceBytes(npub), ad, in), SubSeq(c, mlen + 1, Len(c)))

=============================================================================
