------------------------------ MODULE AsconSiv ------------------------------
(***************************************************************************)
(* The SIV modes of the three algorithms (src/siv/ascon-siv-*.c): the tag  *)
(* authenticates associated data, nonce and plaintext, and is the nonce    *)
(* that the packet is encrypted with.                                      *)
(***************************************************************************)
EXTENDS AsconAead

\* ascon128_siv_init and its copies, for one of the two IVs.
SivState(v, phase, npub, k) == KeyedState(v, ascon_init, phase, npub, k)

\* ascon_siv_encrypt_8 and _16: every block is masked with a permuted state.
FedBack(r, state, block) ==
    [state |-> state,
     out |-> r.out \o Leaving(state,
         ascon_extract_and_add_bytes(state, Entering(state, block), 0))]
OutputFeedback(v, s, in) ==
    LET To(k) == IF k * v.rate < Len(in) THEN k * v.rate ELSE Len(in)
    IN  FoldLeft(LAMBDA r, k : FedBack(r, ascon_permute(r.state, v.round),
                                       SubSeq(in, (k - 1) * v.rate + 1, To(k))),
                 [state |-> s, out |-> <<>>],
                 [k \in 1 .. (Len(in) + v.rate - 1) \div v.rate |-> k]).out

\* The absorbed plaintext is padded; the last block is not permuted.
SivTag(v, m, ad, npub, k) ==
    TagOf(Finalized(v, AbsorbBlocks(v,
        AfterAd(v, SivState(v, "siv1", NonceBytes(npub), k), ad), m, FALSE), k))

SivPacket(v, m, tag, k) == OutputFeedback(v, SivState(v, "siv2", tag, k), m) \o tag
SivEncrypt(v, m, ad, npub, k) == SivPacket(v, m, SivTag(v, m, ad, npub, k), k)

\* The plaintext is in the caller's buffer before the tag is compared.
SivChecked(v, m, ad, npub, k, tag) ==
    ascon_aead_check_tag(m, SivTag(v, m, ad, npub, k), tag)
SivDecrypt(v, c, ad, npub, k) ==
    LET clen == Len(c) - TAG_SIZE
        tag == SubSeq(c, clen + 1, Len(c))
    IN  IF clen < 0 THEN Refused
        ELSE SivChecked(v, OutputFeedback(v, SivState(v, "siv2", tag, k), SubSeq(c, 1, clen)),
                        ad, npub, k, tag)

ascon128_siv_encrypt(m, ad, npub, k) == SivEncrypt(Ascon128, m, ad, npub, k)
ascon128_siv_decrypt(c, ad, npub, k) == SivDecrypt(Ascon128, c, ad, npub, k)
ascon128a_siv_encrypt(m, ad, npub, k) == SivEncrypt(Ascon128a, m, ad, npub, k)
ascon128a_siv_decrypt(c, ad, npub, k) == SivDecrypt(Ascon128a, c, ad, npub, k)
ascon80pq_siv_encrypt(m, ad, npub, k) == SivEncrypt(Ascon80pq, m, ad, npub, k)
ascon80pq_siv_decrypt(c, ad, npub, k) == SivDecrypt(Ascon80pq, c, ad, npub, k)

siv_encrypt(alg, m, ad, npub, k) ==
    CASE alg = "128" -> ascon128_siv_encrypt(m, ad, npub, k)
      [] alg = "128a" -> ascon128a_siv_encrypt(m, ad, npub, k)
      [] alg = "80pq" -> ascon80pq_siv_encrypt(m, ad, npub, k)
siv_decrypt(alg, c, ad, npub, k) ==
    CASE alg = "128" -> ascon128_siv_decrypt(c, ad, npub, k)
      [] alg = "128a" -> ascon128a_siv_decrypt(c, ad, npub, k)
      [] alg = "80pq" -> ascon80pq_siv_decrypt(c, ad, npub, k)

=============================================================================
