---------------------------- MODULE KeyedModes ----------------------------
(***************************************************************************)
(* The modes of the library that take a key: KMAC, KDF and the PRF with    *)
(* its MAC, which are sponges, and HMAC, HKDF and PBKDF2, which use a hash.*)
(***************************************************************************)
EXTENDS AsconState, SequencesExt

-----------------------------------------------------------------------------
(***************************************************************************)
(* KMAC, KDF and the PRF with its MAC (mac/ascon-kmac.c, ascon-kmaca.c,    *)
(* kdf/ascon-kdf.c, ascon-kdfa.c, mac/ascon-prf.c): sponges that take a    *)
(* key before their input.                                                 *)
(***************************************************************************)

\* The output length that is too large to encode: 2^29 in the code.
CONSTANT MAX_OUTLEN

X == INSTANCE AsconXof
XA == INSTANCE AsconXofa

\* What a call of squeeze returned, for use outside of the object.
Out(r) == Leaving(r.obj.state, r.out)

ASCON_KMAC_SIZE == X!ASCON_HASH_SIZE

\* The characters of a function name.
FunctionName(text, n) == [i \in 1 .. n |-> {<<"name", text, i>>}]

\* The precomputed tables hold what the permutation makes of name and length.
ascon_kmac_init_precomputed ==
    X!ascon_xof_init_custom(FunctionName("KMAC", 4), <<>>, ASCON_KMAC_SIZE)
ascon_kmaca_init_precomputed ==
    XA!ascon_xofa_init_custom(FunctionName("KMAC", 4), <<>>, ASCON_KMAC_SIZE)

ascon_kmac_init(key, custom, outlen) ==
    X!ascon_xof_absorb(
        IF outlen = ASCON_KMAC_SIZE
        THEN X!ascon_xof_absorb_custom(ascon_kmac_init_precomputed, custom)
        ELSE X!ascon_xof_init_custom(FunctionName("KMAC", 4), custom, outlen), key)
ascon_kmaca_init(key, custom, outlen) ==
    XA!ascon_xofa_absorb(
        IF outlen = ASCON_KMAC_SIZE
        THEN XA!ascon_xofa_absorb_custom(ascon_kmaca_init_precomputed, custom)
        ELSE XA!ascon_xofa_init_custom(FunctionName("KMAC", 4), custom, outlen), key)

ascon_kmac_free == X!ascon_xof_free
ascon_kmaca_free == XA!ascon_xofa_free
ascon_kmac_reinit(x, key, custom, outlen) == ascon_kmac_init(key, custom, outlen)
ascon_kmaca_reinit(x, key, custom, outlen) == ascon_kmaca_init(key, custom, outlen)
ascon_kmac_absorb(x, in) == X!ascon_xof_absorb(x, in)
ascon_kmaca_absorb(x, in) == XA!ascon_xofa_absorb(x, in)
ascon_kmac_squeeze(x, outlen) == X!ascon_xof_squeeze(x, outlen)
ascon_kmaca_squeeze(x, outlen) == XA!ascon_xofa_squeeze(x, outlen)
ascon_kmac(key, in, custom, outlen) ==
    Out(ascon_kmac_squeeze(
            ascon_kmac_absorb(ascon_kmac_init(key, custom, outlen), in), outlen))
ascon_kmaca(key, in, custom, outlen) ==
    Out(ascon_kmaca_squeeze(
            ascon_kmaca_absorb(ascon_kmaca_init(key, custom, outlen), in), outlen))

ascon_kdf_init(key, custom, outlen) ==
    X!ascon_xof_absorb(
        X!ascon_xof_init_custom(FunctionName("KDF", 3), custom, outlen), key)
ascon_kdfa_init(key, custom, outlen) ==
    XA!ascon_xofa_absorb(
        XA!ascon_xofa_init_custom(FunctionName("KDF", 3), custom, outlen), key)
ascon_kdf_free == X!ascon_xof_free
ascon_kdfa_free == XA!ascon_xofa_free
ascon_kdf_reinit(x, key, custom, outlen) == ascon_kdf_init(key, custom, outlen)
ascon_kdfa_reinit(x, key, custom, outlen) == ascon_kdfa_init(key, custom, outlen)
ascon_kdf_squeeze(x, outlen) == X!ascon_xof_squeeze(x, outlen)
ascon_kdfa_squeeze(x, outlen) == XA!ascon_xofa_squeeze(x, outlen)
ascon_kdf(outlen, key, custom) ==
    Out(ascon_kdf_squeeze(ascon_kdf_init(key, custom, outlen), outlen))
ascon_kdfa(outlen, key, custom) ==
    Out(ascon_kdfa_squeeze(ascon_kdfa_init(key, custom, outlen), outlen))

-----------------------------------------------------------------------------
(* The PRF absorbs four words at a time and squeezes two. *)

ASCON_PRF_RATE_IN == 4 * WORD
ASCON_PRF_RATE_OUT == 2 * WORD
ASCON_PRF_KEY_SIZE == 2 * WORD
ASCON_PRF_SHORT_MAX == 2 * WORD

\* The first word: the function, and the length in bytes that it encodes.
PrfIv(name, len) == [i \in 1 .. WORD |-> {<<"prfiv", <<name, len>>, i>>}]

ascon_prf_fixed_init(key, outlen) ==
    LET iv == PrfIv("prf", IF outlen >= MAX_OUTLEN THEN 0 ELSE outlen)
        s  == ascon_overwrite_bytes(ascon_overwrite_bytes(ascon_init, iv, 0), key, WORD)
    IN  [state |-> ascon_permute(s, 0), count |-> 0, mode |-> 0]
ascon_prf_init(key) == ascon_prf_fixed_init(key, 0)
ascon_prf_free == [state |-> ascon_init, count |-> 0, mode |-> 0]
ascon_prf_reinit(x, key) == ascon_prf_fixed_init(key, 0)
ascon_prf_fixed_reinit(x, key, outlen) == ascon_prf_fixed_init(key, outlen)

\* Mutant: of several full blocks in one piece only the first is permuted.
PrfAbsorbPermutesOnce(x, in) ==
    LET blocks == Len(in) \div ASCON_PRF_RATE_IN
        rest   == SubSeq(in, blocks * ASCON_PRF_RATE_IN + 1, Len(in))
        Block(state, k) ==
            LET added == ascon_add_bytes(state,
                    SubSeq(in, (k - 1) * ASCON_PRF_RATE_IN + 1, k * ASCON_PRF_RATE_IN), 0)
            IN  IF k = 1 THEN ascon_permute(added, 0) ELSE added
        full == FoldLeft(Block, x.state, [k \in 1 .. blocks |-> k])
    IN  [x EXCEPT !.state = ascon_add_bytes(full, rest, 0), !.count = Len(rest)]

PrfAbsorbAligned(x, in) ==
    LET blocks == Len(in) \div ASCON_PRF_RATE_IN
        rest   == SubSeq(in, blocks * ASCON_PRF_RATE_IN + 1, Len(in))
        Block(state, k) ==
            ascon_permute(ascon_add_bytes(state,
                SubSeq(in, (k - 1) * ASCON_PRF_RATE_IN + 1, k * ASCON_PRF_RATE_IN), 0), 0)
        full == FoldLeft(Block, x.state, [k \in 1 .. blocks |-> k])
    IN  [x EXCEPT !.state = ascon_add_bytes(full, rest, 0), !.count = Len(rest)]

\* From squeezing it goes back to absorbing with a permutation.
ascon_prf_absorb(obj, in) ==
    LET x == IF obj.mode = 0 THEN obj
             ELSE [state |-> ascon_permute(obj.state, 0), count |-> 0, mode |-> 0]
        room == ASCON_PRF_RATE_IN - x.count
    IN  IF x.count = 0 THEN PrfAbsorbAligned(x, in)
        ELSE IF room > Len(in)
        THEN [x EXCEPT !.state = ascon_add_bytes(@, in, x.count), !.count = @ + Len(in)]
        ELSE PrfAbsorbAligned(
                [x EXCEPT !.state = ascon_permute(
                              ascon_add_bytes(@, SubSeq(in, 1, room), x.count), 0),
                          !.count = 0],
                SubSeq(in, room + 1, Len(in)))

PrfSqueezeAligned(x, outlen) ==
    LET blocks == outlen \div ASCON_PRF_RATE_OUT
        rest   == outlen % ASCON_PRF_RATE_OUT
        Block(r, k) ==
            LET state == ascon_permute(r.state, 0)
            IN  [state |-> state,
                 out   |-> r.out \o ascon_extract_bytes(state, 0, ASCON_PRF_RATE_OUT)]
        full   == FoldLeft(Block, [state |-> x.state, out |-> <<>>],
                           [k \in 1 .. blocks |-> k])
        last   == ascon_permute(full.state, 0)
    IN  IF rest = 0 THEN [obj |-> [x EXCEPT !.state = full.state], out |-> full.out]
        ELSE [obj |-> [x EXCEPT !.state = last, !.count = rest],
              out |-> full.out \o ascon_extract_bytes(last, 0, rest)]

\* Mutant: the position of the input block is taken for one of the output.
PrfEnterKeepsCount(x) ==
    IF x.mode = 1 THEN x
    ELSE [state |-> ascon_separator(ascon_pad(x.state, x.count)),
          count |-> IF x.count < ASCON_PRF_RATE_OUT THEN x.count ELSE 0, mode |-> 1]

\* The input is padded and separated, once.
PrfEnterSqueeze(x) ==
    IF x.mode = 1 THEN x
    ELSE [state |-> ascon_separator(ascon_pad(x.state, x.count)), count |-> 0, mode |-> 1]

ascon_prf_squeeze(obj, outlen) ==
    LET x    == PrfEnterSqueeze(obj)
        left == ASCON_PRF_RATE_OUT - x.count
        then == PrfSqueezeAligned([x EXCEPT !.count = 0], outlen - left)
    IN  IF x.count = 0 THEN PrfSqueezeAligned(x, outlen)
        ELSE IF left > outlen
        THEN [obj |-> [x EXCEPT !.count = @ + outlen],
              out |-> ascon_extract_bytes(x.state, x.count, outlen)]
        ELSE [obj |-> then.obj,
              out |-> ascon_extract_bytes(x.state, x.count, left) \o then.out]

ascon_prf_fixed(outlen, in, key) ==
    Out(ascon_prf_squeeze(ascon_prf_absorb(ascon_prf_fixed_init(key, outlen), in), outlen))
ascon_prf(outlen, in, key) ==
    Out(ascon_prf_squeeze(ascon_prf_absorb(ascon_prf_fixed_init(key, 0), in), outlen))
ascon_mac(in, key) == ascon_prf_fixed(ASCON_PRF_RATE_OUT, in, key)
\* The comparison of tags is that of the AEAD modes.
ascon_mac_verify(tag, in, key) == IF tag = ascon_mac(in, key) THEN 0 ELSE -1

\* Mutant: the length of the input is left out.
PrfShortUnsized(outlen, in, key) ==
    LET s == ascon_overwrite_bytes(ascon_overwrite_bytes(ascon_overwrite_bytes(
                 ascon_init, PrfIv("short", 0), 0), key, WORD), in, 3 * WORD)
        t == ascon_add_bytes(ascon_permute(s, 0), key, 3 * WORD)
    IN  IF Len(in) > ASCON_PRF_SHORT_MAX \/ outlen > ASCON_PRF_SHORT_MAX
        THEN [result |-> -1, out |-> <<>>]
        ELSE [result |-> 0, out |-> Leaving(t, ascon_extract_bytes(t, 3 * WORD, outlen))]

\* One permutation: key and input fill the state, the length of the input is
\* in the first word.
ascon_prf_short(outlen, in, key) ==
    LET s == ascon_overwrite_bytes(ascon_overwrite_bytes(ascon_overwrite_bytes(
                 ascon_init, PrfIv("short", Len(in)), 0), key, WORD), in, 3 * WORD)
        t == ascon_add_bytes(ascon_permute(s, 0), key, 3 * WORD)
    IN  IF Len(in) > ASCON_PRF_SHORT_MAX \/ outlen > ASCON_PRF_SHORT_MAX
        THEN [result |-> -1, out |-> <<>>]
        ELSE [result |-> 0, out |-> Leaving(t, ascon_extract_bytes(t, 3 * WORD, outlen))]

-----------------------------------------------------------------------------
(***************************************************************************)
(* HMAC, HKDF and PBKDF2 (mac/ascon-hmac-common.h, kdf/ascon-hkdf-common.h,*)
(* password/ascon-pbkdf2*.c).  They use a hash or an XOF as a whole: an    *)
(* object of it is what it was initialised with and the bytes it absorbed, *)
(* and a digest is a function of the two and of nothing else, which is     *)
(* what XofObjects says of the hash functions themselves.                  *)
(*                                                                         *)
(* HMAC and HKDF exist for ASCON-HASH and for ASCON-HASHA; the headers     *)
(* that hold the code are included once for each.                          *)
(***************************************************************************)

CONSTANTS
    HASH_SIZE,      \* bytes of a digest: 32
    COUNTERS        \* values of a one-byte counter: 256

ASSUME HashesAssumption == HASH_SIZE \in Nat \ {0} /\ COUNTERS \in Nat \ {0, 1}

HMAC_BLOCK_SIZE == 2 * HASH_SIZE

\* The bytes of a small number; zero is the empty set.
ByteOf(n) == IF n = 0 THEN {} ELSE {<<"byte", n, 0>>}
be_store_word32(n) == <<{}, {}, {}, ByteOf(n)>>

\* An object of a hash that starts with `start`.
HashNew(start) == [start |-> start, in |-> <<>>]
Plain(alg) == <<alg, <<>>>>
HashUpdate(h, data) == [h EXCEPT !.in = @ \o data]
Digest(h) == [i \in 1 .. HASH_SIZE |-> {<<"h", <<h.start, h.in>>, i>>}]

XorBytes(a, b) == [i \in DOMAIN a |-> Xor(a[i], b[i])]

-----------------------------------------------------------------------------
(* HMAC *)

IPAD == {<<"ipad", 0, 0>>}
OPAD == {<<"opad", 0, 0>>}

xor_pad(in, pad) == [i \in DOMAIN in |-> Xor(in[i], pad)]

\* Pieces of at most HASH_SIZE bytes, one call of the hash for each.
UpdateInPieces(h, data) ==
    LET Piece(x, k) ==
            HashUpdate(x, SubSeq(data, (k - 1) * HASH_SIZE + 1,
                                 IF k * HASH_SIZE < Len(data) THEN k * HASH_SIZE
                                 ELSE Len(data)))
    IN  FoldLeft(Piece, h, [k \in 1 .. (Len(data) + HASH_SIZE - 1) \div HASH_SIZE |-> k])

\* Mutant: a key of exactly one block is hashed as well.
AbsorbKeyHashesBlock(h, key, pad) ==
    LET short == Len(key) < HMAC_BLOCK_SIZE
        block == IF short THEN key ELSE Digest(HashUpdate(h, key))
        keyed == UpdateInPieces(HashNew(h.start), xor_pad(block, pad))
    IN  UpdateInPieces(keyed, [i \in 1 .. HMAC_BLOCK_SIZE - Len(block) |-> pad])

\* A key of at most a block is taken as it is, a longer one is hashed; then
\* the rest of the block is filled.
absorb_key(h, key, pad) ==
    LET short == Len(key) <= HMAC_BLOCK_SIZE
        block == IF short THEN key ELSE Digest(HashUpdate(h, key))
        keyed == UpdateInPieces(HashNew(h.start), xor_pad(block, pad))
    IN  UpdateInPieces(keyed, [i \in 1 .. HMAC_BLOCK_SIZE - Len(block) |-> pad])

hmac_init(alg, key) == absorb_key(HashNew(Plain(alg)), key, IPAD)
hmac_reinit(h, key) == absorb_key(HashNew(h.start), key, IPAD)
hmac_update(h, in) == HashUpdate(h, in)
\* The object is used for the outer hash as well.
hmac_finalize(h, key) ==
    LET outer == HashUpdate(absorb_key(HashNew(h.start), key, OPAD), Digest(h))
    IN  [obj |-> outer, out |-> Digest(outer)]
hmac(alg, key, in) == hmac_finalize(hmac_update(hmac_init(alg, key), in), key).out

-----------------------------------------------------------------------------
(* HKDF *)

hkdf_extract(alg, key, salt) ==
    [alg |-> alg, prk |-> hmac(alg, salt, key), counter |-> 1,
     posn |-> HASH_SIZE, out |-> Zeroes(HASH_SIZE)]

hkdf_free == [alg |-> "none", prk |-> Zeroes(HASH_SIZE), counter |-> 0, posn |-> 0,
              out |-> Zeroes(HASH_SIZE)]

\* One block: the previous one, unless it is the first, the info, the counter.
HkdfBlock(x, info) ==
    LET h == hmac_init(x.alg, x.prk)
        chained == IF x.counter = 1 THEN h ELSE hmac_update(h, x.out)
    IN  hmac_finalize(hmac_update(hmac_update(chained, info),
                                  <<ByteOf(x.counter)>>), x.prk).out

\* Mutant: what is left of the last block is dropped.
ExpandDropsRest(x, info, outlen) ==
    LET need == (outlen + HASH_SIZE - 1) \div HASH_SIZE
        Step(r, k) ==
            LET n == IF k < need THEN HASH_SIZE ELSE outlen - (need - 1) * HASH_SIZE
                t == HkdfBlock(r.obj, info)
            IN  IF r.obj.counter = 0
                THEN [r EXCEPT !.out = @ \o Zeroes(n), !.result = -1]
                ELSE [obj |-> [r.obj EXCEPT !.out = t, !.posn = n,
                                            !.counter = (@ + 1) % COUNTERS],
                      out |-> r.out \o SubSeq(t, 1, n), result |-> 0]
    IN  FoldLeft(Step, [obj |-> x, out |-> <<>>, result |-> 0], [k \in 1 .. need |-> k])

\* What is left of the last block, then new blocks; when the counter has come
\* round to zero only zeroes.
hkdf_expand(x, info, outlen) ==
    LET left == IF HASH_SIZE - x.posn > outlen THEN outlen ELSE HASH_SIZE - x.posn
        head == SubSeq(x.out, x.posn + 1, x.posn + left)
        need == (outlen - left + HASH_SIZE - 1) \div HASH_SIZE
        Step(r, k) ==
            LET n == IF k < need THEN HASH_SIZE
                     ELSE outlen - left - (need - 1) * HASH_SIZE
                t == HkdfBlock(r.obj, info)
            IN  IF r.obj.counter = 0
                THEN [r EXCEPT !.out = @ \o Zeroes(n), !.result = -1]
                ELSE [obj |-> [r.obj EXCEPT !.out = t, !.posn = n,
                                            !.counter = (@ + 1) % COUNTERS],
                      out |-> r.out \o SubSeq(t, 1, n), result |-> 0]
    IN  FoldLeft(Step, [obj |-> [x EXCEPT !.posn = @ + left], out |-> head, result |-> 0],
                 [k \in 1 .. need |-> k])

hkdf(alg, outlen, key, salt, info) ==
    IF outlen > HASH_SIZE * (COUNTERS - 1) THEN [result |-> -1, out |-> <<>>]
    ELSE [result |-> 0,
          out |-> hkdf_expand(hkdf_extract(alg, key, salt), info, outlen).out]

-----------------------------------------------------------------------------
(* PBKDF2: F is the exclusive or of a chain of `count` outputs, for which   *)
(* the code loops from 2; a count of 0 is taken for 1.                      *)

Chain(First, Again(_), count) ==
    LET Step(r, k) == LET u == Again(r.u) IN [t |-> XorBytes(r.t, u), u |-> u]
    IN  IF count <= 1 THEN First
        ELSE FoldLeft(Step, [t |-> First, u |-> First], [k \in 1 .. count - 1 |-> k]).t

\* Mutant: the loop stops one iteration early.
Pbkdf2LoopShort(state, salt, count, blocknum) ==
    LET Again(u) == Digest(HashUpdate(state, u))
    IN  Chain(Digest(HashUpdate(HashUpdate(state, salt), be_store_word32(blocknum))),
              Again, IF count > 2 THEN count - 1 ELSE count)

\* ascon_xof_copy of the object that absorbed the password as customization.
ascon_pbkdf2_f(state, salt, count, blocknum) ==
    LET Again(u) == Digest(HashUpdate(state, u))
    IN  Chain(Digest(HashUpdate(HashUpdate(state, salt), be_store_word32(blocknum))),
              Again, count)

ascon_pbkdf2_hmac_f(password, salt, count, blocknum) ==
    LET h == hmac_init("hash", password)
        First == hmac_finalize(hmac_update(hmac_update(h, salt),
                                           be_store_word32(blocknum)), password).out
        Again(u) == hmac_finalize(hmac_update(hmac_reinit(h, password), u), password).out
    IN  Chain(First, Again, count)

\* Blocks from number 1, the last one cut.
Blocks(F(_), outlen) ==
    LET Step(out, k) == out \o F(k)
        need == (outlen + HASH_SIZE - 1) \div HASH_SIZE
    IN  SubSeq(FoldLeft(Step, <<>>, [k \in 1 .. need |-> k]), 1, outlen)

ascon_pbkdf2(outlen, password, salt, count) ==
    LET state == HashNew(<<"PBKDF2", password>>)
        F(k) == ascon_pbkdf2_f(state, salt, count, k)
    IN  Blocks(F, outlen)

ascon_pbkdf2_hmac(outlen, password, salt, count) ==
    LET F(k) == ascon_pbkdf2_hmac_f(password, salt, count, k)
    IN  Blocks(F, outlen)

=============================================================================
