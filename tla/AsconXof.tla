------------------------------ MODULE AsconXof ------------------------------
(***************************************************************************)
(* The functions of ASCON-XOF and ASCON-HASH (hash/ascon-xof.c,            *)
(* hash/ascon-hash.c) on one object: its permutation state, the bytes used *)
(* of the current block, and whether it absorbs (0) or squeezes (1).       *)
(***************************************************************************)
EXTENDS AsconState

\* The output length that is too large to encode: 2^29 in the code.
CONSTANT MAX_OUTLEN

ASCON_XOF_RATE == WORD
ASCON_HASH_SIZE == 4 * WORD

\* be_store_word64 of the algorithm's constant and the output length in bits.
IvWord(outlen) == [i \in 1 .. WORD |-> {<<"iv", outlen, i>>}]

Encodable(outlen) == IF outlen >= MAX_OUTLEN THEN 0 ELSE outlen

Fresh(state) == [state |-> state, count |-> 0, mode |-> 0]

\* The precomputed tables hold what the permutation makes of the IV.
ascon_xof_init ==
    Fresh(ascon_permute(ascon_overwrite_bytes(ascon_init, IvWord(0), 0), 0))

ascon_hash_init ==
    Fresh(ascon_permute(ascon_overwrite_bytes(ascon_init, IvWord(ASCON_HASH_SIZE), 0), 0))

ascon_xof_init_fixed(len) ==
    LET outlen == Encodable(len) IN
    CASE outlen = 0 -> ascon_xof_init
      [] outlen = ASCON_HASH_SIZE -> ascon_hash_init
      [] OTHER -> Fresh(ascon_permute(
                     ascon_overwrite_bytes(ascon_init, IvWord(outlen), 0), 0))

ascon_xof_free == Fresh(ascon_init)

\* The loop over n full blocks of the input: each is added and permuted.
BlocksAbsorbed(state, in, n) ==
    LET after[k \in 0 .. n] ==
            IF k = 0 THEN state
            ELSE ascon_permute(ascon_add_bytes(after[k - 1],
                     SubSeq(in, (k - 1) * ASCON_XOF_RATE + 1, k * ASCON_XOF_RATE), 0), 0)
    IN  after[n]

\* Full blocks; what is left starts a new block.
AbsorbAligned(x, in) ==
    LET blocks == Len(in) \div ASCON_XOF_RATE
        rest   == SubSeq(in, blocks * ASCON_XOF_RATE + 1, Len(in))
    IN  [x EXCEPT !.state = ascon_add_bytes(BlocksAbsorbed(x.state, in, blocks), rest, 0),
                  !.count = Len(rest)]

\* An object that was squeezing goes back to absorbing.
EnterAbsorb(x) ==
    IF x.mode = 0 THEN x
    ELSE [state |-> ascon_permute(x.state, 0), count |-> 0, mode |-> 0]

\* Mutant: a block that is completed is not permuted.
AbsorbForgetsPermute(obj, in) ==
    LET x    == EnterAbsorb(obj)
        room == ASCON_XOF_RATE - x.count
    IN  IF x.count = 0 THEN AbsorbAligned(x, in)
        ELSE IF room > Len(in)
        THEN [x EXCEPT !.state = ascon_add_bytes(@, in, x.count),
                       !.count = @ + Len(in)]
        ELSE AbsorbAligned(
                [x EXCEPT !.state = ascon_add_bytes(@, SubSeq(in, 1, room), x.count),
                          !.count = 0],
                SubSeq(in, room + 1, Len(in)))

ascon_xof_absorb(obj, in) ==
    LET x    == EnterAbsorb(obj)
        room == ASCON_XOF_RATE - x.count
    IN  IF x.count = 0 THEN AbsorbAligned(x, in)
        ELSE IF room > Len(in)
        THEN [x EXCEPT !.state = ascon_add_bytes(@, in, x.count),
                       !.count = @ + Len(in)]
        ELSE AbsorbAligned(
                [x EXCEPT !.state = ascon_permute(
                              ascon_add_bytes(@, SubSeq(in, 1, room), x.count), 0),
                          !.count = 0],
                SubSeq(in, room + 1, Len(in)))

\* The loop over n full blocks of output: one permutation before each.
BlocksSqueezed(s, n) ==
    LET after[k \in 0 .. n] ==
            IF k = 0 THEN [state |-> s, out |-> <<>>]
            ELSE LET r     == after[k - 1]
                     state == ascon_permute(r.state, 0)
                 IN  [state |-> state,
                      out   |-> r.out \o ascon_extract_bytes(state, 0, ASCON_XOF_RATE)]
    IN  after[n]

\* Full blocks and the left-over one.
SqueezeAligned(x, outlen) ==
    LET blocks == outlen \div ASCON_XOF_RATE
        rest   == outlen % ASCON_XOF_RATE
        full   == BlocksSqueezed(x.state, blocks)
        last   == ascon_permute(full.state, 0)
    IN  IF rest = 0 THEN [obj |-> [x EXCEPT !.state = full.state], out |-> full.out]
        ELSE [obj |-> [x EXCEPT !.state = last, !.count = rest],
              out |-> full.out \o ascon_extract_bytes(last, 0, rest)]

\* An object that was absorbing pads its input, at most once.
EnterSqueeze(x) ==
    IF x.mode = 1 THEN x
    ELSE [state |-> ascon_pad(x.state, x.count), count |-> 0, mode |-> 1]

ascon_xof_squeeze(obj, outlen) ==
    LET x    == EnterSqueeze(obj)
        left == ASCON_XOF_RATE - x.count
        then == SqueezeAligned([x EXCEPT !.count = 0], outlen - left)
    IN  IF x.count = 0 THEN SqueezeAligned(x, outlen)
        ELSE IF left > outlen
        THEN [obj |-> [x EXCEPT !.count = @ + outlen],
              out |-> ascon_extract_bytes(x.state, x.count, outlen)]
        ELSE [obj |-> then.obj,
              out |-> ascon_extract_bytes(x.state, x.count, left) \o then.out]

\* Mutant: a customization string is not separated from the input.
AbsorbCustomUnseparated(x, custom) ==
    LET a == ascon_xof_absorb(x, custom) IN
    IF custom = <<>> THEN x
    ELSE [a EXCEPT !.state = ascon_permute(ascon_pad(@, a.count), 0), !.count = 0]

ascon_xof_absorb_custom(x, custom) ==
    LET a == ascon_xof_absorb(x, custom) IN
    IF custom = <<>> THEN x
    ELSE [a EXCEPT !.state = ascon_separator(ascon_permute(ascon_pad(@, a.count), 0)),
                   !.count = 0]

\* A short function name is padded with zeroes, a long one is hashed.
NameBlock(name) ==
    [i \in 1 .. ASCON_HASH_SIZE |->
        IF Len(name) > ASCON_HASH_SIZE THEN {<<"hash", Len(name), i>>}
        ELSE IF i <= Len(name) THEN name[i] ELSE {}]

ascon_xof_init_custom(name, custom, outlen) ==
    LET named == ascon_overwrite_bytes(ascon_init, NameBlock(name), WORD)
        iv    == ascon_overwrite_bytes(named, IvWord(Encodable(outlen)), 0)
    IN  ascon_xof_absorb_custom(Fresh(ascon_permute(iv, 0)), custom)

ascon_xof_pad(x) ==
    IF x.mode = 1 THEN ascon_xof_absorb(x, <<>>)
    ELSE IF x.count # 0
    THEN [x EXCEPT !.state = ascon_permute(@, 0), !.count = 0]
    ELSE x

ascon_hash(in) ==
    ascon_xof_squeeze(ascon_xof_absorb(ascon_hash_init, in), ASCON_HASH_SIZE).out

ascon_xof_oneshot(in) ==
    ascon_xof_squeeze(ascon_xof_absorb(ascon_xof_init, in), ASCON_HASH_SIZE).out

=============================================================================
