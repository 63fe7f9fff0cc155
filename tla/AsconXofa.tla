----------------------------- MODULE AsconXofa -----------------------------
(***************************************************************************)
(* The functions of ASCON-XOFA and ASCON-HASHA (hash/ascon-xofa.c,         *)
(* hash/ascon-hasha.c).  They differ from ASCON-XOF in the rounds of the   *)
(* permutations inside a phase (8 instead of 12) and in when output is     *)
(* permuted: at once when the phase turns to squeezing, and after a block  *)
(* has been used up instead of before the next one is needed.              *)
(***************************************************************************)
EXTENDS AsconState

\* The output length that is too large to encode: 2^29 in the code.
CONSTANT MAX_OUTLEN

ASCON_XOF_RATE == WORD
ASCON_HASHA_SIZE == 4 * WORD

\* be_store_word64 of the algorithm's constant and the output length in bits.
IvWord(outlen) == [i \in 1 .. WORD |-> {<<"iv", outlen, i>>}]

Encodable(outlen) == IF outlen >= MAX_OUTLEN THEN 0 ELSE outlen

Fresh(state) == [state |-> state, count |-> 0, mode |-> 0]

\* The precomputed tables hold what the permutation makes of the IV.
ascon_xofa_init ==
    Fresh(ascon_permute(ascon_overwrite_bytes(ascon_init, IvWord(0), 0), 0))

ascon_hasha_init ==
    Fresh(ascon_permute(ascon_overwrite_bytes(ascon_init, IvWord(ASCON_HASHA_SIZE), 0), 0))

ascon_xofa_init_fixed(len) ==
    LET outlen == Encodable(len) IN
    CASE outlen = 0 -> ascon_xofa_init
      [] outlen = ASCON_HASHA_SIZE -> ascon_hasha_init
      [] OTHER -> Fresh(ascon_permute(
                     ascon_overwrite_bytes(ascon_init, IvWord(outlen), 0), 0))

ascon_xofa_free == Fresh(ascon_init)

\* The loop over n full blocks of the input: each is added and permuted.
BlocksAbsorbed(state, in, n) ==
    LET after[k \in 0 .. n] ==
            IF k = 0 THEN state
            ELSE ascon_permute(ascon_add_bytes(after[k - 1],
                     SubSeq(in, (k - 1) * ASCON_XOF_RATE + 1, k * ASCON_XOF_RATE), 0), 4)
    IN  after[n]

\* Full blocks; what is left starts a new block.
AbsorbAligned(x, in) ==
    LET blocks == Len(in) \div ASCON_XOF_RATE
        rest   == SubSeq(in, blocks * ASCON_XOF_RATE + 1, Len(in))
    IN  [x EXCEPT !.state = ascon_add_bytes(BlocksAbsorbed(x.state, in, blocks), rest, 0),
                  !.count = Len(rest)]

\* An object that was squeezing goes back to absorbing, with all the rounds.
\* Mutant: with the rounds of the permutations inside a phase.
EnterAbsorbFewRounds(x) ==
    IF x.mode = 0 THEN x
    ELSE [state |-> ascon_permute(x.state, 4), count |-> 0, mode |-> 0]

EnterAbsorb(x) ==
    IF x.mode = 0 THEN x
    ELSE [state |-> ascon_permute(x.state, 0), count |-> 0, mode |-> 0]

ascon_xofa_absorb(obj, in) ==
    LET x    == EnterAbsorb(obj)
        room == ASCON_XOF_RATE - x.count
    IN  IF x.count = 0 THEN AbsorbAligned(x, in)
        ELSE IF room > Len(in)
        THEN [x EXCEPT !.state = ascon_add_bytes(@, in, x.count),
                       !.count = @ + Len(in)]
        ELSE AbsorbAligned(
                [x EXCEPT !.state = ascon_permute(
                              ascon_add_bytes(@, SubSeq(in, 1, room), x.count), 4),
                          !.count = 0],
                SubSeq(in, room + 1, Len(in)))

\* The loop over n full blocks of output: one permutation after each.
BlocksSqueezed(s, n) ==
    LET after[k \in 0 .. n] ==
            IF k = 0 THEN [state |-> s, out |-> <<>>]
            ELSE LET r == after[k - 1]
                 IN  [state |-> ascon_permute(r.state, 4),
                      out   |-> r.out \o ascon_extract_bytes(r.state, 0, ASCON_XOF_RATE)]
    IN  after[n]

\* Full blocks and the start of the next one.
SqueezeAligned(x, outlen) ==
    LET blocks == outlen \div ASCON_XOF_RATE
        rest   == outlen % ASCON_XOF_RATE
        full   == BlocksSqueezed(x.state, blocks)
    IN  [obj |-> [x EXCEPT !.state = full.state, !.count = rest],
         out |-> full.out \o ascon_extract_bytes(full.state, 0, rest)]

\* An object that was absorbing pads its input, at most once, and permutes it.
EnterSqueeze(x) ==
    IF x.mode = 1 THEN x
    ELSE [state |-> ascon_permute(ascon_pad(x.state, x.count), 0),
          count |-> 0, mode |-> 1]

\* Mutant: a block that was used up in pieces is delivered once more.
SqueezeForgetsPermute(obj, outlen) ==
    LET x    == EnterSqueeze(obj)
        left == ASCON_XOF_RATE - x.count
        then == SqueezeAligned([x EXCEPT !.count = 0], outlen - left)
    IN  IF x.count = 0 THEN SqueezeAligned(x, outlen)
        ELSE IF left > outlen
        THEN [obj |-> [x EXCEPT !.count = @ + outlen],
              out |-> ascon_extract_bytes(x.state, x.count, outlen)]
        ELSE [obj |-> then.obj,
              out |-> ascon_extract_bytes(x.state, x.count, left) \o then.out]

ascon_xofa_squeeze(obj, outlen) ==
    LET x    == EnterSqueeze(obj)
        left == ASCON_XOF_RATE - x.count
        then == SqueezeAligned([x EXCEPT !.state = ascon_permute(@, 4), !.count = 0],
                               outlen - left)
    IN  IF x.count = 0 THEN SqueezeAligned(x, outlen)
        ELSE IF left > outlen
        THEN [obj |-> [x EXCEPT !.count = @ + outlen],
              out |-> ascon_extract_bytes(x.state, x.count, outlen)]
        ELSE [obj |-> then.obj,
              out |-> ascon_extract_bytes(x.state, x.count, left) \o then.out]

ascon_xofa_absorb_custom(x, custom) ==
    LET a == ascon_xofa_absorb(x, custom) IN
    IF custom = <<>> THEN x
    ELSE [a EXCEPT !.state = ascon_separator(ascon_permute(ascon_pad(@, a.count), 4)),
                   !.count = 0]

\* A short function name is padded with zeroes, a long one is hashed.
NameBlock(name) ==
    [i \in 1 .. ASCON_HASHA_SIZE |->
        IF Len(name) > ASCON_HASHA_SIZE THEN {<<"hash", Len(name), i>>}
        ELSE IF i <= Len(name) THEN name[i] ELSE {}]

ascon_xofa_init_custom(name, custom, outlen) ==
    LET named == ascon_overwrite_bytes(ascon_init, NameBlock(name), WORD)
        iv    == ascon_overwrite_bytes(named, IvWord(Encodable(outlen)), 0)
    IN  ascon_xofa_absorb_custom(Fresh(ascon_permute(iv, 0)), custom)

ascon_xofa_pad(x) ==
    IF x.mode = 1 THEN ascon_xofa_absorb(x, <<>>)
    ELSE IF x.count # 0
    THEN [x EXCEPT !.state = ascon_permute(@, 4), !.count = 0]
    ELSE x

ascon_hasha(in) ==
    ascon_xofa_squeeze(ascon_xofa_absorb(ascon_hasha_init, in), ASCON_HASHA_SIZE).out

ascon_xofa_oneshot(in) ==
    ascon_xofa_squeeze(ascon_xofa_absorb(ascon_xofa_init, in), ASCON_HASHA_SIZE).out

=============================================================================
