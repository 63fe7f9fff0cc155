---------------------------- MODULE MaskedObjects ---------------------------
(***************************************************************************)
(* A program that works on masked data with one of the backends: on a      *)
(* state of five masked words (masking/ascon-masked-state.h), on its words *)
(* (masking/ascon-masked-word.h), or on a masked key (ascon/masking.h).    *)
(*                                                                         *)
(* The data and the random words are unknown bits, each with a name of its *)
(* own, so that a property of the shares holds for all of their values.    *)
(***************************************************************************)
EXTENDS Permutations

CONSTANTS
    PartialSizes,       \* bytes of a partial load, store or replacement
    MaskedRounds,       \* first rounds of the permutations of known words
    MaxMaskedCalls      \* bound on the calls of a run

ASSUME MaskedAssumption ==
    PartialSizes \subseteq 0 .. 7 /\ MaskedRounds \subseteq 0 .. 12 /\ MaxMaskedCalls \in Nat

C64 == INSTANCE MaskedC64
C32 == INSTANCE MaskedC32
Direct == INSTANCE MaskedDirect

VARIABLES
    backend,    \* "c64", "c32" or "direct"
    object,     \* "state", "key128" or "key160"
    shares,          \* number of shares
    w,          \* the masked words
    plain,      \* history: the values that they have to have
    got,        \* what the last call delivered
    want,       \* history: what it had to deliver
    fixed,      \* history: data and random words are known
    renewed,    \* history: the words that the last call has to mask afresh
    steps       \* number of calls

maskedVars == <<backend, object, shares, w, plain, got, want, fixed, renewed, steps>>

\* The function of the backend in use.
Pick(c64, c32, direct) ==
    CASE backend = "c64" -> c64 [] backend = "c32" -> c32 [] backend = "direct" -> direct

KnownBits(i) ==
    FlattenSeq([j \in 1 .. 8 |-> Number((91 * i + 29 * j + 7 * i * j) % 256, 8)])
Random(c, i, k) ==
    IF fixed THEN KnownBits(100 + 20 * c + 4 * i + k) ELSE UnknownWord(<<"r", c, i, k>>, 64)

\* What a call draws for word i, and for all words.
DrawnBy(c, i, m) == Evaluated([k \in 1 .. m - 1 |-> Random(c, i, k)])
Drawn(i, m) == DrawnBy(steps + 1, i, m)
AllDrawn(count, m) == Evaluated([i \in 1 .. count |-> Drawn(i, m)])

Secret(i) == IF fixed THEN KnownBits(i) ELSE UnknownWord(<<"s", 0, i, 0>>, 64)
Given(count) == SubSeq(UnknownWord(<<"d", steps, 0, 0>>, 64), 1, 8 * count)

KeyBytes(kind) ==
    Secret(1) \o Secret(2) \o (IF kind = "key160" THEN High(Secret(3)) ELSE <<>>)

\* The words that hold a key, as ASCON-128 and ASCON-80pq add it to the state.
KeyWords(kind) ==
    LET key == KeyBytes(kind)
        At(from, count) == SubSeq(key, 8 * from + 1, 8 * (from + count))
    IN  IF kind = "key128" THEN << At(0, 8), At(8, 8) >>
        ELSE << At(0, 8), At(8, 8), At(16, 4) \o Blank(32),
                Blank(32) \o At(0, 4), At(4, 8), At(12, 8) >>

MaskedInit ==
    /\ backend \in {"c64", "c32", "direct"}
    /\ object \in {"state", "key128", "key160"}
    /\ shares \in 2 .. 4
    /\ fixed \in BOOLEAN
    /\ fixed => object = "state" /\ backend # "direct"
    /\ steps = 0
    /\ plain = IF object = "state" THEN Evaluated([i \in 1 .. 5 |-> Secret(i)])
               ELSE KeyWords(object)
    /\ LET r == [i \in 1 .. 6 |-> DrawnBy(0, i, shares)]
           key == KeyBytes(object)
       IN  w = CASE object = "state" ->
                      Pick(C64!S!copy_from_x1(shares, plain, r), C32!S!copy_from_x1(shares, plain, r),
                           Direct!S!copy_from_x1(shares, plain, r))
                 [] object = "key128" ->
                      Pick(C64!S!ascon_masked_key_128_init(shares, key, r),
                           C32!S!ascon_masked_key_128_init(shares, key, r),
                           Direct!S!ascon_masked_key_128_init(shares, key, r))
                 [] object = "key160" ->
                      Pick(C64!S!ascon_masked_key_160_init(shares, key, r),
                           C32!S!ascon_masked_key_160_init(shares, key, r),
                           Direct!S!ascon_masked_key_160_init(shares, key, r))
    /\ got = <<>> /\ want = <<>>
    /\ renewed = DOMAIN plain

MaskedStep == steps < MaxMaskedCalls /\ steps' = steps + 1 /\ UNCHANGED <<backend, object, fixed>>

\* The words become masked, with the values they have to have; nothing is delivered.
Becomes(masked, value, fresh) ==
    /\ w' = masked /\ plain' = value
    /\ got' = <<>> /\ want' = <<>>
    /\ renewed' = fresh

\* The first word alone.
Word(masked, value, fresh) ==
    Becomes([w EXCEPT ![1] = masked], [plain EXCEPT ![1] = value], IF fresh THEN {1} ELSE {})

Delivers(bytes, value) ==
    /\ got' = bytes /\ want' = value
    /\ renewed' = {}
    /\ UNCHANGED <<w, plain>>

StoredWord(i) == Pick(C64!store(shares, w[i]), C32!store(shares, w[i]), Direct!store(shares, w[i]))

-----------------------------------------------------------------------------
(* States. *)

DoRandomizeState ==
    LET r == AllDrawn(5, shares)
    IN  /\ UNCHANGED shares
        /\ Becomes(Pick(C64!S!state_randomize(shares, w, r), C32!S!state_randomize(shares, w, r),
                        Direct!S!state_randomize(shares, w, r)), plain, DOMAIN plain)

\* A state with m shares is made of this one, in the same place or in a new one.
DoCopyState(m) ==
    LET r == AllDrawn(5, m)
        dest == Evaluated([i \in 1 .. 5 |-> Evaluated([k \in 1 .. 4 |-> Blank(64)])])
    IN  /\ shares' = m
        /\ Becomes(Pick(C64!S!copy_from(m, shares, dest, w, r), C32!S!copy_from(m, shares, dest, w, r),
                        Direct!S!copy_from(m, shares, dest, w, r)), plain, DOMAIN plain)

DoCopyToX1 ==
    /\ UNCHANGED shares
    /\ Delivers(FlattenSeq(Pick(C64!S!copy_to_x1(shares, w), C32!S!copy_to_x1(shares, w),
                                Direct!S!copy_to_x1(shares, w))), FlattenSeq(plain))

\* Unknown bits can be followed through one round only.
DoPermuteMasked(first_round) ==
    LET preserve == Drawn(6, shares)
    IN  /\ backend # "direct"
        /\ fixed \/ (first_round = 11 /\ shares = 2 /\ steps = 0)
        /\ UNCHANGED shares
        /\ Becomes((IF backend = "c64" THEN C64!permute(shares, w, first_round, preserve)
                    ELSE C32!permute(shares, w, first_round, preserve)).x,
                   Reference(plain, first_round), {})

(* Words. *)

DoZeroWord ==
    LET r == Drawn(1, shares)
    IN  Word(Pick(C64!zero(shares, r), C32!zero(shares, r), Direct!zero(shares, r)), Blank(64), TRUE)

DoLoadWord ==
    LET r == Drawn(1, shares)
        d == Given(8)
    IN  Word(Pick(C64!load(shares, d, r), C32!load(shares, d, r), Direct!load(shares, d, r)), d, TRUE)

DoLoad32 ==
    LET r == Drawn(1, shares)
        a == High(Given(8))
        b == Low(Given(8))
    IN  Word(Pick(C64!load_32(shares, a, b, r), C32!load_32(shares, a, b, r),
                  Direct!load_32(shares, a, b, r)), a \o b, TRUE)

DoLoadPartial(size) ==
    LET r == Drawn(1, shares)
        d == Given(size)
    IN  Word(Pick(C64!load_partial(shares, d, r), C32!load_partial(shares, d, r),
                  Direct!load_partial(shares, d, r)), d \o Blank(64 - 8 * size), TRUE)

DoStorePartial(size) ==
    Delivers(Pick(C64!store_partial(shares, w[1], size), C32!store_partial(shares, w[1], size),
                  Direct!store_partial(shares, w[1], size)), SubSeq(plain[1], 1, 8 * size))

DoXorWord ==
    Word(Pick(C64!xor(shares, w[1], w[2]), C32!xor(shares, w[1], w[2]), Direct!xor(shares, w[1], w[2])),
         WordXor(plain[1], plain[2]), FALSE)

DoReplaceWord(size) ==
    Word(Pick(C64!replace(shares, w[1], w[2], size), C32!replace(shares, w[1], w[2], size),
              Direct!replace(shares, w[1], w[2], size)),
         SubSeq(plain[2], 1, 8 * size) \o SubSeq(plain[1], 8 * size + 1, 64), FALSE)

DoPadWord(offset) ==
    Word(Pick(C64!ascon_masked_word_pad(w[1], offset), C32!ascon_masked_word_pad(w[1], offset),
              Direct!ascon_masked_word_pad(w[1], offset)),
         [plain[1] EXCEPT ![8 * offset + 1] = BitNot(@)], FALSE)

DoSeparatorWord ==
    Word(Pick(C64!ascon_masked_word_separator(w[1]), C32!ascon_masked_word_separator(w[1]),
              Direct!ascon_masked_word_separator(w[1])),
         [plain[1] EXCEPT ![64] = BitNot(@)], FALSE)

(* Keys. *)

DoRandomizeKey ==
    LET r == AllDrawn(6, shares)
    IN  Becomes(IF object = "key128"
                THEN Pick(C64!S!ascon_masked_key_128_randomize(shares, w, r),
                          C32!S!ascon_masked_key_128_randomize(shares, w, r),
                          Direct!S!ascon_masked_key_128_randomize(shares, w, r))
                ELSE Pick(C64!S!ascon_masked_key_160_randomize(shares, w, r),
                          C32!S!ascon_masked_key_160_randomize(shares, w, r),
                          Direct!S!ascon_masked_key_160_randomize(shares, w, r)), plain, DOMAIN plain)

DoExtractKey ==
    Delivers(IF object = "key128"
             THEN Pick(C64!S!ascon_masked_key_128_extract(shares, w),
                       C32!S!ascon_masked_key_128_extract(shares, w),
                       Direct!S!ascon_masked_key_128_extract(shares, w))
             ELSE Pick(C64!S!ascon_masked_key_160_extract(shares, w),
                       C32!S!ascon_masked_key_160_extract(shares, w),
                       Direct!S!ascon_masked_key_160_extract(shares, w)), KeyBytes(object))

StateCall ==
    /\ object = "state"
    /\ MaskedStep
    /\ \/ DoRandomizeState
       \/ \E m \in 2 .. 4 : DoCopyState(m)
       \/ DoCopyToX1
       \/ \E first_round \in MaskedRounds : DoPermuteMasked(first_round)

WordCall ==
    /\ object = "state" /\ ~fixed
    /\ MaskedStep
    /\ UNCHANGED shares
    /\ \/ DoZeroWord
       \/ DoLoadWord
       \/ DoLoad32
       \/ \E size \in PartialSizes :
             DoLoadPartial(size) \/ DoStorePartial(size) \/ DoReplaceWord(size)
       \/ DoXorWord
       \/ \E offset \in 0 .. 7 : DoPadWord(offset)
       \/ DoSeparatorWord

KeyCall ==
    /\ object # "state"
    /\ MaskedStep
    /\ UNCHANGED shares
    /\ \/ DoRandomizeKey
       \/ DoExtractKey

MaskedNext == StateCall \/ WordCall \/ KeyCall

MaskedSpec == MaskedInit /\ [][MaskedNext]_maskedVars

-----------------------------------------------------------------------------
(***************************************************************************)
(* ValueKept: whatever the randomness is, the shares of every word add up  *)
(* to the value that the program gave it by loading, adding, replacing and *)
(* permuting, through randomization and changes of the number of shares;   *)
(* a key adds up to its parts at all the places where ASCON-80pq needs     *)
(* them; and what is stored back is that value.  A word that is narrowed   *)
(* keeps no share of its former self.                                      *)
(***************************************************************************)
ValueKept ==
    /\ \A i \in 1 .. Len(w) : StoredWord(i) = plain[i]
    /\ got = want
    /\ \A i \in 1 .. Len(w) : \A k \in shares + 1 .. 4 : w[i][k] = Blank(64)

\* The shares of a word, each moved back to where the first one has its bits.
Aligned(word) ==
    Evaluated([k \in 1 .. shares |->
        Pick(C64!Rot(1 - k, word[k]), C32!Rot(1 - k, word[k]), Direct!Rot(1 - k, word[k]))])

\* What can be computed of some, but not all of the shares.
Partials(word) ==
    LET a == Aligned(word)
    IN  {FoldLeft(WordXor, Blank(64), [k \in 1 .. shares |-> IF k \in set THEN a[k] ELSE Blank(64)]) :
         set \in SUBSET (1 .. shares) \ {{}, 1 .. shares}}

\* Every bit is known anyway, or has a random bit added to it that a call in `by` drew.
Covered(bits, by) ==
    \A i \in 1 .. 64 :
        bits[i] \in {Off, On} \/ \E m \in bits[i] :
            Cardinality(m) = 1 /\ \A atom \in m : atom[1][1] = "r" /\ atom[1][2] \in by

(***************************************************************************)
(* NoSubsetReveals: as long as a word has not been through the             *)
(* permutation, whoever knows all of its shares but one knows nothing of   *)
(* its value: each sum of them has a random bit in every place, after      *)
(* partial loads, replacements and conversions too.                        *)
(***************************************************************************)
NotPermuted == \A i \in 1 .. Len(w) : \A k \in 1 .. shares : \A j \in 1 .. 64 :
                \A m \in w[i][k][j] : Cardinality(m) < 2

NoSubsetReveals ==
    ~fixed /\ NotPermuted =>
        \A i \in 1 .. Len(w) : \A bits \in Partials(w[i]) : Covered(bits, 0 .. steps)

(***************************************************************************)
(* RandomizedAfresh: after a call that has to mix in fresh randomness, no  *)
(* shares of the word or key can be combined with shares of it from before *)
(* the call: the random bits in each sum were drawn by this call.  For a   *)
(* 160-bit key this holds with two shares only.                            *)
(***************************************************************************)
RandomizedAfresh ==
    ~fixed /\ (object = "key160" => shares = 2 \/ steps = 0) =>
        \A i \in renewed : \A bits \in Partials(w[i]) :
            Covered(bits, {steps})

=============================================================================
