---------------------------- MODULE Permutations ----------------------------
(***************************************************************************)
(* The ASCON permutation in the portable C backends: on 64-bit words       *)
(* (core/ascon-c64.c) and on 32-bit words that hold the even and the odd   *)
(* bits of the 64-bit ones (core/ascon-c32.c); and the same permutation on *)
(* words that are split in two to four shares (masking/ascon-x*.c).        *)
(*                                                                         *)
(* A stored word has 64 bits: S[i], or W[2i] followed by W[2i + 1].  The   *)
(* substitution layer works bit by bit and is the same on both.            *)
(***************************************************************************)
EXTENDS BitWords, SequencesExt

FirstRounds(first_round) == [k \in 1 .. 12 - first_round |-> first_round + k - 1]

\* x2 = ~x2 is left out of the rounds, their constants invert it.
Inverted(x) == << x[1], x[2], WordNot(x[3]), x[4], x[5] >>

(* ----- 64-bit words ----- *)

RoundConstant64(round) == WordNot(Number((15 - round) * 16 + round, 64))

Diffused(x, n, m) == WordXor(x, WordXor(RotR(x, n), RotR(x, m)))

Linear64(x) == << Diffused(x[1], 19, 28), Diffused(x[2], 61, 39), Diffused(x[3], 1, 6),
                  Diffused(x[4], 10, 17), Diffused(x[5], 7, 41) >>

\* The substitution layer: additions, x ^= ~y & z with the next two words, additions.
SboxIn(x) == << WordXor(x[1], x[5]), x[2], WordXor(x[3], x[2]), x[4], WordXor(x[5], x[4]) >>
AndNotXor(x, y, z) == WordXor(x, WordAnd(WordNot(y), z))
Chi(x) == Evaluated([i \in 1 .. 5 |-> AndNotXor(x[i], x[(i % 5) + 1], x[((i + 1) % 5) + 1])])
SboxOut(y) == << WordXor(y[1], y[5]), WordXor(y[2], y[1]), y[3], WordXor(y[4], y[3]), y[5] >>
ascon_sbox(x) == SboxOut(Chi(SboxIn(x)))

Round64(x, round) ==
    Linear64(ascon_sbox(<< x[1], x[2], WordXor(x[3], RoundConstant64(round)), x[4], x[5] >>))

ascon_permute_c64(state, first_round) ==
    Inverted(FoldLeft(Round64, Inverted(state), FirstRounds(first_round)))

(* ----- 32-bit words, even and odd bits ----- *)

\* ROUND_CONSTANT_PAIR(even, odd) of the rounds.
RC32 == << <<12, 12>>, <<9, 12>>, <<12, 9>>, <<9, 9>>, <<6, 12>>, <<3, 12>>,
           <<6, 9>>, <<3, 9>>, <<12, 6>>, <<9, 6>>, <<12, 3>>, <<9, 3>> >>

\* Mutant: the even and the odd bits of the constants are exchanged.
RoundConstantSwapped(round) ==
    WordNot(Number(RC32[round + 1][2], 32) \o Number(RC32[round + 1][1], 32))

RoundConstant32(round) ==
    WordNot(Number(RC32[round + 1][1], 32) \o Number(RC32[round + 1][2], 32))

\* A word of the linear layer from its halves and what is added to them, rotated.
Plus(a, b, n) == WordXor(a, RotR(b, n))
Halves(e, o, t0, t1, m, n) == Plus(e, t1, m) \o Plus(o, t0, n)
Crossed(e, o, a, b, m, n) == Halves(e, o, Plus(e, o, a), Plus(o, e, b), m, n)
Apart(e, o, a, m, n) == Halves(e, o, Plus(e, e, a), Plus(o, o, a), m, n)
Straight(e, o, a, b, m) == Halves(e, o, Plus(o, e, b), Plus(e, o, a), m, m)

Linear32(x) ==
    << Crossed(High(x[1]), Low(x[1]), 4, 5, 9, 10),
       Apart(High(x[2]), Low(x[2]), 11, 19, 20),
       Crossed(High(x[3]), Low(x[3]), 2, 3, 0, 1),
       Straight(High(x[4]), Low(x[4]), 3, 4, 5),
       Apart(High(x[5]), Low(x[5]), 17, 3, 4) >>

Round32(x, round) ==
    Linear32(ascon_sbox(<< x[1], x[2], WordXor(x[3], RoundConstant32(round)), x[4], x[5] >>))

ascon_permute_c32(state, first_round) ==
    Inverted(FoldLeft(Round32, Inverted(state), FirstRounds(first_round)))

(***************************************************************************)
(* What every backend has to compute, from the definition of ASCON: add    *)
(* the constant of the round, look each column of bits up in the           *)
(* substitution table, add two rotations to each word.                     *)
(***************************************************************************)
SBOX == << 4, 11, 31, 20, 26, 21, 9, 2, 27, 5, 8, 18, 29, 3, 6, 28,
           30, 19, 7, 14, 0, 13, 17, 24, 16, 12, 1, 25, 22, 10, 15, 23 >>

Entry(m, j) ==
    LET column == (IF 1 \in m THEN 16 ELSE 0) + (IF 2 \in m THEN 8 ELSE 0) +
                  (IF 3 \in m THEN 4 ELSE 0) + (IF 4 \in m THEN 2 ELSE 0) +
                  (IF 5 \in m THEN 1 ELSE 0)
    IN  (SBOX[column + 1] \div 2 ^ (5 - j)) % 2 = 1

\* The monomials of bit j (1 is the highest) of the table, in the five input bits.
SboxMonomials ==
    Evaluated([j \in 1 .. 5 |->
        {m \in SUBSET (1 .. 5) : Cardinality({n \in SUBSET m : Entry(n, j)}) % 2 = 1}])

\* Bit j of the table at column i of x: looked up, or a formula if that is one.
Looked(x, j, i) ==
    LET set == {k \in 1 .. 5 : x[k][i] = On}
        Product(m) == FoldFunctionOnSet(BitAnd, On, [k \in 1 .. 5 |-> x[k][i]], m)
    IN  IF \A k \in 1 .. 5 : x[k][i] \in {Off, On}
        THEN IF Entry(set, j) THEN On ELSE Off
        ELSE FoldSet(LAMBDA m, sum : BitXor(Product(m), sum), Off, SboxMonomials[j])

ReferenceRound(x, round) ==
    LET y == << x[1], x[2], WordXor(x[3], Number((15 - round) * 16 + round, 64)), x[4], x[5] >>
    IN  Linear64([j \in 1 .. 5 |-> Evaluated([i \in 1 .. 64 |-> Looked(y, j, i)])])

Reference(x, first_round) == FoldLeft(ReferenceRound, x, FirstRounds(first_round))

=============================================================================
