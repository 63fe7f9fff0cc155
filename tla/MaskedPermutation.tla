------------------------- MODULE MaskedPermutation --------------------------
(***************************************************************************)
(* The permutation of five words in two, three or four shares              *)
(* (masking/ascon-x2-*.c, x3, x4), over the representation of a word that  *)
(* the constants give.                                                     *)
(***************************************************************************)
EXTENDS MaskedWord

CONSTANTS   \* and those of MaskedWord
    Linear(_),          \* the linear layer of the permutation
    RoundConstant(_),   \* its inverted round constants
    Turn(_, _)          \* Turn(k, w): word k of the preserved randomness between rounds

(* x ^= ~y & z on shares; At(k, j, w) moves a word of share j to share k.  *)

At(k, j, w) == Rot(k - j, w)

AndNot2(x, y, z) ==
    Shares(2, LAMBDA k :
        WordXor(x[k + 1],
            IF k = 0
            THEN WordXor(WordAnd(WordNot(y[1]), At(0, 1, z[2])), WordAnd(WordNot(y[1]), z[1]))
            ELSE WordXor(WordAnd(y[2], z[2]), WordAnd(y[2], At(1, 0, z[1])))))

AndNot3(x, y, z) ==
    Shares(3, LAMBDA k :
        WordXor(x[k + 1],
            CASE k = 0 -> Sum(<< WordAnd(WordNot(y[1]), z[1]), WordAnd(y[1], At(0, 1, z[2])),
                                 WordAnd(y[1], At(0, 2, z[3])) >>)
              [] k = 1 -> Sum(<< WordAnd(y[2], At(1, 0, z[1])), WordAnd(WordNot(y[2]), z[2]),
                                 WordAnd(y[2], At(1, 2, z[3])) >>)
              [] k = 2 -> Sum(<< WordAnd(y[3], At(2, 0, WordNot(z[1]))),
                                 WordAnd(y[3], At(2, 1, z[2])), WordOr(y[3], z[3]) >>)))

\* Mutant: in the last share the first one of y is not inverted.
AndNot4Plain(x, y, z) ==
    Shares(4, LAMBDA k :
        WordXor(x[k + 1],
            Sum([j \in 1 .. 4 |->
                WordAnd(At(k, j - 1, IF j = 1 /\ k < 3 THEN WordNot(y[1]) ELSE y[j]),
                        z[k + 1])])))

AndNot4(x, y, z) ==
    Shares(4, LAMBDA k :
        WordXor(x[k + 1],
            Sum([j \in 1 .. 4 |->
                WordAnd(At(k, j - 1, IF j = 1 THEN WordNot(y[1]) ELSE y[j]), z[k + 1])])))

and_not_xor(n, x, y, z) ==
    CASE n = 2 -> AndNot2(x, y, z) [] n = 3 -> AndNot3(x, y, z) [] n = 4 -> AndNot4(x, y, z)

(***************************************************************************)
(* A round on x, five masked words, with t0, the random shares of zero.    *)
(* `preserve` becomes t0 after the round, turned; the last share of t0 is  *)
(* made of the others before each round.                                   *)
(***************************************************************************)
Plus(n, a, b) == Shares(n, LAMBDA k : WordXor(a[k + 1], b[k + 1]))
WithConstant(x, round) == [x EXCEPT ![3] = [@ EXCEPT ![1] = WordXor(@, RoundConstant(round))]]
ZeroShares(n, preserve) ==
    Shares(n, LAMBDA k : IF k < n - 1 THEN preserve[k + 1]
                         ELSE Sum([j \in 1 .. n - 1 |-> At(k, j - 1, preserve[j])]))

SboxIn(n, x) ==
    << Plus(n, x[1], x[5]), x[2], Plus(n, x[3], x[2]), x[4], Plus(n, x[5], x[4]) >>

\* The last word is combined with the others through t0.
Chi(n, x, z) ==
    [i \in 1 .. 5 |-> and_not_xor(n, IF i = 5 THEN z ELSE x[i], x[(i % 5) + 1], x[((i + 1) % 5) + 1])]

\* y[5] is t0; x4 its sum with the word that it belongs to.
Added(n, y, y4) ==
    << Plus(n, y[1], y4), Plus(n, y[2], y[1]), y[3], Plus(n, y[4], y[3]), y4 >>
MixedBack(n, mixed) == Evaluated([i \in 1 .. 5 |-> Shares(n, LAMBDA k : mixed[k + 1][i])])
LinearShares(n, out) ==
    MixedBack(n, Evaluated([k \in 1 .. n |-> Linear([i \in 1 .. 5 |-> out[i][k]])]))

AfterChi(n, x, y) ==
    [x |-> LinearShares(n, Added(n, y, Plus(n, x[5], y[5]))),
     preserve |-> Evaluated([k \in 1 .. n - 1 |-> Turn(k, y[5][k])])]
AfterSboxIn(n, x, z) == AfterChi(n, x, Evaluated(Chi(n, x, z)))
MaskedRound(n, r, round) ==
    AfterSboxIn(n, SboxIn(n, WithConstant(r.x, round)), ZeroShares(n, r.preserve))

Inverted(x) == [x EXCEPT ![3] = [@ EXCEPT ![1] = WordNot(@)]]
InvertedBack(r) == [x |-> Inverted(r.x), preserve |-> r.preserve]
MaskedPermute(n, x, first_round, preserve) ==
    InvertedBack(FoldLeft(LAMBDA r, round : MaskedRound(n, r, round),
                          [x |-> Inverted(x), preserve |-> preserve],
                          [k \in 1 .. 12 - first_round |-> first_round + k - 1]))

=============================================================================
