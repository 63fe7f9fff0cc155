----------------------------- MODULE MaskedWord -----------------------------
(***************************************************************************)
(* A 64-bit word that is split in two, three or four shares                *)
(* (masking/ascon-masked-word-*.c).  The value is the exclusive or of the  *)
(* shares, each share after the first rotated against the ones before it.  *)
(*                                                                         *)
(* The source writes every function out for each number of shares and for  *)
(* each representation of a word.  Here n is the number of shares, and the *)
(* representation is in the constants.  A masked word is the sequence of   *)
(* four stored words; r is the sequence of the random words that a         *)
(* function draws, in the form in which they end up in the first share.    *)
(***************************************************************************)
EXTENDS BitWords, SequencesExt

CONSTANTS
    Slice(_),           \* the stored word of a 64-bit value
    PlainWord(_),       \* the value of a stored word
    Rot(_, _)           \* Rot(k, w): w moved up by k shares (down if k < 0)

MAX_SHARES == 4
None == Evaluated(Blank(64))

\* The shares 0 .. n - 1 given by f, and zero for those that are not used.
Shares(n, f(_)) == Evaluated([k \in 1 .. MAX_SHARES |-> IF k <= n THEN f(k - 1) ELSE None])

Sum(words) == FoldLeft(WordXor, None, words)

\* `first` is masked by the random words, and they are the other shares.
Split(n, first, r) ==
    Shares(n, LAMBDA k : IF k = 0 THEN WordXor(first, Sum(SubSeq(r, 1, n - 1)))
                         ELSE Rot(k, r[k]))

Zero(n, r) == Split(n, None, r)
\* Mutant: the last random word masks nothing.
LoadUnmasked(n, data, r) == Split(n, Slice(data), [r EXCEPT ![n - 1] = None])

Load(n, data, r) == Split(n, Slice(data), r)
Load32(n, data1, data2, r) == Load(n, data1 \o data2, r)

(***************************************************************************)
(* Up to seven bytes go to the top of the word: four, two and one of them, *)
(* from the last ones on, enter at the bottom and are rotated to the top   *)
(* together with the first random word.                                    *)
(***************************************************************************)
LoadPartial(n, data, r) ==
    LET Part(t, b) ==
            LET left == Len(t.data) - 8 * b
                in   == Blank(64 - 8 * b) \o SubSeq(t.data, left + 1, Len(t.data))
            IN  IF left < 0 THEN t
                ELSE [data   |-> SubSeq(t.data, 1, left),
                      masked |-> RotR(WordXor(t.masked, in), 8 * b),
                      random |-> RotR(t.random, 8 * b)]
        end == FoldLeft(Part, [data |-> data, masked |-> r[1], random |-> r[1]], <<4, 2, 1>>)
    IN  Shares(n, LAMBDA k :
            CASE k = 0 -> WordXor(Slice(end.masked), Sum(SubSeq(r, 2, n - 1)))
              [] k = 1 -> Rot(1, Slice(end.random))
              [] OTHER -> Rot(k, r[k]))

\* The stored value: what the shares add up to when they are moved back.
Joined(n, w) == Sum([k \in 1 .. n |-> Rot(1 - k, w[k])])
Store(n, w) == PlainWord(Joined(n, w))

\* The top bytes of the shares, rotated to the bottom four, two and one at a time.
StorePartial(n, w, size) ==
    LET Part(t, b) ==
            LET turned == RotR(t.masked, 64 - 8 * b)
            IN  IF t.size < b THEN t
                ELSE [size |-> t.size - b, masked |-> turned,
                      out |-> t.out \o SubSeq(turned, 65 - 8 * b, 64)]
    IN  FoldLeft(Part, [size |-> size, masked |-> Store(n, w), out |-> <<>>], <<4, 2, 1>>).out

\* Mutant: two shares are randomized, whatever their number is.
RandomizeTwo(n, dest, src, r) ==
    [k \in 1 .. MAX_SHARES |->
        CASE k = 1 -> WordXor(src[1], r[1])
          [] k = 2 -> WordXor(src[2], Rot(1, r[1]))
          [] OTHER -> src[k]]

Randomize(n, dest, src, r) ==
    [k \in 1 .. MAX_SHARES |->
        IF k > n THEN dest[k]
        ELSE WordXor(src[k], IF k = 1 THEN Sum(SubSeq(r, 1, n - 1)) ELSE Rot(k - 1, r[k - 1]))]

AddWord(n, dest, src) ==
    [k \in 1 .. MAX_SHARES |-> IF k > n THEN dest[k] ELSE WordXor(dest[k], src[k])]

\* The bytes of src that the mask covers replace those of dest, share by share.
Replace(n, dest, src, size) ==
    LET mask == Slice(Ones(8 * size) \o Blank(64 - 8 * size))
    IN  [k \in 1 .. MAX_SHARES |->
            IF k > n THEN dest[k] ELSE Blend(dest[k], src[k], Rot(k - 1, mask))]

(***************************************************************************)
(* From m to n shares: fresh randomness, and the shares that are given up  *)
(* are added to the ones that stay, the third of three to the second one,  *)
(* the others to the first ones in order.                                  *)
(***************************************************************************)
ConvertBy(Move(_, _), n, m, src, r) ==
    LET GivenUp(k) == IF n = 2 /\ m = 3 THEN {j \in {2} : k = 1}
                      ELSE {j \in n .. m - 1 : j - n = k}
        Base(k) == IF k = 0 THEN Sum(SubSeq(r, 1, n - 1)) ELSE Rot(k, r[k])
        Kept(k) == IF k < m THEN src[k + 1] ELSE None
    IN  Shares(n, LAMBDA k :
            WordXor(WordXor(Base(k), Kept(k)),
                    Sum(SetToSeq({Move(k - j, src[j + 1]) : j \in GivenUp(k)}))))

\* Mutant: the share that is given up is not moved.
ConvertUnmoved(n, m, src, r) == ConvertBy(LAMBDA k, share : share, n, m, src, r)

\* Mutant: the shares that are given up stay where they were.
ConvertKeeping(n, m, src, r) ==
    LET c == ConvertBy(Rot, n, m, src, r)
    IN  [k \in 1 .. MAX_SHARES |-> IF k <= n THEN c[k] ELSE src[k]]

Convert(n, m, src, r) == ConvertBy(Rot, n, m, src, r)

Pad(w, offset) ==
    [w EXCEPT ![1] = WordXor(@, Slice(ShiftR(<<On>> \o Blank(63), 8 * offset)))]
Separate(w) == [w EXCEPT ![1] = WordXor(@, Slice(Number(1, 64)))]

=============================================================================
