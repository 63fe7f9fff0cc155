--------------------------- MODULE SequenceLemmas ---------------------------
(***************************************************************************)
(* Facts about numbers and sequences that the proofs of several components *)
(* cite.  The library's theorems name the set that a sequence is over; the *)
(* sequences of the models hold tuples of different shapes, so that set is *)
(* left open here.                                                         *)
(***************************************************************************)
EXTENDS Integers, Sequences, SequenceTheorems, WellFoundedInduction, TLAPS

\* The order of the naturals as a relation that the library's theorems about
\* well-founded relations apply to.
LEMMA NaturalOrder ==
  \E R : /\ IsWellFoundedOn(R, Nat)
         /\ \A x, y \in Nat : (<<y, x>> \in R) <=> y < x
<1> DEFINE R == OpToRel(<, Nat)
<1>1. IsWellFoundedOn(R, Nat)
  BY NatLessThanWellFounded
<1>2. \A x, y \in Nat : (<<y, x>> \in R) <=> y < x
  BY DEF OpToRel
<1> HIDE DEF R
<1> QED BY <1>1, <1>2

\* Any set of numbers that is not empty has a least element.
LEMMA LeastNumber ==
  ASSUME NEW S \in SUBSET Nat, S # {}
  PROVE  \E x \in S : \A y \in S : x <= y
<1>1. PICK R : /\ IsWellFoundedOn(R, Nat)
               /\ \A x, y \in Nat : (<<y, x>> \in R) <=> y < x
  BY NaturalOrder
<1>2. PICK x \in S : \A y \in S : ~(<<y, x>> \in R)
  BY <1>1, WFMin
<1>3. \A y \in S : x \in Nat /\ y \in Nat /\ ~(y < x)
  BY <1>1, <1>2
<1> QED BY <1>3

-----------------------------------------------------------------------------
(* Quotients and remainders. *)

LEMMA Division ==
  ASSUME NEW n \in Nat, NEW d \in Nat \ {0}
  PROVE  /\ n \div d \in Nat /\ n % d \in 0 .. d - 1
         /\ n = (n \div d) * d + (n % d)
OBVIOUS

LEMMA ProductOrder ==
  ASSUME NEW a \in Nat, NEW b \in Nat, NEW d \in Nat, a < b
  PROVE  a * d + d <= b * d
<1>1. PICK c \in Nat : b = a + 1 + c
  <2>1. b - a - 1 \in Nat /\ b = a + 1 + (b - a - 1)
    OBVIOUS
  <2> QED BY <2>1
<1>2. b * d = a * d + d + c * d
  BY <1>1
<1>3. c * d \in Nat
  OBVIOUS
<1>4. a * d \in Nat /\ b * d \in Nat
  OBVIOUS
<1> QED BY <1>2, <1>3, <1>4

LEMMA DivisionUnique ==
  ASSUME NEW q \in Nat, NEW d \in Nat \ {0}, NEW r \in 0 .. d - 1
  PROVE  (q * d + r) \div d = q /\ (q * d + r) % d = r
<1> DEFINE n == q * d + r
           p == n \div d
           s == n % d
<1>1. n \in Nat
  OBVIOUS
<1>2. p \in Nat /\ s \in 0 .. d - 1 /\ n = p * d + s
  BY <1>1, Division
<1>3. p * d \in Nat /\ q * d \in Nat
  BY <1>2
<1>4. n = q * d + r
  OBVIOUS
<1> HIDE DEF n, p, s
<1>5. CASE p < q
  <2>1. p * d + d <= q * d
    BY <1>2, <1>5, ProductOrder
  <2> QED BY <1>2, <1>3, <1>4, <2>1
<1>6. CASE q < p
  <2>1. q * d + d <= p * d
    BY <1>2, <1>6, ProductOrder
  <2> QED BY <1>2, <1>3, <1>4, <2>1
<1>7. CASE p = q
  BY <1>2, <1>3, <1>4, <1>7 DEF n, p, s
<1> QED BY <1>2, <1>5, <1>6, <1>7

-----------------------------------------------------------------------------
IsSequence(s) == \E S : s \in Seq(S)

LEMMA SequenceLength ==
  ASSUME NEW s, IsSequence(s)
  PROVE  Len(s) \in Nat /\ DOMAIN s = 1 .. Len(s)
BY LenProperties DEF IsSequence

LEMMA EmptySequence ==
  /\ IsSequence(<<>>)
  /\ Len(<<>>) = 0
BY EmptySeq DEF IsSequence

LEMMA LengthZero ==
  ASSUME NEW s, IsSequence(s), Len(s) = 0
  PROVE  s = <<>>
BY EmptySeq DEF IsSequence

LEMMA SingleSequence ==
  ASSUME NEW x
  PROVE  IsSequence(<<x>>) /\ Len(<<x>>) = 1 /\ <<x>>[1] = x
<1>1. <<x>> \in Seq({x})
  OBVIOUS
<1> QED BY <1>1 DEF IsSequence

\* Two sequences with the same items in the same places are the same.
LEMMA SameSequence ==
  ASSUME NEW s, NEW t, IsSequence(s), IsSequence(t),
         Len(s) = Len(t), \A i \in 1 .. Len(s) : s[i] = t[i]
  PROVE  s = t
<1>1. PICK S : s \in Seq(S)
  BY DEF IsSequence
<1>2. PICK T : t \in Seq(T)
  BY DEF IsSequence
<1>3. s \in Seq(S \cup T) /\ t \in Seq(S \cup T)
  BY <1>1, <1>2, SeqMonotonic
<1> QED BY <1>3, SeqEqual

LEMMA Concatenated ==
  ASSUME NEW s, NEW t, IsSequence(s), IsSequence(t)
  PROVE  /\ IsSequence(s \o t)
         /\ Len(s \o t) = Len(s) + Len(t)
         /\ \A i \in 1 .. Len(s) : (s \o t)[i] = s[i]
         /\ \A i \in 1 .. Len(t) : (s \o t)[Len(s) + i] = t[i]
<1>1. PICK S : s \in Seq(S)
  BY DEF IsSequence
<1>2. PICK T : t \in Seq(T)
  BY DEF IsSequence
<1>3. s \in Seq(S \cup T) /\ t \in Seq(S \cup T)
  BY <1>1, <1>2, SeqMonotonic
<1>4. /\ s \o t \in Seq(S \cup T)
      /\ Len(s \o t) = Len(s) + Len(t)
      /\ \A i \in 1 .. Len(s) + Len(t) :
           (s \o t)[i] = IF i <= Len(s) THEN s[i] ELSE t[i - Len(s)]
  BY <1>3, ConcatProperties
<1>5. Len(s) \in Nat /\ Len(t) \in Nat
  BY <1>3, LenProperties
<1>6. \A i \in 1 .. Len(s) : (s \o t)[i] = s[i]
  BY <1>4, <1>5
<1>7. ASSUME NEW i \in 1 .. Len(t) PROVE (s \o t)[Len(s) + i] = t[i]
  <2>1. /\ Len(s) + i \in 1 .. Len(s) + Len(t)
        /\ ~(Len(s) + i <= Len(s))
        /\ Len(s) + i - Len(s) = i
    BY <1>5
  <2> QED BY <1>4, <2>1
<1> QED BY <1>4, <1>6, <1>7 DEF IsSequence

LEMMA ConcatenatedTwice ==
  ASSUME NEW s, NEW t, NEW u, IsSequence(s), IsSequence(t), IsSequence(u)
  PROVE  (s \o t) \o u = s \o (t \o u)
<1>1. PICK S : s \in Seq(S)
  BY DEF IsSequence
<1>2. PICK T : t \in Seq(T)
  BY DEF IsSequence
<1>3. PICK U : u \in Seq(U)
  BY DEF IsSequence
<1>4. /\ s \in Seq(S \cup T \cup U) /\ t \in Seq(S \cup T \cup U)
      /\ u \in Seq(S \cup T \cup U)
  BY <1>1, <1>2, <1>3, SeqMonotonic
<1> QED BY <1>4, ConcatAssociative

LEMMA ConcatenatedEmpty ==
  ASSUME NEW s, IsSequence(s)
  PROVE  s \o <<>> = s /\ <<>> \o s = s
BY ConcatEmptySeq DEF IsSequence

LEMMA Subsequence ==
  ASSUME NEW s, IsSequence(s), NEW m \in 1 .. Len(s) + 1, NEW n \in m - 1 .. Len(s)
  PROVE  /\ IsSequence(SubSeq(s, m, n))
         /\ Len(SubSeq(s, m, n)) = n - m + 1
         /\ \A i \in 1 .. n - m + 1 : SubSeq(s, m, n)[i] = s[m + i - 1]
<1>1. PICK S : s \in Seq(S)
  BY DEF IsSequence
<1>2. m \in Int /\ n \in Int /\ Len(s) \in Nat
  BY <1>1, LenProperties
<1>3. \A i \in m .. n : s[i] \in S
  BY <1>1, <1>2, ElementOfSeq
<1>4. /\ SubSeq(s, m, n) \in Seq(S)
      /\ Len(SubSeq(s, m, n)) = IF m <= n THEN n - m + 1 ELSE 0
      /\ \A i \in 1 .. n - m + 1 : SubSeq(s, m, n)[i] = s[m + i - 1]
  BY <1>2, <1>3, SubSeqProperties
<1> QED BY <1>2, <1>4 DEF IsSequence

\* A sequence is what comes before any of its places and what comes after.
LEMMA Cut ==
  ASSUME NEW s, IsSequence(s), NEW n \in 0 .. Len(s)
  PROVE  s = SubSeq(s, 1, n) \o SubSeq(s, n + 1, Len(s))
<1> DEFINE a == SubSeq(s, 1, n)
           b == SubSeq(s, n + 1, Len(s))
<1>1. Len(s) \in Nat
  BY SequenceLength
<1>2. /\ IsSequence(a) /\ Len(a) = n
      /\ \A i \in 1 .. n : a[i] = s[i]
  BY <1>1, Subsequence
<1>3. /\ IsSequence(b) /\ Len(b) = Len(s) - n
      /\ \A i \in 1 .. Len(s) - n : b[i] = s[n + i]
  BY <1>1, Subsequence
<1> HIDE DEF a, b
<1>4. ASSUME NEW i \in 1 .. Len(s) PROVE (a \o b)[i] = s[i]
  <2>1. CASE i <= n
    BY <1>1, <1>2, <1>3, <2>1, Concatenated
  <2>2. CASE ~(i <= n)
    <3>1. i - n \in 1 .. Len(s) - n /\ n + (i - n) = i
      BY <1>1, <2>2
    <3>2. (a \o b)[n + (i - n)] = b[i - n]
      BY <1>2, <1>3, <3>1, Concatenated
    <3> QED BY <1>3, <3>1, <3>2
  <2> QED BY <2>1, <2>2
<1>5. IsSequence(a \o b) /\ Len(a \o b) = Len(s)
  BY <1>1, <1>2, <1>3, Concatenated
<1> QED BY <1>4, <1>5, SameSequence DEF a, b

\* A function on 1 .. n is a sequence.
LEMMA FunctionSequence ==
  ASSUME NEW n \in Nat, NEW s, s = [i \in 1 .. n |-> s[i]]
  PROVE  IsSequence(s) /\ Len(s) = n
<1> DEFINE S == {s[i] : i \in 1 .. n}
<1>1. s \in [1 .. n -> S]
  OBVIOUS
<1>2. s \in Seq(S)
  BY <1>1
<1>3. Len(s) \in Nat /\ 1 .. n = 1 .. Len(s)
  <2>1. DOMAIN s = 1 .. n
    BY <1>1
  <2> QED BY <1>2, <2>1, LenProperties
<1>4. /\ \A i \in 1 .. n : i <= Len(s)
      /\ \A i \in 1 .. Len(s) : i <= n
  BY <1>3
<1>5. Len(s) = n
  <2>1. Len(s) <= n
    BY <1>3, <1>4
  <2>2. n <= Len(s)
    BY <1>3, <1>4
  <2> QED BY <1>3, <2>1, <2>2
<1> QED BY <1>2, <1>5 DEF IsSequence

LEMMA Appended ==
  ASSUME NEW s, IsSequence(s), NEW e
  PROVE  /\ Append(s, e) = s \o <<e>>
         /\ IsSequence(Append(s, e)) /\ Len(Append(s, e)) = Len(s) + 1
         /\ \A i \in 1 .. Len(s) : Append(s, e)[i] = s[i]
         /\ Append(s, e)[Len(s) + 1] = e
<1>1. PICK S : s \in Seq(S)
  BY DEF IsSequence
<1>2. s \in Seq(S \cup {e}) /\ e \in S \cup {e}
  BY <1>1
<1>3. Append(s, e) = s \o <<e>>
  BY <1>2, AppendIsConcat
<1>4. Append(s, e) \in Seq(S \cup {e})
  BY <1>2, AppendProperties
<1>5. /\ Len(Append(s, e)) = Len(s) + 1
      /\ \A i \in 1 .. Len(s) : Append(s, e)[i] = s[i]
      /\ Append(s, e)[Len(s) + 1] = e
  BY <1>2, AppendProperties
<1> QED BY <1>3, <1>4, <1>5 DEF IsSequence

LEMMA AppendedAtEnd ==
  ASSUME NEW s, NEW t, NEW e, IsSequence(s), IsSequence(t)
  PROVE  Append(s \o t, e) = s \o Append(t, e)
<1> DEFINE u == <<e>>
           st == s \o t
<1>1. IsSequence(u) /\ IsSequence(st)
  BY SingleSequence, Concatenated
<1>2. Append(t, e) = t \o u
  BY Appended
<1> HIDE DEF st
<1>3. Append(st, e) = st \o u
  BY <1>1, Appended
<1> HIDE DEF u
<1>4. (s \o t) \o u = s \o (t \o u)
  BY <1>1, ConcatenatedTwice
<1> QED BY <1>2, <1>3, <1>4 DEF st

LEMMA CutTwice ==
  ASSUME NEW s, IsSequence(s), NEW m \in Nat, NEW n \in Nat, m <= n, n <= Len(s)
  PROVE  SubSeq(s, 1, m) \o SubSeq(s, m + 1, n) = SubSeq(s, 1, n)
<1> DEFINE a == SubSeq(s, 1, m)
           b == SubSeq(s, m + 1, n)
           c == SubSeq(s, 1, n)
           ab == a \o b
<1>1. Len(s) \in Nat
  BY SequenceLength
<1>2. /\ IsSequence(a) /\ Len(a) = m
      /\ \A i \in 1 .. m : a[i] = s[i]
  BY <1>1, Subsequence
<1>3. /\ IsSequence(b) /\ Len(b) = n - m
      /\ \A i \in 1 .. n - m : b[i] = s[m + i]
  BY <1>1, Subsequence
<1>4. /\ IsSequence(c) /\ Len(c) = n
      /\ \A i \in 1 .. n : c[i] = s[i]
  BY <1>1, Subsequence
<1> HIDE DEF a, b, c
<1>5. /\ IsSequence(ab) /\ Len(ab) = Len(a) + Len(b)
      /\ \A i \in 1 .. Len(a) : ab[i] = a[i]
      /\ \A i \in 1 .. Len(b) : ab[Len(a) + i] = b[i]
  <2>1. IsSequence(a) /\ IsSequence(b)
    BY <1>2, <1>3
  <2> QED BY <2>1, Concatenated
<1> HIDE DEF ab
<1>6. Len(ab) = n
  BY <1>2, <1>3, <1>5
<1>7. ASSUME NEW i \in 1 .. n PROVE ab[i] = c[i]
  <2>1. CASE i <= m
    BY <1>2, <1>4, <1>5, <2>1
  <2>2. CASE i > m
    <3>1. i - m \in 1 .. n - m /\ m + (i - m) = i
      BY <2>2
    <3>2. ab[m + (i - m)] = b[i - m]
      BY <1>2, <1>3, <1>5, <3>1
    <3> QED BY <1>3, <1>4, <3>1, <3>2
  <2> QED BY <2>1, <2>2
<1> QED BY <1>4, <1>5, <1>6, <1>7, SameSequence DEF a, b, c, ab

=============================================================================
