------------------------ MODULE CipherObjectsProofs ------------------------
(***************************************************************************)
(* Proofs about module CipherObjects: the nonces of packets under one key  *)
(* differ until all nonces have been used; a refused packet leaves no      *)
(* plaintext behind; a packet in pieces is the packet of the one-call      *)
(* function, and decrypting it in pieces gives its text or refuses it.     *)
(***************************************************************************)
EXTENDS CipherObjects, SequenceLemmas, FiniteSetTheorems

Increment(n) == ascon_aead_increment_nonce(n)

-----------------------------------------------------------------------------
(* Counting in nonces. *)

\* What holds of N and passes from a number to the one below it holds of all.
LEMMA Downwards ==
  ASSUME NEW N \in Nat, NEW G \in SUBSET (0 .. N), N \in G,
         \A p \in 1 .. N : p \in G => p - 1 \in G
  PROVE  \A p \in 0 .. N : p \in G
<1> DEFINE B == {q \in 0 .. N : N - q \notin G}
<1>1. SUFFICES ASSUME B # {} PROVE FALSE
  <2>1. ASSUME NEW p \in 0 .. N PROVE N - p \in 0 .. N /\ N - (N - p) = p
    OBVIOUS
  <2> QED BY <2>1
<1>2. B \in SUBSET Nat
  OBVIOUS
<1> HIDE DEF B
<1>3. PICK q \in B : \A r \in B : q <= r
  BY <1>1, <1>2, LeastNumber
<1> USE DEF B
<1>4. q \in 1 .. N /\ q - 1 \in 0 .. N /\ q - 1 \notin B
  BY <1>3
<1>5. N - (q - 1) \in G /\ N - (q - 1) \in 1 .. N
  BY <1>4
<1> QED BY <1>3, <1>5

\* The same from 0 upwards.
LEMMA Upwards ==
  ASSUME NEW N \in Nat, NEW G \in SUBSET (0 .. N), 0 \in G,
         \A d \in 0 .. N - 1 : d \in G => d + 1 \in G
  PROVE  \A d \in 0 .. N : d \in G
<1> DEFINE B == {q \in 0 .. N : q \notin G}
<1>1. SUFFICES ASSUME B # {} PROVE FALSE
  OBVIOUS
<1>2. B \in SUBSET Nat
  OBVIOUS
<1> HIDE DEF B
<1>3. PICK q \in B : \A r \in B : q <= r
  BY <1>1, <1>2, LeastNumber
<1> USE DEF B
<1>4. q \in 1 .. N /\ q - 1 \in 0 .. N - 1 /\ q - 1 \notin B
  BY <1>3
<1> QED BY <1>3, <1>4

LEMMA NonceSize == NONCE_SIZE \in Nat /\ NONCE_SIZE >= 2 /\ BASE \in Nat /\ BASE >= 2
BY WordAssumption, AeadAssumption DEF NONCE_SIZE

\* Adding one to a nonce: the last digit that is not the greatest grows, the
\* digits after it become zero, and a nonce without such a digit becomes zero.
LEMMA IncrementDigits ==
  ASSUME NEW n \in Nonces
  PROVE  /\ Increment(n) \in Nonces
         /\ \A i \in 1 .. NONCE_SIZE :
               (\A j \in 1 .. NONCE_SIZE : j >= i => n[j] = BASE - 1) => Increment(n)[i] = 0
         /\ \A i \in 1 .. NONCE_SIZE :
               (\A j \in 1 .. NONCE_SIZE : j > i => n[j] = BASE - 1) /\ n[i] < BASE - 1
                  => Increment(n)[i] = n[i] + 1
         /\ \A i, p \in 1 .. NONCE_SIZE :
               i < p /\ n[p] < BASE - 1 => Increment(n)[i] = n[i]
<1> USE NonceSize
<1>1. \A i \in 1 .. NONCE_SIZE : n[i] \in 0 .. BASE - 1
  BY DEF Nonces
<1>2. \A i \in 1 .. NONCE_SIZE :
         Increment(n)[i] = IF \A j \in i + 1 .. NONCE_SIZE : n[j] = BASE - 1
                           THEN (n[i] + 1) % BASE ELSE n[i]
  BY DEF Increment, ascon_aead_increment_nonce
<1>3. \A d \in 0 .. BASE - 1 : (d + 1) % BASE \in 0 .. BASE - 1
  OBVIOUS
<1>4. (BASE - 1 + 1) % BASE = 0 /\ \A d \in 0 .. BASE - 2 : (d + 1) % BASE = d + 1
  OBVIOUS
<1>5. Increment(n) \in Nonces
  <2>1. \A i \in 1 .. NONCE_SIZE :
           (IF \A j \in i + 1 .. NONCE_SIZE : n[j] = BASE - 1
            THEN (n[i] + 1) % BASE ELSE n[i]) \in 0 .. BASE - 1
    BY <1>1, <1>3
  <2> QED BY <2>1 DEF Increment, ascon_aead_increment_nonce, Nonces
<1>6. ASSUME NEW i \in 1 .. NONCE_SIZE,
             \A j \in 1 .. NONCE_SIZE : j >= i => n[j] = BASE - 1
      PROVE  Increment(n)[i] = 0
  <2>1. \A j \in i + 1 .. NONCE_SIZE : n[j] = BASE - 1
    BY <1>6
  <2>2. n[i] = BASE - 1
    BY <1>6
  <2> QED BY <1>2, <1>4, <2>1, <2>2
<1>7. ASSUME NEW i \in 1 .. NONCE_SIZE, n[i] < BASE - 1,
             \A j \in 1 .. NONCE_SIZE : j > i => n[j] = BASE - 1
      PROVE  Increment(n)[i] = n[i] + 1
  <2>1. \A j \in i + 1 .. NONCE_SIZE : n[j] = BASE - 1
    BY <1>7
  <2>2. n[i] \in 0 .. BASE - 2
    BY <1>1, <1>7
  <2> QED BY <1>2, <1>4, <2>1, <2>2
<1>8. ASSUME NEW i \in 1 .. NONCE_SIZE, NEW p \in 1 .. NONCE_SIZE, i < p, n[p] < BASE - 1
      PROVE  Increment(n)[i] = n[i]
  <2>1. p \in i + 1 .. NONCE_SIZE /\ n[p] # BASE - 1
    BY <1>1, <1>8
  <2> QED BY <1>2, <2>1
<1> QED BY <1>5, <1>6, <1>7, <1>8

-----------------------------------------------------------------------------
(* Counting reaches every nonce before it comes back to one. *)

Closed(S) == S \in SUBSET Nonces /\ S # {} /\ \A n \in S : Increment(n) \in S

\* After the p-th digit there are only zeroes.
ZeroAfter(n, p) == \A j \in 1 .. NONCE_SIZE : j > p => n[j] = 0
\* The digits up to the p-th are the same.
SameUpTo(n, t, p) == \A i \in 1 .. NONCE_SIZE : i <= p => t[i] = n[i]
\* S holds, with every nonce that is zero after the p-th digit, all nonces that
\* begin as it does.
FullFrom(S, p) ==
  \A m \in S : ZeroAfter(m, p) => \A t \in Nonces : SameUpTo(m, t, p) => t \in S

\* m up to the p-th digit, the greatest digits after it.
Topped(m, p) == [i \in 1 .. NONCE_SIZE |-> IF i <= p THEN m[i] ELSE BASE - 1]

LEMMA ToppedDigits ==
  ASSUME NEW m \in Nonces, NEW p \in Nat
  PROVE  /\ Topped(m, p) \in Nonces
         /\ SameUpTo(m, Topped(m, p), p)
         /\ \A i \in 1 .. NONCE_SIZE : i > p => Topped(m, p)[i] = BASE - 1
<1> USE NonceSize
<1>1. \A i \in 1 .. NONCE_SIZE : m[i] \in 0 .. BASE - 1
  BY DEF Nonces
<1>2. \A i \in 1 .. NONCE_SIZE : (IF i <= p THEN m[i] ELSE BASE - 1) \in 0 .. BASE - 1
  BY <1>1
<1>3. \A i \in 1 .. NONCE_SIZE : Topped(m, p)[i] = IF i <= p THEN m[i] ELSE BASE - 1
  BY DEF Topped
<1>4. Topped(m, p) \in Nonces
  BY <1>2 DEF Topped, Nonces
<1>5. SameUpTo(m, Topped(m, p), p)
  BY <1>3 DEF SameUpTo
<1>6. \A i \in 1 .. NONCE_SIZE : i > p => Topped(m, p)[i] = BASE - 1
  BY <1>3
<1> QED BY <1>4, <1>5, <1>6

\* One more in the p-th digit, zeroes after it.
LEMMA NextDigit ==
  ASSUME NEW S, Closed(S), NEW p \in 1 .. NONCE_SIZE, FullFrom(S, p),
         NEW m \in S, ZeroAfter(m, p), m[p] < BASE - 1
  PROVE  \E n \in S : ZeroAfter(n, p) /\ SameUpTo(m, n, p - 1) /\ n[p] = m[p] + 1
<1> USE NonceSize
<1>1. m \in Nonces /\ p \in Nat
  BY DEF Closed
<1> DEFINE t == Topped(m, p)
<1>2. /\ t \in Nonces /\ SameUpTo(m, t, p)
      /\ \A i \in 1 .. NONCE_SIZE : i > p => t[i] = BASE - 1
  BY <1>1, ToppedDigits
<1> HIDE DEF t
<1>3. t \in S
  BY <1>2 DEF FullFrom
<1>4. Increment(t) \in S
  BY <1>3 DEF Closed
<1>5. t[p] = m[p]
  BY <1>2 DEF SameUpTo
<1>6. Increment(t)[p] = m[p] + 1
  BY <1>2, <1>5, IncrementDigits
<1>7. ZeroAfter(Increment(t), p)
  <2>1. ASSUME NEW j \in 1 .. NONCE_SIZE, j > p PROVE Increment(t)[j] = 0
    <3>1. \A i \in 1 .. NONCE_SIZE : i >= j => t[i] = BASE - 1
      BY <1>2, <2>1
    <3> QED BY <1>2, <3>1, IncrementDigits
  <2> QED BY <2>1 DEF ZeroAfter
<1>8. SameUpTo(m, Increment(t), p - 1)
  <2>1. ASSUME NEW i \in 1 .. NONCE_SIZE, i <= p - 1 PROVE Increment(t)[i] = m[i]
    <3>1. i < p
      BY <2>1
    <3>2. Increment(t)[i] = t[i]
      BY <1>2, <1>5, <3>1, IncrementDigits
    <3>3. t[i] = m[i]
      BY <1>2, <3>1 DEF SameUpTo
    <3> QED BY <3>2, <3>3
  <2> QED BY <2>1 DEF SameUpTo
<1> QED BY <1>4, <1>6, <1>7, <1>8

LEMMA FullOneEarlier ==
  ASSUME NEW S, Closed(S), NEW p \in 1 .. NONCE_SIZE, FullFrom(S, p)
  PROVE  FullFrom(S, p - 1)
<1> USE NonceSize
<1> SUFFICES ASSUME NEW m \in S, ZeroAfter(m, p - 1),
                    NEW t \in Nonces, SameUpTo(m, t, p - 1)
             PROVE  t \in S
  BY DEF FullFrom
<1>1. m \in Nonces /\ p \in Nat
  BY DEF Closed
<1> DEFINE G == {d \in 0 .. BASE - 1 :
                   \E n \in S : ZeroAfter(n, p) /\ SameUpTo(m, n, p - 1) /\ n[p] = d}
<1>2. 0 \in G
  <2>1. m[p] = 0
    BY DEF ZeroAfter
  <2>2. ZeroAfter(m, p)
    BY DEF ZeroAfter
  <2>3. SameUpTo(m, m, p - 1)
    BY DEF SameUpTo
  <2> QED BY <2>1, <2>2, <2>3
<1>3. ASSUME NEW d \in 0 .. BASE - 1 - 1, d \in G PROVE d + 1 \in G
  <2>1. PICK n \in S : ZeroAfter(n, p) /\ SameUpTo(m, n, p - 1) /\ n[p] = d
    BY <1>3
  <2>2. n[p] < BASE - 1 /\ d + 1 \in 0 .. BASE - 1
    BY <2>1
  <2>3. PICK o \in S : ZeroAfter(o, p) /\ SameUpTo(n, o, p - 1) /\ o[p] = n[p] + 1
    BY <2>1, <2>2, NextDigit
  <2>4. SameUpTo(m, o, p - 1)
    BY <2>1, <2>3 DEF SameUpTo
  <2> QED BY <2>1, <2>2, <2>3, <2>4
<1>4. G \in SUBSET (0 .. BASE - 1) /\ BASE - 1 \in Nat
  OBVIOUS
<1> HIDE DEF G
<1>5. \A d \in 0 .. BASE - 1 : d \in G
  BY <1>2, <1>3, <1>4, Upwards
<1>6. t[p] \in G
  BY <1>5 DEF Nonces
<1> USE DEF G
<1>7. PICK n \in S : ZeroAfter(n, p) /\ SameUpTo(m, n, p - 1) /\ n[p] = t[p]
  BY <1>6
<1>8. SameUpTo(n, t, p)
  BY <1>7 DEF SameUpTo
<1> QED BY <1>7, <1>8 DEF FullFrom

LEMMA FullEverywhere ==
  ASSUME NEW S, Closed(S)
  PROVE  \A p \in 0 .. NONCE_SIZE : FullFrom(S, p)
<1> USE NonceSize
<1> DEFINE G == {p \in 0 .. NONCE_SIZE : FullFrom(S, p)}
<1>1. NONCE_SIZE \in G
  <2>1. ASSUME NEW m \in S, NEW t \in Nonces, SameUpTo(m, t, NONCE_SIZE) PROVE t \in S
    <3>1. m \in Nonces
      BY DEF Closed
    <3>2. \A i \in 1 .. NONCE_SIZE : t[i] = m[i]
      BY <2>1 DEF SameUpTo
    <3>3. t = m
      BY <3>1, <3>2 DEF Nonces
    <3> QED BY <3>3
  <2>2. FullFrom(S, NONCE_SIZE)
    BY <2>1 DEF FullFrom
  <2> QED BY <2>2
<1>2. \A p \in 1 .. NONCE_SIZE : p \in G => p - 1 \in G
  BY FullOneEarlier
<1>3. G \in SUBSET (0 .. NONCE_SIZE)
  OBVIOUS
<1> HIDE DEF G
<1>4. \A p \in 0 .. NONCE_SIZE : p \in G
  BY <1>1, <1>2, <1>3, Downwards
<1> QED BY <1>4 DEF G

\* With the p-th digit at its greatest the next carry makes it zero.
LEMMA ZeroOneEarlier ==
  ASSUME NEW S, Closed(S), NEW p \in 1 .. NONCE_SIZE, \E m \in S : ZeroAfter(m, p)
  PROVE  \E m \in S : ZeroAfter(m, p - 1)
<1> USE NonceSize
<1>1. FullFrom(S, p) /\ p \in Nat
  BY FullEverywhere
<1> DEFINE B == {BASE - 1 - m[p] : m \in {n \in S : ZeroAfter(n, p)}}
<1>2. \A m \in S : m \in Nonces /\ m[p] \in 0 .. BASE - 1
  BY DEF Closed, Nonces
<1>3. B \in SUBSET Nat /\ B # {}
  BY <1>2
<1>4. PICK b \in B : \A c \in B : b <= c
  <2> HIDE DEF B
  <2> QED BY <1>3, LeastNumber
<1>5. PICK m \in S : ZeroAfter(m, p) /\ b = BASE - 1 - m[p]
  OBVIOUS
<1>6. m[p] = BASE - 1
  <2>1. SUFFICES ASSUME m[p] < BASE - 1 PROVE FALSE
    BY <1>2
  <2>2. PICK n \in S : ZeroAfter(n, p) /\ SameUpTo(m, n, p - 1) /\ n[p] = m[p] + 1
    BY <1>1, <1>5, <2>1, NextDigit
  <2>3. BASE - 1 - n[p] \in B
    BY <2>2
  <2>4. BASE - 1 - n[p] < b
    BY <1>2, <1>5, <2>2
  <2>5. b \in Nat /\ BASE - 1 - n[p] \in Nat
    BY <1>3, <2>3
  <2> HIDE DEF B
  <2> QED BY <1>4, <2>3, <2>4, <2>5
<1> DEFINE t == Topped(m, p)
<1>7. /\ t \in Nonces /\ SameUpTo(m, t, p)
      /\ \A i \in 1 .. NONCE_SIZE : i > p => t[i] = BASE - 1
  BY <1>1, <1>2, ToppedDigits
<1> HIDE DEF t, B
<1>8. Increment(t) \in S
  BY <1>1, <1>5, <1>7 DEF FullFrom, Closed
<1>9. \A i \in 1 .. NONCE_SIZE : i >= p => t[i] = BASE - 1
  BY <1>6, <1>7 DEF SameUpTo
<1>10. ZeroAfter(Increment(t), p - 1)
  <2>1. ASSUME NEW j \in 1 .. NONCE_SIZE, j > p - 1 PROVE Increment(t)[j] = 0
    <3>1. \A i \in 1 .. NONCE_SIZE : i >= j => t[i] = BASE - 1
      BY <1>9, <2>1
    <3> QED BY <1>7, <3>1, IncrementDigits
  <2> QED BY <2>1 DEF ZeroAfter
<1> QED BY <1>8, <1>10

\* A set of nonces that contains the successor of each of its members contains
\* all nonces.
LEMMA ClosedIsAll ==
  ASSUME NEW S, Closed(S)
  PROVE  S = Nonces
<1> USE NonceSize
<1> DEFINE G == {p \in 0 .. NONCE_SIZE : \E m \in S : ZeroAfter(m, p)}
<1>1. NONCE_SIZE \in G
  BY DEF ZeroAfter, Closed
<1>2. \A p \in 1 .. NONCE_SIZE : p \in G => p - 1 \in G
  BY ZeroOneEarlier
<1>3. G \in SUBSET (0 .. NONCE_SIZE)
  OBVIOUS
<1> HIDE DEF G
<1>4. 0 \in G
  BY <1>1, <1>2, <1>3, Downwards
<1>5. PICK m \in S : ZeroAfter(m, 0)
  BY <1>4 DEF G
<1>6. FullFrom(S, 0)
  BY FullEverywhere
<1>7. ASSUME NEW t \in Nonces PROVE t \in S
  <2>1. SameUpTo(m, t, 0)
    BY DEF SameUpTo
  <2> QED BY <1>5, <1>6, <2>1 DEF FullFrom
<1>8. S \in SUBSET Nonces
  BY DEF Closed
<1> QED BY <1>7, <1>8

\* Nonces that follow one another differ as long as there are no more of them
\* than there are nonces.
LEMMA ChainDiffers ==
  ASSUME NEW s, NEW n \in Nat, n <= Cardinality(Nonces),
         \A k \in 1 .. n : s[k] \in Nonces,
         \A k \in 1 .. n - 1 : s[k + 1] = Increment(s[k]),
         NEW i \in 1 .. n, NEW j \in 1 .. n, i < j
  PROVE  s[i] # s[j]
<1> SUFFICES ASSUME s[i] = s[j] PROVE FALSE
  OBVIOUS
<1> DEFINE T == i .. j - 1
           f == [k \in T |-> s[k]]
           S == {s[k] : k \in T}
<1>1. Closed(S)
  <2>1. S \in SUBSET Nonces /\ S # {}
    <3>1. i \in T /\ T \in SUBSET (1 .. n)
      OBVIOUS
    <3> QED BY <3>1
  <2>2. ASSUME NEW k \in T PROVE Increment(s[k]) \in S
    <3>1. k \in 1 .. n - 1 /\ s[k + 1] = Increment(s[k])
      OBVIOUS
    <3>2. CASE k + 1 \in T
      BY <3>1, <3>2
    <3>3. CASE k + 1 = j
      <4>1. Increment(s[k]) = s[i] /\ i \in T
        BY <3>1, <3>3
      <4> QED BY <4>1
    <3> QED BY <3>2, <3>3
  <2> QED BY <2>1, <2>2 DEF Closed
<1> HIDE DEF S
<1>2. S = Nonces
  BY <1>1, ClosedIsAll
<1>3. IsFiniteSet(T) /\ Cardinality(T) = j - i
  <2>1. i \in Int /\ j - 1 \in Int /\ ~(i > j - 1) /\ j - 1 - i + 1 = j - i
    OBVIOUS
  <2> QED BY <2>1, FS_Interval
<1> HIDE DEF T
<1>4. f \in Surjection(T, S)
  BY DEF S, Surjection
<1> HIDE DEF f
<1>5. IsFiniteSet(S) /\ Cardinality(S) <= Cardinality(T)
  BY <1>3, <1>4, FS_Surjection
<1>6. Cardinality(S) \in Nat
  BY <1>5, FS_CardinalityType
<1> QED BY <1>2, <1>3, <1>5, <1>6

-----------------------------------------------------------------------------
(* The nonces of the packets, as a list that grows.                        *)

\* The nonces s follow one another, next is to be used next.
Counted(s, next, bound) ==
  /\ s \in Seq(Nonces) /\ Len(s) <= bound /\ next \in Nonces
  /\ \A k \in 1 .. Len(s) - 1 : s[k + 1] = Increment(s[k])
  /\ Len(s) > 0 => next = Increment(s[Len(s)])

LEMMA CountedFirst ==
  ASSUME NEW next \in Nonces, NEW bound \in Nat
  PROVE  Counted(<<>>, next, bound)
BY EmptySeq DEF Counted

LEMMA CountedNext ==
  ASSUME NEW s, NEW next, NEW bound \in Nat, Counted(s, next, bound), Len(s) < bound
  PROVE  Counted(Append(s, next), Increment(next), bound)
<1> DEFINE t == Append(s, next)
<1>1. s \in Seq(Nonces) /\ next \in Nonces /\ Len(s) \in Nat
  BY LenProperties DEF Counted
<1>2. /\ t \in Seq(Nonces) /\ Len(t) = Len(s) + 1
      /\ \A i \in 1 .. Len(s) : t[i] = s[i]
      /\ t[Len(s) + 1] = next
  BY <1>1, AppendProperties
<1> HIDE DEF t
<1>3. Increment(next) \in Nonces
  BY <1>1, IncrementDigits
<1>4. ASSUME NEW k \in 1 .. Len(t) - 1 PROVE t[k + 1] = Increment(t[k])
  <2>1. k \in 1 .. Len(s) /\ t[k] = s[k]
    BY <1>1, <1>2
  <2>2. CASE k < Len(s)
    <3>1. k \in 1 .. Len(s) - 1 /\ k + 1 \in 1 .. Len(s)
      BY <1>1, <2>1, <2>2
    <3>2. t[k + 1] = s[k + 1] /\ s[k + 1] = Increment(s[k])
      BY <1>2, <3>1 DEF Counted
    <3> QED BY <2>1, <3>2
  <2>3. CASE k = Len(s)
    <3>1. next = Increment(s[k]) /\ t[k + 1] = next
      BY <1>1, <1>2, <2>1, <2>3 DEF Counted
    <3> QED BY <2>1, <3>1
  <2> QED BY <1>1, <2>1, <2>2, <2>3
<1>5. Len(t) <= bound /\ t[Len(t)] = next
  BY <1>1, <1>2
<1>6. Counted(t, Increment(next), bound)
  BY <1>2, <1>3, <1>4, <1>5 DEF Counted
<1> QED BY <1>6 DEF t

\* There are finitely many nonces: each is the set of its pairs <<place, digit>>.
LEMMA FiniteNonces == IsFiniteSet(Nonces)
<1> USE NonceSize
<1> DEFINE P == (1 .. NONCE_SIZE) \X (0 .. BASE - 1)
           f == [n \in Nonces |-> {<<i, n[i]>> : i \in 1 .. NONCE_SIZE}]
<1>1. IsFiniteSet(SUBSET P)
  <2>1. IsFiniteSet(1 .. NONCE_SIZE) /\ IsFiniteSet(0 .. BASE - 1)
    BY FS_Interval
  <2>2. IsFiniteSet(P)
    BY <2>1, FS_Product
  <2> QED BY <2>2, FS_SUBSET
<1>2. f \in [Nonces -> SUBSET P]
  BY DEF Nonces
<1>3. ASSUME NEW n \in Nonces, NEW m \in Nonces, f[n] = f[m] PROVE n = m
  <2>1. ASSUME NEW i \in 1 .. NONCE_SIZE PROVE n[i] = m[i]
    <3>1. <<i, n[i]>> \in f[n]
      OBVIOUS
    <3>2. <<i, n[i]>> \in f[m]
      BY <1>3, <3>1
    <3>3. PICK j \in 1 .. NONCE_SIZE : <<i, n[i]>> = <<j, m[j]>>
      BY <3>2
    <3> QED BY <3>3
  <2> QED BY <2>1 DEF Nonces
<1> HIDE DEF f, P
<1>4. f \in Injection(Nonces, SUBSET P)
  BY <1>2, <1>3 DEF Injection, IsInjective
<1> QED BY <1>1, <1>4, FS_Injection

LEMMA CountedDiffers ==
  ASSUME NEW s, NEW next, NEW bound \in Nat, Counted(s, next, bound),
         bound <= Cardinality(Nonces)
  PROVE  \A i, j \in DOMAIN s : i # j => s[i] # s[j]
<1>1. s \in Seq(Nonces) /\ Len(s) \in Nat /\ DOMAIN s = 1 .. Len(s)
  BY LenProperties DEF Counted
<1>2. \A k \in 1 .. Len(s) : s[k] \in Nonces
  BY <1>1, ElementOfSeq
<1>3. Len(s) <= Cardinality(Nonces)
  BY <1>1, FiniteNonces, FS_CardinalityType DEF Counted
<1>4. \A k \in 1 .. Len(s) - 1 : s[k + 1] = Increment(s[k])
  BY DEF Counted
<1>5. ASSUME NEW i \in 1 .. Len(s), NEW j \in 1 .. Len(s), i < j PROVE s[i] # s[j]
  BY <1>1, <1>2, <1>3, <1>4, <1>5, ChainDiffers
<1>6. ASSUME NEW i \in 1 .. Len(s), NEW j \in 1 .. Len(s), i # j PROVE s[i] # s[j]
  <2>1. CASE i < j
    BY <1>5, <2>1
  <2>2. CASE j < i
    BY <1>5, <2>2
  <2>3. i \in Nat /\ j \in Nat
    BY <1>1
  <2> QED BY <1>6, <2>1, <2>2, <2>3
<1> QED BY <1>1, <1>6

-----------------------------------------------------------------------------
(* The inductive invariant: what a program has used and will use next.     *)

NoncesOf(packets) == [k \in 1 .. Len(packets) |-> packets[k].nonce]
IsObject(x) == "nonce" \in DOMAIN x
IsSession(x, cls) == IsObject(x) /\ "cls" \in DOMAIN x /\ x.cls = cls

PiecesInv ==
  \/ alg = "none" /\ nonces = <<>>
  \/ /\ alg \in {"128", "128a", "80pq"} /\ IsObject(enc)
     /\ Counted(nonces, enc.nonce, MaxStarts)

SessionsInv ==
  \/ profile = <<>> /\ sent = <<>>
  \/ /\ profile \in Profiles /\ IsObject(snd)
     /\ IsSession(rcv, profile.receive)
     /\ Len(sent) \in Nat /\ sent = [k \in 1 .. Len(sent) |-> sent[k]]
     /\ Counted(NoncesOf(sent), snd.nonce, profile.packets)

CipherInv == PiecesInv /\ SessionsInv /\ RefusedLeavesNothing

-----------------------------------------------------------------------------
(* What the operations do to objects and sessions.                         *)

LEMMA CounterIsNonce == ascon_aead_set_counter(0) \in Nonces
<1> USE NonceSize
<1>1. \A i \in 1 .. NONCE_SIZE :
         (IF i <= WORD THEN 0 ELSE (0 \div BASE ^ (NONCE_SIZE - i)) % BASE) \in 0 .. BASE - 1
  OBVIOUS
<1> QED BY <1>1 DEF ascon_aead_set_counter, Nonces

LEMMA PiecesBegin ==
  ASSUME NEW a \in {"128", "128a", "80pq"}, NEW npub \in Nonces \cup {<<>>}, NEW k
  PROVE  LET x == aead_init(a, npub, k) IN IsObject(x) /\ x.nonce \in Nonces
<1>1. NonceOrZero(npub) \in Nonces
  BY CounterIsNonce DEF NonceOrZero
<1>2. ASSUME NEW v PROVE LET x == Reinit(v, Unset(v), npub, k)
                         IN  IsObject(x) /\ x.nonce = NonceOrZero(npub)
  BY DEF Reinit, Unset, IsObject
<1>3. aead_init(a, npub, k) \in
         {Reinit(v, Unset(v), npub, k) : v \in {Ascon128, Ascon128a, Ascon80pq}}
  BY DEF aead_init, ascon128_aead_init, ascon128a_aead_init, ascon80pq_aead_init,
         ascon128_aead_reinit, ascon128a_aead_reinit, ascon80pq_aead_reinit
<1> QED BY <1>1, <1>2, <1>3

LEMMA PiecesStart ==
  ASSUME NEW a \in {"128", "128a", "80pq"}, NEW x, IsObject(x), NEW ad
  PROVE  LET y == aead_start(a, x, ad) IN IsObject(y) /\ y.nonce = Increment(x.nonce)
<1>1. ASSUME NEW v PROVE LET y == Started(v, x, ad)
                         IN  IsObject(y) /\ y.nonce = Increment(x.nonce)
  BY DEF Started, IsObject, Increment
<1>2. aead_start(a, x, ad) \in {Started(v, x, ad) : v \in {Ascon128, Ascon128a, Ascon80pq}}
  BY DEF aead_start, ascon128_aead_start, ascon128a_aead_start, ascon80pq_aead_start
<1> QED BY <1>1, <1>2

LEMMA PiecesGoOn ==
  ASSUME NEW a \in {"128", "128a", "80pq"}, NEW x, IsObject(x), NEW in
  PROVE  /\ LET y == aead_encrypt_block(a, x, in).obj IN IsObject(y) /\ y.nonce = x.nonce
         /\ LET y == aead_encrypt_finalize(a, x).obj IN IsObject(y) /\ y.nonce = x.nonce
<1>1. ASSUME NEW r PROVE LET y == Pieced(x, r).obj IN IsObject(y) /\ y.nonce = x.nonce
  BY DEF Pieced, IsObject
<1>2. ASSUME NEW s PROVE LET y == EncryptFinalized(x, s).obj
                         IN  IsObject(y) /\ y.nonce = x.nonce
  BY DEF EncryptFinalized, IsObject
<1>3. \E r : aead_encrypt_block(a, x, in) = Pieced(x, r)
  BY DEF aead_encrypt_block, ascon128_aead_encrypt_block, ascon128a_aead_encrypt_block,
         ascon80pq_aead_encrypt_block
<1>4. \E s : aead_encrypt_finalize(a, x) = EncryptFinalized(x, s)
  BY DEF aead_encrypt_finalize, ascon128_aead_encrypt_finalize,
         ascon128a_aead_encrypt_finalize, ascon80pq_aead_encrypt_finalize, EncryptFinalize
<1> QED BY <1>1, <1>2, <1>3, <1>4

LEMMA SessionSetUp ==
  ASSUME NEW cls \in Classes, NEW way \in Ways
  PROVE  IsSession(SetUp(cls, way), cls)
<1>1. IsSession(New(cls), cls)
  BY DEF New, IsSession, IsObject
<1>2. ASSUME NEW key PROVE IsSession(NewWithKey(cls, key), cls)
  BY <1>1 DEF NewWithKey, IsSession, IsObject
<1>3. ASSUME NEW x, IsSession(x, cls), NEW key PROVE IsSession(set_key(x, key), cls)
  <2>1. ASSUME NEW k PROVE IsSession([x EXCEPT !.key = k], cls)
    BY <1>3 DEF IsSession, IsObject
  <2>2. set_key(x, key) = x \/ \E k : set_key(x, key) = [x EXCEPT !.key = k]
    BY DEF set_key
  <2> QED BY <1>3, <2>1, <2>2
<1>4. ASSUME NEW x, IsSession(x, cls) PROVE IsSession(clear(x), cls)
  BY <1>1, <1>4 DEF clear, IsSession
<1>5. CASE way = "ctor"
  BY <1>2, <1>5 DEF SetUp
<1>6. CASE way = "set_key"
  BY <1>1, <1>3, <1>6 DEF SetUp
<1>7. CASE way = "saved"
  BY <1>1, <1>3, <1>7 DEF SetUp
<1>8. CASE way = "cleared"
  BY <1>2, <1>3, <1>4, <1>8 DEF SetUp
<1>9. CASE way = "none"
  BY <1>1, <1>9 DEF SetUp
<1>10. CASE way = "zero"
  BY <1>2, <1>3, <1>10 DEF SetUp
<1> QED BY <1>5, <1>6, <1>7, <1>8, <1>9, <1>10 DEF Ways

LEMMA SessionNonce ==
  ASSUME NEW x, NEW cls, IsSession(x, cls), NEW nonce \in Seq(0 .. BASE - 1)
  PROVE  LET y == set_nonce(x, nonce) IN IsSession(y, cls) /\ y.nonce \in Nonces
<1> USE NonceSize
<1> DEFINE digits == [i \in 1 .. NONCE_SIZE |->
                        IF Len(nonce) >= NONCE_SIZE THEN nonce[i]
                        ELSE IF i <= NONCE_SIZE - Len(nonce) THEN 0
                        ELSE nonce[i - (NONCE_SIZE - Len(nonce))]]
<1>1. Len(nonce) \in Nat /\ \A i \in 1 .. Len(nonce) : nonce[i] \in 0 .. BASE - 1
  BY LenProperties, ElementOfSeq
<1>2. ASSUME NEW i \in 1 .. NONCE_SIZE PROVE digits[i] \in 0 .. BASE - 1
  <2>1. CASE Len(nonce) >= NONCE_SIZE
    BY <1>1, <2>1
  <2>2. CASE ~(Len(nonce) >= NONCE_SIZE) /\ i <= NONCE_SIZE - Len(nonce)
    BY <1>1, <2>2
  <2>3. CASE ~(Len(nonce) >= NONCE_SIZE) /\ ~(i <= NONCE_SIZE - Len(nonce))
    <3>1. i - (NONCE_SIZE - Len(nonce)) \in 1 .. Len(nonce)
      BY <1>1, <2>3
    <3> QED BY <1>1, <2>3, <3>1
  <2> QED BY <2>1, <2>2, <2>3
<1>3. digits \in Nonces
  BY <1>2 DEF Nonces
<1>4. set_nonce(x, nonce) = [x EXCEPT !.nonce = digits]
  BY DEF set_nonce
<1> HIDE DEF digits
<1> QED BY <1>3, <1>4 DEF IsSession, IsObject

-----------------------------------------------------------------------------
(* What decryption returns.                                                *)

\* The result and the buffer of a call: a refusal leaves zeroes.
Clean(r) == \E n, m : /\ r = [result |-> n, m |-> m]
                      /\ n < 0 => \A i \in DOMAIN m : m[i] = {}

LEMMA CleanRecord ==
  ASSUME NEW n, NEW m, n < 0 => \A i \in DOMAIN m : m[i] = {}
  PROVE  Clean([result |-> n, m |-> m])
<1> DEFINE r == [result |-> n, m |-> m]
<1>1. r = [result |-> n, m |-> m] /\ (n < 0 => \A i \in DOMAIN m : m[i] = {})
  OBVIOUS
<1> QED BY ONLY <1>1, Zenon DEF Clean

LEMMA CheckedIsClean ==
  /\ \A m, t1, t2 : Clean(ascon_aead_check_tag(m, t1, t2))
  /\ Clean(Refused)
<1>1. \A n : \A i \in DOMAIN Zeroes(n) : Zeroes(n)[i] = {}
  BY DEF Zeroes
<1>2. ASSUME NEW m, NEW t1, NEW t2 PROVE Clean(ascon_aead_check_tag(m, t1, t2))
  <2>1. CASE t1 = t2
    <3>1. ~(0 < 0)
      OBVIOUS
    <3>2. Clean([result |-> 0, m |-> m])
      BY <3>1, CleanRecord
    <3> QED BY <2>1, <3>2 DEF ascon_aead_check_tag
  <2>2. CASE t1 # t2
    <3>1. Clean([result |-> -1, m |-> Zeroes(Len(m))])
      BY <1>1, CleanRecord
    <3> QED BY <2>2, <3>1 DEF ascon_aead_check_tag
  <2> QED BY <2>1, <2>2
<1>3. Clean(Refused)
  <2>1. \A i \in DOMAIN <<>> : <<>>[i] = {}
    OBVIOUS
  <2>2. Clean([result |-> -1, m |-> <<>>])
    BY <2>1, CleanRecord
  <2> QED BY <2>2 DEF Refused
<1> QED BY <1>2, <1>3

\* The modes have copies of the function that compares the tags.
LEMMA ModesCheckAlike ==
  /\ \A m, t1, t2 : /\ Siv!ascon_aead_check_tag(m, t1, t2) = ascon_aead_check_tag(m, t1, t2)
                    /\ Isap!ascon_aead_check_tag(m, t1, t2) = ascon_aead_check_tag(m, t1, t2)
                    /\ Masked!ascon_aead_check_tag(m, t1, t2) = ascon_aead_check_tag(m, t1, t2)
  /\ Siv!Refused = Refused /\ Isap!Refused = Refused /\ Masked!Refused = Refused
BY DEF ascon_aead_check_tag, Siv!ascon_aead_check_tag, Isap!ascon_aead_check_tag,
       Masked!ascon_aead_check_tag, Zeroes, Siv!Zeroes, Isap!Zeroes, Masked!Zeroes,
       Refused, Siv!Refused, Isap!Refused, Masked!Refused

LEMMA PlainIsClean ==
  ASSUME NEW a \in {"128", "128a", "80pq"}, NEW c, NEW ad, NEW npub, NEW k
  PROVE  Clean(aead_decrypt(a, c, ad, npub, k))
<1>1. ASSUME NEW v PROVE Clean(Decrypt(v, c, ad, npub, k))
  <2>1. Decrypt(v, c, ad, npub, k) = Refused
        \/ \E m, t1, t2 : Decrypt(v, c, ad, npub, k) = ascon_aead_check_tag(m, t1, t2)
    BY DEF Decrypt, CheckedPacket
  <2> QED BY <2>1, CheckedIsClean
<1>2. \E v : aead_decrypt(a, c, ad, npub, k) = Decrypt(v, c, ad, npub, k)
  BY DEF aead_decrypt, ascon128_aead_decrypt, ascon128a_aead_decrypt, ascon80pq_aead_decrypt
<1> QED BY <1>1, <1>2

LEMMA SivIsClean ==
  ASSUME NEW a \in {"128", "128a", "80pq"}, NEW c, NEW ad, NEW npub, NEW k
  PROVE  Clean(Siv!siv_decrypt(a, c, ad, npub, k))
<1>1. ASSUME NEW v PROVE Clean(Siv!SivDecrypt(v, c, ad, npub, k))
  <2>1. Siv!SivDecrypt(v, c, ad, npub, k) = Siv!Refused
        \/ \E m, t1, t2 :
              Siv!SivDecrypt(v, c, ad, npub, k) = Siv!ascon_aead_check_tag(m, t1, t2)
    BY DEF Siv!SivDecrypt, Siv!SivChecked
  <2> QED BY <2>1, CheckedIsClean, ModesCheckAlike
<1>2. \E v : Siv!siv_decrypt(a, c, ad, npub, k) = Siv!SivDecrypt(v, c, ad, npub, k)
  BY DEF Siv!siv_decrypt, Siv!ascon128_siv_decrypt, Siv!ascon128a_siv_decrypt,
         Siv!ascon80pq_siv_decrypt
<1> QED BY <1>1, <1>2

LEMMA IsapIsClean ==
  ASSUME NEW v, NEW c, NEW ad, NEW npub, NEW k
  PROVE  Clean(Isap!isap_aead_decrypt(v, c, ad, npub, k))
<1>1. Isap!isap_aead_decrypt(v, c, ad, npub, k) = Isap!Refused
      \/ \E m, t1, t2 :
            Isap!isap_aead_decrypt(v, c, ad, npub, k) = Isap!ascon_aead_check_tag(m, t1, t2)
  BY DEF Isap!isap_aead_decrypt
<1> QED BY <1>1, CheckedIsClean, ModesCheckAlike

LEMMA MaskedIsClean ==
  ASSUME NEW a \in {"128", "128a", "80pq"}, NEW shares, NEW c, NEW ad, NEW npub, NEW k
  PROVE  Clean(Masked!masked_aead_decrypt(a, shares, c, ad, npub, k))
<1>1. ASSUME NEW v PROVE Clean(Masked!MaskedDecrypt(v, shares, c, ad, npub, k))
  <2>1. Masked!MaskedDecrypt(v, shares, c, ad, npub, k) = Masked!Refused
        \/ \E m, t1, t2 : Masked!MaskedDecrypt(v, shares, c, ad, npub, k) =
                              Masked!ascon_aead_check_tag(m, t1, t2)
    BY DEF Masked!MaskedDecrypt, Masked!MaskedChecked
  <2> QED BY <2>1, CheckedIsClean, ModesCheckAlike
<1>2. \E v : Masked!masked_aead_decrypt(a, shares, c, ad, npub, k) =
                Masked!MaskedDecrypt(v, shares, c, ad, npub, k)
  BY DEF Masked!masked_aead_decrypt, Masked!ascon128_masked_aead_decrypt,
         Masked!ascon128a_masked_aead_decrypt, Masked!ascon80pq_masked_aead_decrypt
<1> QED BY <1>1, <1>2

\* A class that is not ISAP's has one of the three algorithms.
LEMMA ClassAlgorithm ==
  ASSUME NEW cls \in Classes
  PROVE  cls.lib = "isap" \/ cls.alg.alg \in {"128", "128a", "80pq"}
<1>1. Ascon128.alg = "128" /\ Ascon128a.alg = "128a" /\ Ascon80pq.alg = "80pq"
  BY DEF Ascon128, Ascon128a, Ascon80pq
<1>2. \A lib, record, key, copied : /\ Class(lib, record, key, copied).lib = lib
                                    /\ Class(lib, record, key, copied).alg = record
  BY DEF Class
<1>3. cls \in {isap128, isap128a, isap80pq} => cls.lib = "isap"
  BY <1>2 DEF isap128, isap128a, isap80pq
<1>4. cls \in {aead128, siv128, aead128_masked} => cls.alg = Ascon128
  BY <1>2 DEF aead128, siv128, aead128_masked
<1>5. cls \in {aead128a, siv128a, aead128a_masked} => cls.alg = Ascon128a
  BY <1>2 DEF aead128a, siv128a, aead128a_masked
<1>6. cls \in {aead80pq, siv80pq, aead80pq_masked} => cls.alg = Ascon80pq
  BY <1>2 DEF aead80pq, siv80pq, aead80pq_masked
<1> QED BY <1>1, <1>3, <1>4, <1>5, <1>6 DEF Classes

LEMMA DecryptedIsClean ==
  ASSUME NEW cls \in Classes, NEW x, IsSession(x, cls), NEW shares, NEW c, NEW ad
  PROVE  Clean(Decrypted(x, shares, c, ad))
<1>1. x.cls \in Classes
  BY DEF IsSession
<1>2. x.cls.lib = "isap" \/ x.cls.alg.alg \in {"128", "128a", "80pq"}
  BY <1>1, ClassAlgorithm
<1>3. CASE x.cls.lib = "isap"
  BY <1>3, IsapIsClean DEF Decrypted
<1>4. CASE x.cls.lib = "aead"
  BY <1>2, <1>4, PlainIsClean DEF Decrypted
<1>5. CASE x.cls.lib = "siv"
  BY <1>2, <1>5, SivIsClean DEF Decrypted
<1>6. CASE x.cls.lib \notin {"isap", "aead", "siv"}
  BY <1>2, <1>6, MaskedIsClean DEF Decrypted
<1> QED BY <1>3, <1>4, <1>5, <1>6

-----------------------------------------------------------------------------
(* The invariant holds at first and is kept by every action.               *)

\* The nonces of the packets after one more.
LEMMA NoncesOfMore ==
  ASSUME NEW s, s = [k \in 1 .. Len(s) |-> s[k]], Len(s) \in Nat, NEW e
  PROVE  LET t == Append(s, e)
         IN  /\ t = [k \in 1 .. Len(t) |-> t[k]]
             /\ Len(t) = Len(s) + 1
             /\ NoncesOf(t) = Append(NoncesOf(s), e.nonce)
<1> DEFINE S == {s[k] : k \in 1 .. Len(s)} \cup {e}
           t == Append(s, e)
           n == NoncesOf(s)
           N == {n[k] : k \in 1 .. Len(s)} \cup {e.nonce}
<1>1. s \in Seq(S)
  <2>1. s \in [1 .. Len(s) -> S]
    OBVIOUS
  <2> HIDE DEF S
  <2> QED BY <2>1
<1>2. e \in S
  OBVIOUS
<1>3. /\ t \in Seq(S) /\ Len(t) = Len(s) + 1
      /\ \A i \in 1 .. Len(s) : t[i] = s[i]
      /\ t[Len(s) + 1] = e
  <2> HIDE DEF S
  <2> QED BY <1>1, <1>2, AppendProperties
<1>4. t = [k \in 1 .. Len(t) |-> t[k]]
  <2> HIDE DEF S, t
  <2>1. DOMAIN t = 1 .. Len(t) /\ t \in [1 .. Len(t) -> S]
    BY <1>3, LenProperties
  <2> QED BY <2>1
<1>5. n = [k \in 1 .. Len(s) |-> n[k]] /\ \A k \in 1 .. Len(s) : n[k] = s[k].nonce
  BY DEF NoncesOf
<1>6. IsSequence(n) /\ Len(n) = Len(s)
  <2> HIDE DEF n
  <2> QED BY <1>5, FunctionSequence
<1>7. n \in Seq(N)
  <2>1. n \in [1 .. Len(s) -> N]
    BY DEF NoncesOf
  <2> HIDE DEF N, n
  <2> QED BY <2>1
<1>8. e.nonce \in N
  OBVIOUS
<1> DEFINE o == Append(n, e.nonce)
<1>9. /\ o \in Seq(N) /\ Len(o) = Len(s) + 1
      /\ \A i \in 1 .. Len(s) : o[i] = n[i]
      /\ o[Len(s) + 1] = e.nonce
  <2> HIDE DEF N, n
  <2> QED BY <1>6, <1>7, <1>8, AppendProperties
<1>10. NoncesOf(t) = o
  <2> HIDE DEF S, N, n, t, o
  <2>1. DOMAIN o = 1 .. Len(s) + 1
    BY <1>9, LenProperties
  <2>2. o = [k \in 1 .. Len(s) + 1 |-> o[k]]
    BY <1>9, <2>1
  <2>3. NoncesOf(t) = [k \in 1 .. Len(s) + 1 |-> t[k].nonce]
    BY <1>3 DEF NoncesOf
  <2>4. ASSUME NEW k \in 1 .. Len(s) + 1 PROVE o[k] = t[k].nonce
    BY <1>3, <1>5, <1>9, <2>4
  <2> QED BY <2>2, <2>3, <2>4
<1> QED BY <1>3, <1>4, <1>10

LEMMA NoncesLength ==
  ASSUME NEW s, Len(s) \in Nat
  PROVE  Len(NoncesOf(s)) = Len(s)
<1> DEFINE n == NoncesOf(s)
<1>1. n = [k \in 1 .. Len(s) |-> n[k]]
  BY DEF NoncesOf
<1> HIDE DEF n
<1>2. Len(n) = Len(s)
  BY <1>1, FunctionSequence
<1> QED BY <1>2 DEF n

LEMMA CipherInvInit == CiphersInit => CipherInv
<1> SUFFICES ASSUME CiphersInit PROVE CipherInv
  OBVIOUS
<1>1. RefusedLeavesNothing
  BY DEF CiphersInit, SessionsIdle, SessionsInit, NoPacket, RefusedLeavesNothing
<1>2. PiecesInv
  <2>1. CASE PiecesIdle
    BY <2>1 DEF PiecesIdle, PiecesInv
  <2>2. CASE PiecesInit
    <3>1. alg \in {"128", "128a", "80pq"} /\ nonces = <<>> /\ MaxStarts \in Nat
      BY <2>2, CiphersAssumption DEF PiecesInit
    <3>2. PICK npub \in StartNonces \cup {<<>>}, k \in {PieceKey, <<>>} :
             enc = aead_init(alg, npub, k)
      BY <2>2 DEF PiecesInit
    <3>3. npub \in Nonces \cup {<<>>}
      BY <3>2, CiphersAssumption
    <3>4. IsObject(enc) /\ enc.nonce \in Nonces
      BY <3>1, <3>2, <3>3, PiecesBegin
    <3>5. Counted(nonces, enc.nonce, MaxStarts)
      BY <3>1, <3>4, CountedFirst
    <3> QED BY <3>1, <3>4, <3>5 DEF PiecesInv
  <2> QED BY <2>1, <2>2 DEF CiphersInit
<1>3. SessionsInv
  <2>1. CASE SessionsIdle
    BY <2>1 DEF SessionsIdle, SessionsInv
  <2>2. CASE SessionsInit
    <3>1. PICK p \in Profiles :
             /\ profile = p /\ sent = <<>>
             /\ snd = set_nonce(SetUp(p.send, p.sender), p.nonce)
             /\ rcv = set_nonce(SetUp(p.receive, p.receiver), p.nonce)
      BY <2>2 DEF SessionsInit
    <3>2. /\ p.send \in Classes /\ p.receive \in Classes
          /\ p.sender \in Ways /\ p.receiver \in Ways
          /\ p.nonce \in Seq(0 .. BASE - 1) /\ p.packets \in Nat
      BY CiphersAssumption
    <3>3. IsSession(snd, p.send) /\ snd.nonce \in Nonces
      BY <3>1, <3>2, SessionSetUp, SessionNonce
    <3>4. IsSession(rcv, p.receive)
      BY <3>1, <3>2, SessionSetUp, SessionNonce
    <3>5. /\ Len(sent) \in Nat /\ sent = [k \in 1 .. Len(sent) |-> sent[k]]
          /\ NoncesOf(sent) = <<>>
      BY <3>1 DEF NoncesOf
    <3>6. Counted(NoncesOf(sent), snd.nonce, p.packets)
      BY <3>2, <3>3, <3>5, CountedFirst
    <3>7. IsObject(snd)
      BY <3>3 DEF IsSession
    <3> QED BY <3>1, <3>4, <3>5, <3>6, <3>7 DEF SessionsInv
  <2> QED BY <2>1, <2>2 DEF CiphersInit
<1> QED BY <1>1, <1>2, <1>3 DEF CipherInv

\* The steps of the packets in pieces leave the sessions alone.
LEMMA SessionsRest ==
  ASSUME CipherInv, UNCHANGED sessionVars
  PROVE  SessionsInv' /\ RefusedLeavesNothing'
<1>1. /\ profile' = profile /\ snd' = snd /\ rcv' = rcv /\ sent' = sent /\ last' = last
      /\ SessionsInv /\ RefusedLeavesNothing
  BY DEF sessionVars, CipherInv
<1>2. SessionsInv'
  BY <1>1 DEF SessionsInv
<1>3. RefusedLeavesNothing'
  BY <1>1 DEF RefusedLeavesNothing
<1> QED BY <1>2, <1>3

LEMMA PiecesRest ==
  ASSUME PiecesInv, UNCHANGED <<alg, enc, nonces>>
  PROVE  PiecesInv'
BY DEF PiecesInv

\* The nonce of the packet that begins is the next one, and is used up.
LEMMA StartKeeps ==
  ASSUME CipherInv, NEW n \in AdLengths, DoStart(n)
  PROVE  PiecesInv'
<1>1. /\ alg' = alg /\ alg # "none" /\ Len(nonces) < MaxStarts
      /\ enc' = aead_start(alg, enc, Ad(0, n)) /\ nonces' = Append(nonces, enc.nonce)
  BY DEF DoStart
<1>2. /\ alg \in {"128", "128a", "80pq"} /\ IsObject(enc)
      /\ Counted(nonces, enc.nonce, MaxStarts)
  BY <1>1 DEF CipherInv, PiecesInv
<1>3. IsObject(enc') /\ enc'.nonce = Increment(enc.nonce)
  BY <1>1, <1>2, PiecesStart
<1>4. Counted(nonces', enc'.nonce, MaxStarts)
  BY <1>1, <1>2, <1>3, CiphersAssumption, CountedNext
<1> QED BY <1>1, <1>2, <1>3, <1>4 DEF PiecesInv

LEMMA EncryptKeeps ==
  ASSUME CipherInv, NEW n \in Pieces, DoEncrypt(n)
  PROVE  PiecesInv'
<1>1. alg' = alg /\ nonces' = nonces /\ Busy
  BY DEF DoEncrypt
<1>2. PICK in : enc' = aead_encrypt_block(alg, enc, in).obj
  BY DEF DoEncrypt
<1>3. /\ alg \in {"128", "128a", "80pq"} /\ IsObject(enc)
      /\ Counted(nonces, enc.nonce, MaxStarts)
  BY <1>1 DEF CipherInv, PiecesInv, Busy
<1>4. IsObject(enc') /\ enc'.nonce = enc.nonce
  BY <1>2, <1>3, PiecesGoOn
<1> QED BY <1>1, <1>3, <1>4 DEF PiecesInv

LEMMA EncryptFinalizeKeeps ==
  ASSUME CipherInv, DoEncryptFinalize
  PROVE  PiecesInv'
<1>1. alg' = alg /\ nonces' = nonces /\ Busy
  BY DEF DoEncryptFinalize
<1>2. enc' = aead_encrypt_finalize(alg, enc).obj
  BY DEF DoEncryptFinalize
<1>3. /\ alg \in {"128", "128a", "80pq"} /\ IsObject(enc)
      /\ Counted(nonces, enc.nonce, MaxStarts)
  BY <1>1 DEF CipherInv, PiecesInv, Busy
<1>4. IsObject(enc') /\ enc'.nonce = enc.nonce
  BY <1>2, <1>3, PiecesGoOn
<1> QED BY <1>1, <1>3, <1>4 DEF PiecesInv

\* A session uses its nonce for one packet and goes on to the next.
LEMMA SendKeeps ==
  ASSUME CipherInv, NEW n, NEW a, DoSend(n, a)
  PROVE  CipherInv'
<1> DEFINE p == Len(sent) + 1
<1>1. /\ profile # <<>> /\ Len(sent) < profile.packets /\ profile' = profile
      /\ rcv' = rcv /\ last' = last /\ alg' = alg /\ enc' = enc /\ nonces' = nonces
  BY DEF DoSend, pieceVars
<1>2. PICK r \in {do_encrypt(snd, profile.shares, Text(p, n), Ad(p, a))} :
         /\ snd' = r.obj
         /\ sent' = Append(sent, [m |-> Text(p, n), ad |-> Ad(p, a), nonce |-> snd.nonce,
                                  c |-> r.c])
  BY DEF DoSend
<1>3. PICK e : sent' = Append(sent, e) /\ e.nonce = snd.nonce
  BY <1>2
<1>4. /\ profile \in Profiles /\ IsObject(snd) /\ IsSession(rcv, profile.receive)
      /\ Len(sent) \in Nat /\ sent = [k \in 1 .. Len(sent) |-> sent[k]]
      /\ Counted(NoncesOf(sent), snd.nonce, profile.packets)
  BY <1>1 DEF CipherInv, SessionsInv
<1>5. IsObject(snd') /\ snd'.nonce = Increment(snd.nonce)
  BY <1>2, <1>4 DEF do_encrypt, IsObject, Increment
<1>6. Len(NoncesOf(sent)) = Len(sent)
  BY <1>4, NoncesLength
<1>7. /\ Len(sent') \in Nat /\ sent' = [k \in 1 .. Len(sent') |-> sent'[k]]
      /\ NoncesOf(sent') = Append(NoncesOf(sent), snd.nonce)
  <2> DEFINE t == Append(sent, e)
  <2>1. /\ t = [k \in 1 .. Len(t) |-> t[k]] /\ Len(t) = Len(sent) + 1
        /\ NoncesOf(t) = Append(NoncesOf(sent), e.nonce)
    BY <1>4, NoncesOfMore
  <2>2. sent' = t /\ Len(t) \in Nat
    BY <1>3, <1>4, <2>1
  <2> HIDE DEF t
  <2> QED BY <1>3, <2>1, <2>2
<1>8. profile.packets \in Nat
  BY <1>4, CiphersAssumption
<1>9. Counted(NoncesOf(sent'), snd'.nonce, profile.packets)
  BY <1>1, <1>4, <1>5, <1>6, <1>7, <1>8, CountedNext
<1>10. SessionsInv'
  BY <1>1, <1>4, <1>5, <1>7, <1>9 DEF SessionsInv
<1>11. PiecesInv' /\ RefusedLeavesNothing'
  BY <1>1, PiecesRest DEF CipherInv, RefusedLeavesNothing
<1> QED BY <1>10, <1>11 DEF CipherInv

\* Whatever arrives, a refusal leaves zeroes in the buffer.
LEMMA ReceiveKeeps ==
  ASSUME CipherInv, sent # <<>>, NEW p, NEW c, NEW ad, NEW intact,
         Receive(p, c, ad, intact)
  PROVE  CipherInv'
<1>1. /\ profile' = profile /\ snd' = snd /\ sent' = sent
      /\ alg' = alg /\ enc' = enc /\ nonces' = nonces
  BY DEF Receive, pieceVars
<1>2. PICK r \in {IF profile.arrays THEN decrypt(rcv, profile.shares, c, ad)
                  ELSE do_decrypt(rcv, profile.shares, c, ad)} :
         /\ rcv' = r.obj
         /\ last' = [p |-> p, intact |-> intact, due |-> p = Len(accepted) + 1,
                     result |-> r.r.result, m |-> r.r.m]
  BY DEF Receive
<1>3. /\ profile \in Profiles /\ IsSession(rcv, profile.receive)
      /\ profile.receive \in Classes
  BY CiphersAssumption DEF CipherInv, SessionsInv
<1> DEFINE d == Decrypted(rcv, profile.shares, c, ad)
           done == do_decrypt(rcv, profile.shares, c, ad)
<1>4. Clean(d)
  BY <1>3, DecryptedIsClean
<1>5. PICK k, m : /\ d = [result |-> k, m |-> m]
                  /\ k < 0 => \A i \in DOMAIN m : m[i] = {}
  BY <1>4 DEF Clean
<1>6. done = [obj |-> IF d.result < 0 THEN rcv
                      ELSE [rcv EXCEPT !.nonce = ascon_aead_increment_nonce(@)],
              r |-> d]
  BY DEF do_decrypt, AfterPacket
<1>7. IsSession(done.obj, profile.receive)
  <2> HIDE DEF d
  <2> QED BY <1>3, <1>6 DEF IsSession, IsObject
<1>8. r = done \/ (done.r.result < 0 /\ r = [done EXCEPT !.r.m = <<>>])
  BY <1>2 DEF decrypt, Emptied
<1> HIDE DEF d, done
<1>9. /\ r.obj = done.obj /\ r.r.result = k
      /\ r.r.m = m \/ r.r.m = <<>>
  BY <1>5, <1>6, <1>8
<1>10. IsSession(rcv', profile'.receive)
  BY <1>1, <1>2, <1>7, <1>9
<1>11. RefusedLeavesNothing'
  <2>1. last'.result = r.r.result /\ last'.m = r.r.m
    BY <1>2
  <2>2. r.r.result < 0 => \A i \in DOMAIN r.r.m : r.r.m[i] = {}
    <3>1. \A i \in DOMAIN <<>> : <<>>[i] = {}
      OBVIOUS
    <3> QED BY <1>5, <1>9, <3>1
  <2> QED BY <2>1, <2>2 DEF RefusedLeavesNothing
<1>12. SessionsInv'
  BY <1>1, <1>10 DEF CipherInv, SessionsInv
<1>13. PiecesInv'
  BY <1>1, PiecesRest DEF CipherInv
<1> QED BY <1>11, <1>12, <1>13 DEF CipherInv

LEMMA CipherInvNext == CipherInv /\ [CiphersNext]_cipherVars => CipherInv'
<1> SUFFICES ASSUME CipherInv, [CiphersNext]_cipherVars PROVE CipherInv'
  OBVIOUS
<1>1. ASSUME NEW n \in AdLengths, DoStart(n) PROVE CipherInv'
  BY <1>1, StartKeeps, SessionsRest DEF DoStart, CipherInv
<1>2. ASSUME NEW n \in Pieces, DoEncrypt(n) PROVE CipherInv'
  BY <1>2, EncryptKeeps, SessionsRest DEF DoEncrypt, CipherInv
<1>3. ASSUME NEW n \in Pieces, DoDecrypt(n) PROVE CipherInv'
  BY <1>3, PiecesRest, SessionsRest DEF DoDecrypt, CipherInv
<1>4. CASE DoEncryptFinalize
  BY <1>4, EncryptFinalizeKeeps, SessionsRest DEF DoEncryptFinalize, CipherInv
<1>5. CASE DoDecryptFinalize
  BY <1>5, PiecesRest, SessionsRest DEF DoDecryptFinalize, CipherInv
<1>6. CASE Damage
  BY <1>6, PiecesRest, SessionsRest DEF Damage, CipherInv
<1>7. ASSUME NEW t \in Texts, DoSend(t[1], t[2]) PROVE CipherInv'
  BY <1>7, SendKeeps
<1>8. ASSUME NEW p \in DOMAIN sent, DoReceive(p) \/ DoReceiveDamaged(p) PROVE CipherInv'
  <2>1. sent # <<>>
    BY <1>8
  <2>2. \E c, ad, intact : Receive(p, c, ad, intact)
    BY <1>8 DEF DoReceive, DoReceiveDamaged
  <2> QED BY <2>1, <2>2, ReceiveKeeps
<1>9. CASE UNCHANGED cipherVars
  BY <1>9, PiecesRest, SessionsRest DEF cipherVars, pieceVars, CipherInv
<1> QED BY <1>1, <1>2, <1>3, <1>4, <1>5, <1>6, <1>7, <1>8, <1>9
        DEF CiphersNext, PiecesNext, SessionsNext

\* Whatever the two programs do, the nonces of their packets follow one another
\* from the first one on, the object and the session hold the next one, and a
\* receiving session remains one of its class.
THEOREM CipherInvariant == CiphersSpec => []CipherInv
<1>1. CiphersInit => CipherInv
  BY CipherInvInit
<1>2. CipherInv /\ [CiphersNext]_cipherVars => CipherInv'
  BY CipherInvNext
<1> QED BY <1>1, <1>2, PTL DEF CiphersSpec

\* No two packets under a key have the same nonce, in pieces or in a session, as
\* long as there are no more packets than nonces: ascon_aead_increment_nonce
\* carries over all digits and comes back to a nonce only after all others.
THEOREM NoncesNeverRepeat ==
  ASSUME MaxStarts <= Cardinality(Nonces),
         \A p \in Profiles : p.packets <= Cardinality(Nonces)
  PROVE  CiphersSpec => []NoncesDiffer
<1>1. CipherInv => NoncesDiffer
  <2> SUFFICES ASSUME CipherInv PROVE NoncesDiffer
    OBVIOUS
  <2>1. \A i, j \in DOMAIN nonces : i # j => nonces[i] # nonces[j]
    <3>1. CASE nonces = <<>>
      BY <3>1
    <3>2. CASE Counted(nonces, enc.nonce, MaxStarts)
      BY <3>2, CiphersAssumption, CountedDiffers
    <3> QED BY <3>1, <3>2 DEF CipherInv, PiecesInv
  <2>2. \A i, j \in DOMAIN sent : i # j => sent[i].nonce # sent[j].nonce
    <3>1. CASE sent = <<>>
      BY <3>1
    <3>2. CASE /\ profile \in Profiles /\ sent = [k \in 1 .. Len(sent) |-> sent[k]]
               /\ Counted(NoncesOf(sent), snd.nonce, profile.packets)
      <4>1. profile.packets \in Nat /\ profile.packets <= Cardinality(Nonces)
        BY <3>2, CiphersAssumption
      <4>2. \A i, j \in DOMAIN NoncesOf(sent) :
               i # j => NoncesOf(sent)[i] # NoncesOf(sent)[j]
        BY <3>2, <4>1, CountedDiffers
      <4>3. /\ DOMAIN NoncesOf(sent) = DOMAIN sent
            /\ \A i \in DOMAIN sent : NoncesOf(sent)[i] = sent[i].nonce
        BY <3>2 DEF NoncesOf
      <4> QED BY <4>2, <4>3
    <3> QED BY <3>1, <3>2 DEF CipherInv, SessionsInv
  <2> QED BY <2>1, <2>2 DEF NoncesDiffer
<1> QED BY <1>1, CipherInvariant, PTL

\* Of a packet that a session refuses no plaintext is left in the caller's
\* buffer: all modes decrypt into it before they compare the tags, and clear it
\* (ascon_aead_check_tag).
THEOREM RefusedIsErased == CiphersSpec => []RefusedLeavesNothing
<1>1. CipherInv => RefusedLeavesNothing
  BY DEF CipherInv
<1> QED BY <1>1, CipherInvariant, PTL

-----------------------------------------------------------------------------
(***************************************************************************)
(* A duplex sponge from a state s on.  The bytes w[1], w[2] and so on are  *)
(* what it stores in place of the bytes of its blocks, whether it gets     *)
(* them by adding data or by overwriting: the states that it goes through  *)
(* are determined by s and w.                                              *)
(***************************************************************************)
IsState(s) ==
  /\ s = [chain |-> s.chain, b |-> s.b]
  /\ s.b = [q \in 0 .. STATE_SIZE - 1 |-> s.b[q]]
  /\ IsSequence(s.chain)

Rated(v) == v.rate \in Nat \ {0} /\ v.rate < STATE_SIZE

\* The bytes of the state before anything is stored in block k, and when c
\* bytes are.
Row(s, k) ==
  IF k = 0 THEN s.b ELSE [q \in 0 .. STATE_SIZE - 1 |-> {<<"p", Len(s.chain) + k, q>>}]
Stored(v, s, w, k, c) ==
  [q \in 0 .. STATE_SIZE - 1 |-> IF q < c THEN w[k * v.rate + q + 1] ELSE Row(s, k)[q]]
Passed(v, s, w, j) == [round |-> v.round, b |-> Stored(v, s, w, j - 1, v.rate)]
PassedTo(v, s, w, k) == [j \in 1 .. k |-> Passed(v, s, w, j)]
History(v, s, w, k) == s.chain \o PassedTo(v, s, w, k)
Within(v, s, w, k, c) == [chain |-> History(v, s, w, k), b |-> Stored(v, s, w, k, c)]

\* Part of a sequence, from the element after the first `from` ones on.
Between(s, from, to) == SubSeq(s, from + 1, to)
CutFrom(s, from, to, n) ==
  from + 1 \in 1 .. Len(s) + 1 /\ to \in (from + 1) - 1 .. Len(s) /\ to - (from + 1) + 1 = n
IsCut(s, from, c, n) ==
  IsSequence(c) /\ Len(c) = n /\ \A i \in 1 .. n : c[i] = s[(from + 1) + i - 1]

LEMMA CutSequence ==
  ASSUME NEW s, NEW from, NEW to, NEW n, IsSequence(s), CutFrom(s, from, to, n)
  PROVE  IsCut(s, from, Between(s, from, to), n)
<1> DEFINE a == from + 1
           c == SubSeq(s, a, to)
<1>1. a \in 1 .. Len(s) + 1 /\ to \in a - 1 .. Len(s) /\ to - a + 1 = n
  BY DEF CutFrom
<1>2. Between(s, from, to) = c
  BY DEF Between
<1> HIDE DEF a
<1>3. IsSequence(c) /\ Len(c) = to - a + 1 /\ \A i \in 1 .. to - a + 1 : c[i] = s[a + i - 1]
  BY ONLY IsSequence(s), <1>1, Subsequence
<1> HIDE DEF c
<1> QED BY <1>1, <1>2, <1>3 DEF IsCut, a

IsAppended(s, e, t) ==
  /\ IsSequence(t) /\ Len(t) = Len(s) + 1 /\ t[Len(s) + 1] = e
  /\ \A i \in 1 .. Len(s) : t[i] = s[i]

LEMMA AppendedItems ==
  ASSUME NEW s, NEW e, IsSequence(s)
  PROVE  IsAppended(s, e, Append(s, e))
<1> DEFINE t == Append(s, e)
<1>1. PICK S : s \in Seq(S)
  BY DEF IsSequence
<1>2. s \in Seq(S \cup {e}) /\ e \in S \cup {e}
  BY <1>1
<1>3. /\ t \in Seq(S \cup {e}) /\ Len(t) = Len(s) + 1
      /\ \A i \in 1 .. Len(s) : t[i] = s[i]
      /\ t[Len(s) + 1] = e
  BY <1>2, AppendProperties
<1> HIDE DEF t
<1>4. IsAppended(s, e, t)
  BY <1>3 DEF IsAppended, IsSequence
<1> QED BY <1>4 DEF t

LEMMA StateSize == STATE_SIZE \in Nat /\ STATE_SIZE = 5 * WORD /\ WORD \in Nat \ {0}
BY WordAssumption DEF STATE_SIZE

LEMMA RowFunction ==
  ASSUME NEW s, NEW k,
         IsState(s)
  PROVE  Row(s, k) = [q \in 0 .. STATE_SIZE - 1 |-> Row(s, k)[q]]
BY DEF Row, IsState

LEMMA PassedSequence ==
  ASSUME NEW v, NEW s, NEW w, NEW k,
         k \in Nat
  PROVE  /\ IsSequence(PassedTo(v, s, w, k)) /\ Len(PassedTo(v, s, w, k)) = k
         /\ \A j \in 1 .. k : PassedTo(v, s, w, k)[j] = Passed(v, s, w, j)
<1> DEFINE t == PassedTo(v, s, w, k)
<1>1. t = [j \in 1 .. k |-> t[j]] /\ \A j \in 1 .. k : t[j] = Passed(v, s, w, j)
  BY DEF PassedTo
<1> HIDE DEF t
<1>2. IsSequence(t) /\ Len(t) = k
  BY <1>1, FunctionSequence
<1> QED BY <1>1, <1>2 DEF t

LEMMA HistorySequence ==
  ASSUME NEW v, NEW s, NEW w, NEW k,
         IsState(s), k \in Nat
  PROVE  /\ IsSequence(History(v, s, w, k)) /\ Len(History(v, s, w, k)) = Len(s.chain) + k
         /\ Len(s.chain) \in Nat
         /\ \A j \in 1 .. k : History(v, s, w, k)[Len(s.chain) + j] = Passed(v, s, w, j)
<1> DEFINE c == s.chain
           t == PassedTo(v, s, w, k)
           u == c \o t
<1>1. /\ IsSequence(c) /\ IsSequence(t) /\ Len(t) = k
      /\ \A j \in 1 .. k : t[j] = Passed(v, s, w, j)
  BY PassedSequence DEF IsState
<1>2. History(v, s, w, k) = u
  BY DEF History
<1>3. Len(c) \in Nat
  BY <1>1, SequenceLength
<1> HIDE DEF c, t
<1>4. IsSequence(u) /\ Len(u) = Len(c) + Len(t)
      /\ \A j \in 1 .. Len(t) : u[Len(c) + j] = t[j]
  BY <1>1, Concatenated
<1> HIDE DEF u
<1>5. /\ IsSequence(u) /\ Len(u) = Len(c) + k
      /\ \A j \in 1 .. k : u[Len(c) + j] = Passed(v, s, w, j)
  BY <1>1, <1>4
<1> QED BY <1>2, <1>3, <1>5 DEF c

\* A block that is full is permuted.
LEMMA NextRow ==
  ASSUME NEW v, NEW s, NEW w, NEW k,
         IsState(s), k \in Nat
  PROVE  ascon_permute(Within(v, s, w, k, v.rate), v.round) = Within(v, s, w, k + 1, 0)
<1> DEFINE h == History(v, s, w, k)
           e == Passed(v, s, w, k + 1)
           b == Stored(v, s, w, k, v.rate)
<1>1. ascon_permute([chain |-> h, b |-> b], v.round) =
        [chain |-> Append(h, [round |-> v.round, b |-> b]), b |-> Permuted(Len(h) + 1)]
  <2> HIDE DEF h, b
  <2> QED BY DEF ascon_permute
<1>2. e = [round |-> v.round, b |-> b]
  <2>1. (k + 1) - 1 = k
    OBVIOUS
  <2> QED BY <2>1 DEF Passed
<1>3. Append(h, e) = History(v, s, w, k + 1)
  <2> DEFINE c == s.chain
             t == PassedTo(v, s, w, k)
             a == Append(t, e)
             z == PassedTo(v, s, w, k + 1)
  <2>1. IsSequence(c) /\ IsSequence(t) /\ Len(t) = k
        /\ \A j \in 1 .. k : t[j] = Passed(v, s, w, j)
    BY PassedSequence DEF IsState
  <2>2. IsSequence(z) /\ Len(z) = k + 1
        /\ \A j \in 1 .. k + 1 : z[j] = Passed(v, s, w, j)
    BY PassedSequence
  <2> HIDE DEF e, t, c, z
  <2>3. IsSequence(a) /\ Len(a) = Len(t) + 1 /\ a[Len(t) + 1] = e
        /\ \A i \in 1 .. Len(t) : a[i] = t[i]
    <3>1. IsSequence(t)
      BY <2>1
    <3>2. IsAppended(t, e, Append(t, e))
      BY ONLY <3>1, AppendedItems
    <3> HIDE DEF a
    <3>3. a = Append(t, e)
      BY DEF a
    <3> QED BY <3>2, <3>3 DEF IsAppended
  <2>4. Append(c \o t, e) = c \o a
    BY <2>1, AppendedAtEnd
  <2> HIDE DEF a
  <2>5. ASSUME NEW i \in 1 .. Len(a) PROVE a[i] = z[i]
    <3>1. CASE i \in 1 .. k
      BY <2>1, <2>2, <2>3, <3>1
    <3>2. CASE i = k + 1
      <4>1. a[i] = e /\ z[i] = Passed(v, s, w, k + 1)
        BY <2>1, <2>2, <2>3, <3>2
      <4> QED BY <4>1 DEF e
    <3> QED BY <2>1, <2>3, <3>1, <3>2
  <2>6. a = z
    BY <2>1, <2>2, <2>3, <2>5, SameSequence
  <2> QED BY <2>4, <2>6 DEF History, c, t, z
<1>4. Permuted(Len(h) + 1) = Stored(v, s, w, k + 1, 0)
  <2>1. Len(h) = Len(s.chain) + k /\ Len(s.chain) \in Nat
    BY HistorySequence
  <2>2. Len(h) + 1 = Len(s.chain) + (k + 1) /\ k + 1 # 0
    <3> DEFINE l == Len(s.chain)
               a == Len(h)
    <3>1. a = l + k /\ l \in Nat
      BY <2>1
    <3> HIDE DEF l, a
    <3>2. a + 1 = l + (k + 1) /\ k + 1 # 0
      BY <3>1
    <3> QED BY <3>2 DEF l, a
  <2>3. \A q \in 0 .. STATE_SIZE - 1 : ~(q < 0)
    BY StateSize
  <2> DEFINE m == k + 1
             n == Len(h) + 1
  <2>4. n = Len(s.chain) + m /\ m # 0
    BY <2>2
  <2> HIDE DEF m, n
  <2>5. Permuted(n) = Stored(v, s, w, m, 0)
    BY <2>3, <2>4 DEF Permuted, Stored, Row
  <2> QED BY <2>5 DEF m, n
<1> HIDE DEF h, e, b
<1> QED BY <1>1, <1>2, <1>3, <1>4 DEF Within, h, b

LEMMA FirstRow ==
  ASSUME NEW v, NEW s, NEW w,
         IsState(s)
  PROVE  Within(v, s, w, 0, 0) = s
<1>1. PassedTo(v, s, w, 0) = <<>>
  BY PassedSequence, LengthZero
<1>2. s.chain \o <<>> = s.chain
  BY ConcatenatedEmpty DEF IsState
<1>3. \A q \in 0 .. STATE_SIZE - 1 : ~(q < 0)
  BY StateSize
<1>4. Stored(v, s, w, 0, 0) = s.b
  BY <1>3 DEF Stored, Row, IsState
<1> QED BY <1>1, <1>2, <1>4 DEF Within, History, IsState

LEMMA WithinState ==
  ASSUME NEW v, NEW s, NEW w, NEW k, NEW c,
         IsState(s), k \in Nat
  PROVE  IsState(Within(v, s, w, k, c))
<1> DEFINE h == History(v, s, w, k)
           b == Stored(v, s, w, k, c)
<1>1. IsSequence(h)
  BY HistorySequence
<1>2. b = [q \in 0 .. STATE_SIZE - 1 |-> b[q]]
  BY DEF Stored
<1> HIDE DEF h, b
<1>3. IsState([chain |-> h, b |-> b])
  BY <1>1, <1>2 DEF IsState
<1> QED BY <1>3 DEF Within, h, b

-----------------------------------------------------------------------------
(* What a call stores and what it returns, byte by byte. *)

Came(c, x) ==
  {IF a[1] = "px" /\ Len(a[2]) <= Len(c) /\ a[2] = SubSeq(c, 1, Len(a[2]))
   THEN <<"p", Len(a[2]), a[3]>> ELSE a : a \in x}
Went(c, x) == {IF a[1] = "p" THEN <<"px", SubSeq(c, 1, a[2]), a[3]>> ELSE a : a \in x}

\* A byte that is decrypted replaces the byte of the state.
StoredByte(open, c, old, x) == IF open THEN Came(c, x) ELSE Xor(old, Came(c, x))
Put(open, s, bytes, at) ==
  IF open THEN ascon_overwrite_bytes(s, Entering(s, bytes), at)
  ELSE ascon_add_bytes(s, Entering(s, bytes), at)

\* The stored bytes are what data leads to, as far as its first n bytes go.
Matches(open, v, s, w, data, n) ==
  \A k \in Nat : \A q \in 0 .. v.rate - 1 :
    k * v.rate + q + 1 <= n =>
      w[k * v.rate + q + 1] =
        StoredByte(open, History(v, s, w, k), Row(s, k)[q], data[k * v.rate + q + 1])

LEMMA EnteringBytes ==
  ASSUME NEW s, NEW data,
         IsSequence(data)
  PROVE  /\ IsSequence(Entering(s, data)) /\ Len(Entering(s, data)) = Len(data)
         /\ \A j \in 1 .. Len(data) : Entering(s, data)[j] = Came(s.chain, data[j])
<1> DEFINE t == Entering(s, data)
<1>1. DOMAIN data = 1 .. Len(data) /\ Len(data) \in Nat
  BY SequenceLength
<1>2. t = [j \in 1 .. Len(data) |-> Came(s.chain, data[j])]
  BY <1>1 DEF Entering, Came
<1>3. t = [j \in 1 .. Len(data) |-> t[j]]
      /\ \A j \in 1 .. Len(data) : t[j] = Came(s.chain, data[j])
  BY <1>2
<1> HIDE DEF t
<1>4. IsSequence(t) /\ Len(t) = Len(data)
  BY <1>1, <1>3, FunctionSequence
<1> QED BY <1>3, <1>4 DEF t

LEMMA LeavingByte ==
  ASSUME NEW s, NEW data, NEW j,
         j \in DOMAIN data
  PROVE  Leaving(s, data)[j] = Went(s.chain, data[j])
BY DEF Leaving, Went

\* The bytes `in`, data[from + 1] and so on, which come to bytes c .. e - 1 of
\* block k.
Piece(v, data, k, c, in, from, e) ==
  /\ IsSequence(in) /\ k \in Nat /\ c \in Nat /\ from \in Nat
  /\ from = k * v.rate + c /\ e = c + Len(in) /\ e <= v.rate
  /\ \A i \in 1 .. Len(in) : in[i] = data[from + i]

\* Data stored in a block from byte c on.
LEMMA PutWithin ==
  ASSUME NEW open, NEW v, NEW s, NEW w, NEW data, NEW n, NEW k, NEW c, NEW in, NEW from,
         NEW e,
         open \in BOOLEAN, Rated(v), IsState(s), n \in Nat, Matches(open, v, s, w, data, n),
         Piece(v, data, k, c, in, from, e), from + Len(in) <= n
  PROVE  Put(open, Within(v, s, w, k, c), in, c) = Within(v, s, w, k, e)
<1> SUFFICES ASSUME k \in Nat, c \in Nat, IsSequence(in), c + Len(in) <= v.rate,
                    k * v.rate + c + Len(in) <= n,
                    \A i \in 1 .. Len(in) : in[i] = data[k * v.rate + c + i]
             PROVE  Put(open, Within(v, s, w, k, c), in, c) = Within(v, s, w, k, c + Len(in))
  BY DEF Piece
<1> DEFINE x == Within(v, s, w, k, c)
           h == History(v, s, w, k)
           b == Stored(v, s, w, k, c)
           d == Stored(v, s, w, k, c + Len(in))
           m == k * v.rate
           g == Entering(x, in)
<1>1. x = [chain |-> h, b |-> b] /\ DOMAIN b = 0 .. STATE_SIZE - 1 /\ x.chain = h /\ x.b = b
  BY DEF Within, Stored
<1>2. /\ Len(in) \in Nat /\ Len(g) = Len(in)
      /\ \A j \in 1 .. Len(in) : g[j] = Came(h, in[j])
  BY <1>1, EnteringBytes, SequenceLength
<1>3. m \in Nat /\ v.rate \in Nat \ {0}
  BY DEF Rated
<1>4. ASSUME NEW q \in 0 .. STATE_SIZE - 1
      PROVE  /\ (q < c + Len(in) /\ ~(q < c)) <=> q \in Touched(c, Len(in))
             /\ b[q] = IF q < c THEN w[m + q + 1] ELSE Row(s, k)[q]
             /\ d[q] = IF q < c + Len(in) THEN w[m + q + 1] ELSE Row(s, k)[q]
             /\ q \in Touched(c, Len(in)) =>
                  w[m + q + 1] = StoredByte(open, h, Row(s, k)[q], in[q - c + 1])
             /\ q \in Touched(c, Len(in)) => g[q - c + 1] = Came(h, in[q - c + 1])
  <2>1. STATE_SIZE \in Nat
    BY StateSize
  <2>2. (q < c + Len(in) /\ ~(q < c)) <=> q \in Touched(c, Len(in))
    BY <1>2, <2>1 DEF Touched
  <2>3. /\ b[q] = IF q < c THEN w[m + q + 1] ELSE Row(s, k)[q]
        /\ d[q] = IF q < c + Len(in) THEN w[m + q + 1] ELSE Row(s, k)[q]
    BY DEF Stored
  <2>4. ASSUME q \in Touched(c, Len(in))
        PROVE  /\ w[m + q + 1] = StoredByte(open, h, Row(s, k)[q], in[q - c + 1])
               /\ g[q - c + 1] = Came(h, in[q - c + 1])
    <3> DEFINE i == q - c + 1
    <3>1. i \in 1 .. Len(in) /\ m + c + i = m + q + 1 /\ q \in 0 .. v.rate - 1
          /\ m + q + 1 <= n
      <4> DEFINE l == Len(in)
                 r == v.rate
      <4>1. /\ c <= q /\ q < c + l /\ l \in Nat /\ c + l <= r /\ m + c + l <= n
            /\ m \in Nat /\ r \in Nat /\ q \in Nat /\ n \in Nat
        BY <1>2, <1>3, <2>1, <2>2, <2>4
      <4> HIDE DEF l, r, m
      <4>2. q - c + 1 \in 1 .. l /\ m + c + (q - c + 1) = m + q + 1 /\ q \in 0 .. r - 1
            /\ m + q + 1 <= n
        BY ONLY <4>1, c \in Nat
      <4> QED BY <4>2 DEF l, r
    <3>2. in[i] = data[m + q + 1]
      BY <3>1
    <3>3. w[m + q + 1] = StoredByte(open, h, Row(s, k)[q], data[m + q + 1])
      BY <3>1 DEF Matches
    <3> QED BY <1>2, <3>1, <3>2, <3>3
  <2> QED BY <2>2, <2>3, <2>4
<1>5. CASE open
  <2>1. [q \in DOMAIN b |-> IF q \in Touched(c, Len(g)) THEN g[q - c + 1] ELSE b[q]] = d
    <3>1. ASSUME NEW q \in 0 .. STATE_SIZE - 1
          PROVE  (IF q \in Touched(c, Len(g)) THEN g[q - c + 1] ELSE b[q]) = d[q]
      BY <1>2, <1>4, <1>5, SMTT(30) DEF StoredByte
    <3>2. d = [q \in 0 .. STATE_SIZE - 1 |-> d[q]]
      BY DEF Stored
    <3> HIDE DEF b, d, g
    <3> QED BY <1>1, <3>1, <3>2
  <2> HIDE DEF b, d, g, h
  <2>2. ascon_overwrite_bytes(x, g, c) = [x EXCEPT !.b = d]
    BY <1>1, <2>1 DEF ascon_overwrite_bytes
  <2>3. [x EXCEPT !.b = d] = [chain |-> h, b |-> d]
    BY <1>1
  <2> QED BY <1>5, <2>2, <2>3 DEF Put, Within, d, g, h
<1>6. CASE ~open
  <2>1. [q \in DOMAIN b |-> IF q \in Touched(c, Len(g)) THEN Xor(b[q], g[q - c + 1])
                            ELSE b[q]] = d
    <3>1. ASSUME NEW q \in 0 .. STATE_SIZE - 1
          PROVE  (IF q \in Touched(c, Len(g)) THEN Xor(b[q], g[q - c + 1]) ELSE b[q]) = d[q]
      <4>1. CASE q \in Touched(c, Len(in))
        BY <1>2, <1>4, <1>6, <4>1 DEF StoredByte
      <4>2. CASE q \notin Touched(c, Len(in))
        <5>1. (q < c) <=> (q < c + Len(in))
          BY <1>2, <1>4, <4>2, StateSize
        <5> QED BY <1>2, <1>4, <4>2, <5>1
      <4> QED BY <4>1, <4>2
    <3>2. d = [q \in 0 .. STATE_SIZE - 1 |-> d[q]]
      BY DEF Stored
    <3> HIDE DEF b, d, g
    <3> QED BY <1>1, <3>1, <3>2
  <2> HIDE DEF b, d, g, h
  <2>2. ascon_add_bytes(x, g, c) = [x EXCEPT !.b = d]
    BY <1>1, <2>1 DEF ascon_add_bytes
  <2>3. [x EXCEPT !.b = d] = [chain |-> h, b |-> d]
    BY <1>1
  <2> QED BY <1>6, <2>2, <2>3 DEF Put, Within, d, g, h
<1> QED BY <1>5, <1>6

LEMMA XorCommutes ==
  ASSUME NEW a, NEW b
  PROVE  Xor(a, b) = Xor(b, a)
BY DEF Xor

\* The byte that the i-th byte of data is turned into, either way.
Given(v, s, w, data, i) ==
  LET k == (i - 1) \div v.rate
      h == History(v, s, w, k)
  IN  Went(h, Xor(Row(s, k)[(i - 1) % v.rate], Came(h, data[i])))
Returned(v, s, w, data, from, n) == [i \in 1 .. n |-> Given(v, s, w, data, from + i)]

\* The i-th byte of data belongs to byte q of block k.
Slot(v, i, k, q) == k \in Nat /\ q \in 0 .. v.rate - 1 /\ i = k * v.rate + q + 1

LEMMA GivenInBlock ==
  ASSUME NEW v, NEW s, NEW w, NEW data, NEW k, NEW q, NEW i, Rated(v), Slot(v, i, k, q)
  PROVE  Given(v, s, w, data, i) =
           Went(History(v, s, w, k), Xor(Row(s, k)[q], Came(History(v, s, w, k), data[i])))
<1> DEFINE r == v.rate
<1>1. r \in Nat \ {0}
  BY DEF Rated
<1>0. k \in Nat /\ q \in 0 .. r - 1 /\ i = k * r + q + 1
  BY DEF Slot
<1>2. (k * r + q) \div r = k /\ (k * r + q) % r = q
  BY ONLY <1>0, <1>1, DivisionUnique
<1>3. i - 1 = k * r + q
  <2> DEFINE m == k * r
  <2>1. m \in Nat
    BY <1>0, <1>1
  <2> HIDE DEF m
  <2>2. (m + q + 1) - 1 = m + q
    BY <1>0, <1>1, <2>1
  <2> QED BY <1>0, <2>2 DEF m
<1>4. (i - 1) \div v.rate = k /\ (i - 1) % v.rate = q
  BY <1>2, <1>3
<1> QED BY <1>4 DEF Given

LEMMA ReturnedSequence ==
  ASSUME NEW v, NEW s, NEW w, NEW data, NEW from, NEW n,
         n \in Nat
  PROVE  /\ IsSequence(Returned(v, s, w, data, from, n))
         /\ Len(Returned(v, s, w, data, from, n)) = n
         /\ \A i \in 1 .. n : Returned(v, s, w, data, from, n)[i] = Given(v, s, w, data, from + i)
<1> DEFINE t == Returned(v, s, w, data, from, n)
<1>1. t = [i \in 1 .. n |-> t[i]] /\ \A i \in 1 .. n : t[i] = Given(v, s, w, data, from + i)
  BY DEF Returned
<1> HIDE DEF t
<1>2. IsSequence(t) /\ Len(t) = n
  BY <1>1, FunctionSequence
<1> QED BY <1>1, <1>2 DEF t

Joined(a, b) == a \o b
Adds(a, b, c) == c = a + b

LEMMA JoinedItems ==
  ASSUME NEW a, NEW b, IsSequence(a), IsSequence(b)
  PROVE  /\ IsSequence(Joined(a, b)) /\ Len(Joined(a, b)) = Len(a) + Len(b)
         /\ \A i \in 1 .. Len(a) : Joined(a, b)[i] = a[i]
         /\ \A i \in 1 .. Len(b) : Joined(a, b)[Len(a) + i] = b[i]
BY Concatenated DEF Joined

LEMMA ReturnedJoined ==
  ASSUME NEW v, NEW s, NEW w, NEW data, NEW from, NEW m, NEW n, NEW next, NEW all,
         from \in Nat, m \in Nat, n \in Nat, Adds(from, m, next), Adds(m, n, all)
  PROVE  Joined(Returned(v, s, w, data, from, m), Returned(v, s, w, data, next, n)) =
           Returned(v, s, w, data, from, all)
<1> DEFINE a == Returned(v, s, w, data, from, m)
           b == Returned(v, s, w, data, next, n)
           c == Returned(v, s, w, data, from, all)
           ab == a \o b
<1>0. next = from + m /\ all = m + n
  BY DEF Adds
<1>1. /\ IsSequence(a) /\ Len(a) = m
      /\ \A i \in 1 .. m : a[i] = Given(v, s, w, data, from + i)
  BY ONLY m \in Nat, ReturnedSequence
<1>2. /\ IsSequence(b) /\ Len(b) = n
      /\ \A i \in 1 .. n : b[i] = Given(v, s, w, data, next + i)
  BY ONLY n \in Nat, ReturnedSequence
<1>3. /\ IsSequence(c) /\ Len(c) = m + n
      /\ \A i \in 1 .. m + n : c[i] = Given(v, s, w, data, from + i)
  BY <1>0, ReturnedSequence
<1> HIDE DEF a, b, c
<1>4. /\ IsSequence(ab) /\ Len(ab) = Len(a) + Len(b)
      /\ \A i \in 1 .. Len(a) : ab[i] = a[i]
      /\ \A i \in 1 .. Len(b) : ab[Len(a) + i] = b[i]
  BY ONLY <1>1, <1>2, Concatenated
<1> HIDE DEF ab
<1>5. ASSUME NEW i \in 1 .. m + n PROVE ab[i] = c[i]
  <2>1. CASE i <= m
    <3>1. i \in 1 .. m
      BY <2>1
    <3>2. ab[i] = a[i] /\ a[i] = Given(v, s, w, data, from + i)
      BY <1>1, <1>4, <3>1
    <3> QED BY <1>3, <3>2
  <2>2. CASE i > m
    <3>1. i - m \in 1 .. n /\ m + (i - m) = i /\ next + (i - m) = from + i
      BY <1>0, <2>2
    <3>2. ab[m + (i - m)] = b[i - m]
      BY <1>1, <1>2, <1>4, <3>1
    <3>3. b[i - m] = Given(v, s, w, data, from + i)
      BY <1>2, <3>1
    <3> QED BY <1>3, <3>1, <3>2, <3>3
  <2> QED BY <2>1, <2>2
<1> QED BY <1>1, <1>2, <1>3, <1>4, <1>5, SameSequence DEF a, b, c, ab, Joined

-----------------------------------------------------------------------------
(* The loops over blocks. *)

Part(open, v, r, in) == IF open THEN OpenPart(v, r, in) ELSE SealPart(v, r, in)

LEMMA PartStores ==
  ASSUME NEW open, NEW v, NEW s, NEW w, NEW data, NEW n, NEW k, NEW c, NEW in, NEW o,
         NEW e, NEW from,
         open \in BOOLEAN, Rated(v), IsState(s), n \in Nat,
         Matches(open, v, s, w, data, n), Piece(v, data, k, c, in, from, e),
         from + Len(in) <= n
  PROVE  Part(open, v, [state |-> Within(v, s, w, k, c), posn |-> c, out |-> o], in) =
           [state |-> Within(v, s, w, k, e), posn |-> e,
            out |-> Joined(o, Returned(v, s, w, data, from, Len(in)))]
<1> DEFINE x == Within(v, s, w, k, c)
           y == Within(v, s, w, k, c + Len(in))
           h == History(v, s, w, k)
           m == k * v.rate
           g == Entering(x, in)
           l == Len(in)
           r == v.rate
           out == Returned(v, s, w, data, m + c, l)
<1>0. /\ e = c + l /\ from = m + c /\ IsSequence(in) /\ k \in Nat /\ c \in Nat
      /\ c + l <= r /\ m + c + l <= n /\ \A i \in 1 .. l : in[i] = data[m + c + i]
  BY DEF Piece
<1>1. x.chain = h /\ x.b = Stored(v, s, w, k, c) /\ y.chain = h /\ y.b = Stored(v, s, w, k, c + l)
  BY DEF Within
<1>2. /\ l \in Nat /\ Len(g) = l
      /\ \A j \in 1 .. l : g[j] = Came(h, in[j])
  BY <1>0, <1>1, EnteringBytes, SequenceLength
<1>3a. Put(open, Within(v, s, w, k, c), in, c) = Within(v, s, w, k, e)
  BY ONLY open \in BOOLEAN, Rated(v), IsState(s), n \in Nat, Matches(open, v, s, w, data, n),
          Piece(v, data, k, c, in, from, e), from + Len(in) <= n, PutWithin
<1>3. Put(open, x, in, c) = y
  BY <1>0, <1>3a
<1>4. m \in Nat /\ r \in Nat \ {0} /\ r < STATE_SIZE /\ STATE_SIZE \in Nat
      /\ c + l <= r /\ m + c + l <= n
  BY <1>0, StateSize DEF Rated
<1>5. ASSUME NEW j \in 1 .. l
      PROVE  /\ Given(v, s, w, data, m + c + j) = Went(h, Xor(Row(s, k)[c + j - 1], g[j]))
             /\ x.b[c + j - 1] = Row(s, k)[c + j - 1]
             /\ ~open => y.b[c + j - 1] = Xor(Row(s, k)[c + j - 1], g[j])
  <2> DEFINE q == c + j - 1
  <2>1. q \in 0 .. r - 1 /\ m + q + 1 = m + c + j /\ m + q + 1 <= n
        /\ q \in 0 .. STATE_SIZE - 1 /\ ~(q < c) /\ q < c + l
    <3> HIDE DEF m, r, l
    <3> QED BY ONLY <1>0, <1>2, <1>4, n \in Nat, j \in 1 .. l
  <2>2. in[j] = data[m + q + 1]
    BY <1>0, <2>1
  <2>3. g[j] = Came(h, data[m + q + 1])
    BY <1>2, <2>2
  <2>4. Given(v, s, w, data, m + q + 1) = Went(h, Xor(Row(s, k)[q], Came(h, data[m + q + 1])))
    <3> DEFINE i == m + q + 1
    <3>1. Slot(v, i, k, q) /\ Rated(v)
      BY <1>0, <2>1 DEF Slot
    <3> HIDE DEF i, q
    <3>2. Given(v, s, w, data, i) = Went(h, Xor(Row(s, k)[q], Came(h, data[i])))
      BY ONLY <3>1, GivenInBlock
    <3> QED BY <3>2 DEF i
  <2>5. x.b[q] = Row(s, k)[q] /\ y.b[q] = w[m + q + 1]
    BY <1>1, <2>1 DEF Stored
  <2>6. ~open => w[m + q + 1] = Xor(Row(s, k)[q], Came(h, data[m + q + 1]))
    BY <1>0, <2>1 DEF Matches, StoredByte
  <2> HIDE DEF q, h, g, x, y, m
  <2>7. Given(v, s, w, data, m + c + j) = Went(h, Xor(Row(s, k)[q], g[j]))
    BY <2>1, <2>3, <2>4
  <2>8. ~open => y.b[q] = Xor(Row(s, k)[q], g[j])
    BY <2>3, <2>5, <2>6
  <2> QED BY <2>5, <2>7, <2>8 DEF q, m
<1>6. out = [j \in 1 .. l |-> Went(h, Xor(Row(s, k)[c + j - 1], g[j]))]
  <2> HIDE DEF h, g, x, y, l, m
  <2> QED BY <1>5 DEF Returned
<1> DEFINE r0 == [state |-> x, posn |-> c, out |-> o]
<1>7. ASSUME open
      PROVE  Part(open, v, r0, in) = [state |-> y, posn |-> c + l, out |-> o \o out]
  <2> DEFINE d == ascon_extract_and_add_bytes(x, g, c)
  <2>1. d = [j \in 1 .. l |-> Xor(g[j], x.b[c + j - 1])]
    BY <1>2 DEF ascon_extract_and_add_bytes
  <2>2. \A j \in 1 .. l : d[j] = Xor(Row(s, k)[c + j - 1], g[j])
    <3> HIDE DEF d, x, g
    <3> QED BY <1>5, <2>1, XorCommutes
  <2>3. DOMAIN d = 1 .. l
    BY <2>1
  <2> HIDE DEF d, g, x, y, h, l, out
  <2>4. /\ Leaving(x, d) = [j \in 1 .. l |-> Leaving(x, d)[j]]
        /\ \A j \in 1 .. l : Leaving(x, d)[j] = Went(x.chain, d[j])
    <3>1. Leaving(x, d) = [j \in 1 .. l |-> Leaving(x, d)[j]]
      BY <2>3 DEF Leaving
    <3>2. ASSUME NEW j \in 1 .. l
          PROVE  Leaving(x, d)[j] = Went(x.chain, d[j])
      <4>1. j \in DOMAIN d
        BY <2>3
      <4> QED BY ONLY <4>1, LeavingByte
    <3> QED BY ONLY <3>1, <3>2
  <2>5. Leaving(x, d) = out
    <3>1. \A j \in 1 .. l : Leaving(x, d)[j] = Went(h, Xor(Row(s, k)[c + j - 1], g[j]))
      BY <1>1, <2>2, <2>4
    <3> QED BY <1>6, <2>4, <3>1
  <2>6. OpenPart(v, r0, in) =
          [state |-> ascon_overwrite_bytes(x, g, c), posn |-> c + Len(g), out |-> o \o Leaving(x, d)]
    BY DEF OpenPart, OpenedFrom, g, d
  <2>7. ascon_overwrite_bytes(x, g, c) = y
    BY <1>3, <1>7 DEF Put, g
  <2> HIDE DEF r0
  <2> QED BY <1>2, <1>7, <2>5, <2>6, <2>7 DEF Part
<1>8. ASSUME ~open
      PROVE  Part(open, v, r0, in) = [state |-> y, posn |-> c + l, out |-> o \o out]
  <2> DEFINE d == ascon_extract_bytes(y, c, l)
  <2>1. d = [j \in 1 .. l |-> y.b[c + j - 1]]
    BY DEF ascon_extract_bytes
  <2>2. \A j \in 1 .. l : d[j] = Xor(Row(s, k)[c + j - 1], g[j])
    <3> HIDE DEF d, y, g
    <3> QED BY <1>5, <1>8, <2>1
  <2>3. DOMAIN d = 1 .. l
    BY <2>1
  <2> HIDE DEF d, g, x, y, h, l, out
  <2>4. /\ Leaving(y, d) = [j \in 1 .. l |-> Leaving(y, d)[j]]
        /\ \A j \in 1 .. l : Leaving(y, d)[j] = Went(y.chain, d[j])
    <3>1. Leaving(y, d) = [j \in 1 .. l |-> Leaving(y, d)[j]]
      BY <2>3 DEF Leaving
    <3>2. ASSUME NEW j \in 1 .. l
          PROVE  Leaving(y, d)[j] = Went(y.chain, d[j])
      <4>1. j \in DOMAIN d
        BY <2>3
      <4> QED BY ONLY <4>1, LeavingByte
    <3> QED BY ONLY <3>1, <3>2
  <2>5. Leaving(y, d) = out
    <3>1. \A j \in 1 .. l : Leaving(y, d)[j] = Went(h, Xor(Row(s, k)[c + j - 1], g[j]))
      BY <1>1, <2>2, <2>4
    <3> QED BY <1>6, <2>4, <3>1
  <2>6. ascon_add_bytes(x, g, c) = y
    BY <1>3, <1>8 DEF Put, g
  <2>7. SealPart(v, r0, in) = [state |-> y, posn |-> c + l, out |-> o \o Leaving(y, d)]
    BY <2>6 DEF SealPart, SealedFrom, Absorbed, g, d, l
  <2> HIDE DEF r0
  <2> QED BY <1>8, <2>5, <2>7 DEF Part
<1>9. Part(open, v, r0, in) = [state |-> y, posn |-> c + l, out |-> o \o out]
  BY <1>7, <1>8
<1>10. y = Within(v, s, w, k, e) /\ out = Returned(v, s, w, data, from, l)
  BY <1>0
<1> HIDE DEF r0, y, out
<1>11. Part(open, v, r0, in) = [state |-> Within(v, s, w, k, e), posn |-> e,
                                out |-> o \o Returned(v, s, w, data, from, l)]
  BY <1>0, <1>9, <1>10
<1> QED BY <1>11 DEF r0, Joined

\* The loop with the part that is done per block, for both directions.
Blocks(open, v, state, in, posn) ==
  LET complete == (posn + Len(in)) \div v.rate
      From(k) == IF k = 1 THEN 1 ELSE (k - 1) * v.rate - posn + 1
      after[k \in 0 .. complete] ==
        IF k = 0 THEN [state |-> state, posn |-> posn, out |-> <<>>]
        ELSE NextBlock(v, Part(open, v, after[k - 1],
                               SubSeq(in, From(k), k * v.rate - posn)))
  IN  Part(open, v, after[complete], SubSeq(in, From(complete + 1), Len(in)))

LEMMA BothBlocks ==
  ASSUME NEW v, NEW state, NEW in, NEW posn
  PROVE  /\ EncryptBlocks(v, state, in, posn) = Blocks(FALSE, v, state, in, posn)
         /\ DecryptBlocks(v, state, in, posn) = Blocks(TRUE, v, state, in, posn)
BY DEF EncryptBlocks, DecryptBlocks, Crypted, Blocks, Part

\* f[k] is what the loop has after k blocks, from[k] where the k-th begins.
Loop(open, v, state, in, posn, n, from, f) ==
  /\ n \in Nat /\ n = (posn + Len(in)) \div v.rate
  /\ from = [k \in 1 .. n + 1 |-> IF k = 1 THEN 1 ELSE (k - 1) * v.rate - posn + 1]
  /\ f = [k \in 0 .. n |->
            IF k = 0 THEN [state |-> state, posn |-> posn, out |-> <<>>]
            ELSE NextBlock(v, Part(open, v, f[k - 1],
                                   SubSeq(in, from[k], k * v.rate - posn)))]

\* A function that satisfies the loop's equation gives its result.
LEMMA BlocksFunction ==
  ASSUME NEW open, NEW v, NEW state, NEW in, NEW posn, NEW n, NEW from, NEW f,
         Loop(open, v, state, in, posn, n, from, f)
  PROVE  Blocks(open, v, state, in, posn) = Part(open, v, f[n], SubSeq(in, from[n + 1], Len(in)))
<1> DEFINE first == [state |-> state, posn |-> posn, out |-> <<>>]
           Step(r, k) == NextBlock(v, Part(open, v, r, SubSeq(in,
                            IF k = 1 THEN 1 ELSE (k - 1) * v.rate - posn + 1, k * v.rate - posn)))
           Equation(g) == g = [k \in 0 .. n |-> IF k = 0 THEN first ELSE Step(g[k - 1], k)]
           g == CHOOSE x : Equation(x)
<1>0. /\ n \in Nat /\ n = (posn + Len(in)) \div v.rate
      /\ from = [k \in 1 .. n + 1 |-> IF k = 1 THEN 1 ELSE (k - 1) * v.rate - posn + 1]
      /\ f = [k \in 0 .. n |->
                IF k = 0 THEN [state |-> state, posn |-> posn, out |-> <<>>]
                ELSE NextBlock(v, Part(open, v, f[k - 1],
                                       SubSeq(in, from[k], k * v.rate - posn)))]
  BY DEF Loop
<1>0a. n \in Nat
  BY <1>0
<1>1. Blocks(open, v, state, in, posn) =
        Part(open, v, g[n], SubSeq(in, IF n + 1 = 1 THEN 1 ELSE (n + 1 - 1) * v.rate - posn + 1, Len(in)))
  BY <1>0 DEF Blocks
<1>2. Equation(f)
  <2>1. ASSUME NEW k \in 0 .. n, k # 0
        PROVE  from[k] = IF k = 1 THEN 1 ELSE (k - 1) * v.rate - posn + 1
    BY <1>0, <2>1
  <2>2. \A k \in 0 .. n : k # 0 =>
           NextBlock(v, Part(open, v, f[k - 1], SubSeq(in, from[k], k * v.rate - posn))) =
             Step(f[k - 1], k)
    BY <2>1
  <2> HIDE DEF Step
  <2> QED BY <1>0, <2>2
<1>3. Equation(g)
  <2> HIDE DEF Equation
  <2> QED BY <1>2
<1> HIDE DEF g, Step, first
<1> DEFINE Bad == {k \in 0 .. n : g[k] # f[k]}
<1>4. Bad = {}
  <2> SUFFICES ASSUME Bad # {} PROVE FALSE
    OBVIOUS
  <2>1. Bad \in SUBSET Nat
    BY ONLY <1>0a
  <2>2. PICK k \in Bad : \A y \in Bad : k <= y
    BY <2>1, LeastNumber
  <2>3. k \in 0 .. n /\ g[k] # f[k]
    OBVIOUS
  <2>4. CASE k = 0
    <3>1. g[k] = first /\ f[k] = first
      BY <1>2, <1>3, <2>3, <2>4
    <3> QED BY <2>3, <3>1
  <2>5. CASE k # 0
    <3>1. k - 1 \in 0 .. n /\ k - 1 \notin Bad
      <4>1. k - 1 \in 0 .. n /\ ~(k <= k - 1)
        BY ONLY <2>3, <2>5, <1>0a
      <4> HIDE DEF Bad
      <4> QED BY <2>2, <4>1
    <3>2. g[k - 1] = f[k - 1]
      BY <3>1
    <3>3. g[k] = Step(g[k - 1], k) /\ f[k] = Step(f[k - 1], k)
      BY <1>2, <1>3, <2>3, <2>5
    <3> QED BY <2>3, <3>2, <3>3
  <2> QED BY <2>4, <2>5
<1>5. g[n] = f[n]
  <2>1. n \in 0 .. n
    BY <1>0a
  <2> QED BY <1>4, <2>1
<1>6. from[n + 1] = IF n + 1 = 1 THEN 1 ELSE (n + 1 - 1) * v.rate - posn + 1
  BY <1>0
<1> QED BY <1>1, <1>5, <1>6

LEMMA NextBlockState ==
  ASSUME NEW v, NEW x, NEW c, NEW o
  PROVE  NextBlock(v, [state |-> x, posn |-> c, out |-> o]) =
           [state |-> ascon_permute(x, v.round), posn |-> 0, out |-> o]
<1> DEFINE r == [state |-> x, posn |-> c, out |-> o]
<1>1. NextBlock(v, r) = [[r EXCEPT !.state = ascon_permute(x, v.round)] EXCEPT !.posn = 0]
  BY DEF NextBlock
<1>2. [r EXCEPT !.state = ascon_permute(x, v.round)] =
        [state |-> ascon_permute(x, v.round), posn |-> c, out |-> o]
  OBVIOUS
<1> QED BY <1>1, <1>2

\* A call with bytes base + 1 and so on of data begins at byte c of block k,
\* completes n blocks and ends at byte e.
Spans(v, data, k, c, in, base, n, e) ==
  /\ k \in Nat /\ c \in 0 .. v.rate - 1 /\ base \in Nat /\ base = k * v.rate + c
  /\ IsSequence(in) /\ \A i \in 1 .. Len(in) : in[i] = data[base + i]
  /\ n \in Nat /\ n = (c + Len(in)) \div v.rate /\ e = (c + Len(in)) % v.rate

\* A call stores its bytes in place of those that the state has there.
LEMMA BlocksWithin ==
  ASSUME NEW open, NEW v, NEW s, NEW w, NEW data, NEW k, NEW c, NEW in, NEW base, NEW n,
         NEW e,
         open \in BOOLEAN, Rated(v), IsState(s), Spans(v, data, k, c, in, base, n, e),
         Matches(open, v, s, w, data, base + Len(in))
  PROVE  Blocks(open, v, Within(v, s, w, k, c), in, c) =
           [state |-> Within(v, s, w, k + n, e), posn |-> e,
            out |-> Returned(v, s, w, data, base, Len(in))]
<1> k \in Nat /\ c \in 0 .. v.rate - 1 /\ base \in Nat /\ base = k * v.rate + c
  BY DEF Spans
<1> IsSequence(in) /\ \A i \in 1 .. Len(in) : in[i] = data[base + i]
  BY DEF Spans
<1> n \in Nat /\ n = (c + Len(in)) \div v.rate /\ e = (c + Len(in)) % v.rate
  BY DEF Spans
<1> DEFINE r == v.rate
           l == Len(in)
           done == [j \in 0 .. n |-> IF j = 0 THEN 0 ELSE j * r - c]
           posn == [j \in 0 .. n |-> IF j = 0 THEN c ELSE 0]
           At(j) == [state |-> Within(v, s, w, k + j, posn[j]), posn |-> posn[j],
                     out |-> Returned(v, s, w, data, base, done[j])]
           from == [j \in 1 .. n + 1 |-> IF j = 1 THEN 1 ELSE (j - 1) * r - c + 1]
           f == [j \in 0 .. n |-> At(j)]
<1>1. r \in Nat \ {0} /\ l \in Nat /\ c \in Nat /\ c < r
  BY SequenceLength DEF Rated
<1>2. c + l = n * r + e /\ e \in 0 .. r - 1 /\ n * r \in Nat
  <2>1. c + l \in Nat
    <3> HIDE DEF l
    <3> QED BY ONLY <1>1
  <2>2. c + l = ((c + l) \div r) * r + ((c + l) % r) /\ (c + l) % r \in 0 .. r - 1
    BY ONLY <1>1, <2>1, Division
  <2>3. n = (c + l) \div r /\ e = (c + l) % r
    OBVIOUS
  <2> HIDE DEF r, l
  <2>4. n * r \in Nat
    BY ONLY <1>1, n \in Nat
  <2> QED BY ONLY <2>2, <2>3, <2>4
<1> HIDE DEF r, l
\* Where the j-th part begins.
<1>3. ASSUME NEW j \in 0 .. n
      PROVE  /\ done[j] \in Nat /\ posn[j] \in Nat /\ posn[j] < r
             /\ base + done[j] = (k + j) * r + posn[j]
             /\ from[j + 1] = done[j] + 1
             /\ done[j] <= l
             /\ j # 0 => done[j] = j * r - c
  <2>1. CASE j = 0
    <3>1. done[j] = 0 /\ posn[j] = c /\ from[j + 1] = 1 /\ k + j = k
      BY <2>1
    <3>2. base = k * r + c
      BY DEF r
    <3> HIDE DEF done, posn, from
    <3> QED BY <1>1, <2>1, <3>1, <3>2
  <2>2. CASE j # 0
    <3>1. done[j] = j * r - c /\ posn[j] = 0
      BY <2>2
    <3>2. from[j + 1] = j * r - c + 1
      <4>1. j + 1 \in 1 .. n + 1 /\ j + 1 # 1 /\ (j + 1) - 1 = j
        BY <2>2
      <4>2. from[j + 1] = ((j + 1) - 1) * r - c + 1
        BY ONLY <4>1
      <4> HIDE DEF from
      <4> QED BY ONLY <4>1, <4>2
    <3>3. base = k * r + c
      BY DEF r
    <3>4. (k + j) * r = k * r + j * r /\ j * r \in Nat /\ k * r \in Nat /\ r <= j * r /\ j * r <= n * r
      <4>1. j \in Nat /\ 0 < j /\ j <= n
        BY <2>2
      <4>2. (k + j) * r = k * r + j * r /\ j * r \in Nat /\ k * r \in Nat
        BY ONLY <1>1, <4>1, k \in Nat
      <4>3. 0 * r + r <= j * r
        BY <1>1, <4>1, ProductOrder
      <4>4. j * r <= n * r
        <5>1. CASE j = n
          BY <1>2, <5>1
        <5>2. CASE j # n
          <6>1. j < n
            BY <4>1, <5>2
          <6>2. j * r + r <= n * r
            BY <1>1, <4>1, <6>1, ProductOrder
          <6> QED BY <1>1, <1>2, <4>2, <6>2
        <5> QED BY <5>1, <5>2
      <4> QED BY ONLY <1>1, <4>2, <4>3, <4>4
    <3> HIDE DEF done, posn, from
    <3>5. (k + j) * r = k * r + j * r
      BY <3>4
    <3>6. base + (j * r - c) = (k * r + j * r) + 0
      BY ONLY <1>1, <3>3, <3>4
    <3>7. j * r - c \in Nat /\ 0 < r /\ j * r - c <= l
      BY ONLY <1>1, <1>2, <3>4
    <3> QED BY ONLY <2>2, <3>1, <3>2, <3>5, <3>6, <3>7
  <2> QED BY <2>1, <2>2
<1>4. ASSUME NEW j \in 0 .. n, NEW m \in Nat, done[j] + m <= l, posn[j] + m <= r
      PROVE  Part(open, v, At(j), SubSeq(in, done[j] + 1, done[j] + m)) =
               [state |-> Within(v, s, w, k + j, posn[j] + m), posn |-> posn[j] + m,
                out |-> Returned(v, s, w, data, base, done[j] + m)]
  <2> DEFINE a == done[j]
             p == posn[j]
             b == k + j
             d == SubSeq(in, a + 1, a + m)
             from0 == base + a
             end == p + m
             all == a + m
  <2>1. /\ a \in Nat /\ p \in Nat /\ b \in Nat /\ from0 = b * r + p
        /\ all <= l /\ end <= r
    <3>1. b \in Nat
      OBVIOUS
    <3> HIDE DEF done, posn
    <3> QED BY ONLY <1>3, <1>4, <3>1, j \in 0 .. n
  <2> HIDE DEF done, posn
  <2> HIDE DEF a, p, b
  <2>2. v.rate = r /\ Len(in) = l
    BY DEF r, l
  <2>3. IsSequence(d) /\ Len(d) = m /\ \A i \in 1 .. m : d[i] = in[(a + 1) + i - 1]
    <3>1. a + 1 \in 1 .. Len(in) + 1 /\ a + m \in (a + 1) - 1 .. Len(in)
          /\ (a + m) - (a + 1) + 1 = m
      BY ONLY <1>1, <2>1, <2>2, m \in Nat
    <3>2. CutFrom(in, a, a + m, m)
      BY <3>1 DEF CutFrom
    <3>3. d = Between(in, a, a + m)
      BY DEF Between
    <3> HIDE DEF d
    <3>4. IsCut(in, a, Between(in, a, a + m), m)
      BY ONLY <3>2, IsSequence(in), CutSequence
    <3> QED BY <3>3, <3>4 DEF IsCut
  <2> HIDE DEF d
  <2>4. ASSUME NEW i \in 1 .. m PROVE d[i] = data[from0 + i]
    <3>1. (a + 1) + i - 1 = a + i /\ a + i \in 1 .. Len(in) /\ base + (a + i) = from0 + i
      BY ONLY <1>1, <2>1, <2>2, m \in Nat, i \in 1 .. m, base \in Nat
    <3>2. d[i] = in[a + i]
      BY <2>3, <3>1
    <3>3. in[a + i] = data[base + (a + i)]
      BY <3>1
    <3> QED BY <3>1, <3>2, <3>3
  <2>5. from0 \in Nat /\ end = p + Len(d) /\ end <= v.rate /\ from0 = b * v.rate + p
    <3>1. Len(d) = m
      BY <2>3
    <3>2. from0 \in Nat
      BY ONLY <2>1, base \in Nat
    <3> QED BY ONLY <2>1, <2>2, <3>1, <3>2
  <2>6. Piece(v, data, b, p, d, from0, end)
    BY <2>1, <2>3, <2>4, <2>5 DEF Piece
  <2> DEFINE n0 == base + Len(in)
             o == Returned(v, s, w, data, base, a)
  <2>7. n0 \in Nat /\ Matches(open, v, s, w, data, n0) /\ from0 + Len(d) <= n0
        /\ open \in BOOLEAN /\ Rated(v) /\ IsState(s)
    <3>1. n0 \in Nat /\ from0 + Len(d) <= n0
      BY ONLY <1>1, <2>1, <2>2, <2>3, base \in Nat
    <3> QED BY ONLY <3>1, Matches(open, v, s, w, data, base + Len(in)), open \in BOOLEAN, Rated(v),
                    IsState(s)
  <2>8. base \in Nat /\ a \in Nat /\ m \in Nat /\ Adds(base, a, from0) /\ Adds(a, m, all)
    BY <2>1 DEF Adds
  <2> HIDE DEF from0, end, n0, o, all
  <2>9. Part(open, v, [state |-> Within(v, s, w, b, p), posn |-> p, out |-> o], d) =
          [state |-> Within(v, s, w, b, end), posn |-> end,
           out |-> Joined(o, Returned(v, s, w, data, from0, Len(d)))]
    BY ONLY <2>6, <2>7, PartStores
  <2>10. Joined(o, Returned(v, s, w, data, from0, m)) = Returned(v, s, w, data, base, all)
    BY ONLY <2>8, ReturnedJoined DEF o
  <2> QED BY <2>3, <2>9, <2>10 DEF a, p, b, d, end, o, all
\* A part that reaches the end of its block.
<1>5. ASSUME NEW j \in 1 .. n
      PROVE  NextBlock(v, Part(open, v, f[j - 1], SubSeq(in, from[j], j * r - c))) = At(j)
  <2> DEFINE i == j - 1
             m == r - posn[i]
  <2>1. i \in 0 .. n /\ i + 1 = j
    OBVIOUS
  <2>2. /\ done[i] \in Nat /\ posn[i] \in Nat /\ posn[i] < r /\ from[j] = done[i] + 1
        /\ base + done[i] = (k + i) * r + posn[i]
    <3> HIDE DEF done, posn, from, i
    <3> QED BY <1>3, <2>1
  <2>3. done[j] \in Nat /\ posn[j] = 0 /\ base + done[j] = (k + j) * r + posn[j]
        /\ done[j] <= l /\ done[j] = j * r - c
    <3>1. posn[j] = 0
      OBVIOUS
    <3>2. j \in 0 .. n /\ j # 0
      OBVIOUS
    <3> HIDE DEF done, posn
    <3> QED BY <1>3, <3>1, <3>2
  <2>4. (k + j) * r = (k + i) * r + r /\ (k + i) * r \in Nat
    <3>1. k + i \in Nat /\ k + j = (k + i) + 1
      OBVIOUS
    <3> HIDE DEF i
    <3>2. ((k + i) + 1) * r = (k + i) * r + r /\ (k + i) * r \in Nat
      BY ONLY <1>1, <3>1
    <3> QED BY <3>1, <3>2
  <2>5. f[i] = At(i)
    BY <2>1
  <2> HIDE DEF done, posn, from, f, i, At
  <2>6. m \in Nat /\ posn[i] + m = r /\ done[i] + m = done[j]
    BY ONLY <1>1, <2>2, <2>3, <2>4, base \in Nat
  <2>7. done[i] + m <= l /\ posn[i] + m <= r
    BY ONLY <1>1, <2>3, <2>6
  <2> HIDE DEF m
  <2>8. Part(open, v, At(i), SubSeq(in, done[i] + 1, done[i] + m)) =
          [state |-> Within(v, s, w, k + i, posn[i] + m), posn |-> posn[i] + m,
           out |-> Returned(v, s, w, data, base, done[i] + m)]
    BY <1>4, <2>1, <2>6, <2>7
  <2>9. Part(open, v, f[i], SubSeq(in, from[j], j * r - c)) =
          [state |-> Within(v, s, w, k + i, r), posn |-> r,
           out |-> Returned(v, s, w, data, base, done[j])]
    BY <2>2, <2>3, <2>5, <2>6, <2>8
  <2>10. ascon_permute(Within(v, s, w, k + i, r), v.round) = Within(v, s, w, k + j, posn[j])
    <3>1. k + i \in Nat /\ (k + i) + 1 = k + j
      BY ONLY <2>1, k \in Nat, n \in Nat
    <3>2. ascon_permute(Within(v, s, w, k + i, v.rate), v.round) = Within(v, s, w, (k + i) + 1, 0)
      BY <3>1, NextRow
    <3> QED BY <2>3, <3>1, <3>2 DEF r
  <2>11. NextBlock(v, Part(open, v, f[i], SubSeq(in, from[j], j * r - c))) = At(j)
    <3> DEFINE x == Within(v, s, w, k + i, r)
               y == Within(v, s, w, k + j, posn[j])
               o == Returned(v, s, w, data, base, done[j])
               part == Part(open, v, f[i], SubSeq(in, from[j], j * r - c))
    <3>1. part = [state |-> x, posn |-> r, out |-> o] /\ ascon_permute(x, v.round) = y
      BY <2>9, <2>10
    <3>2. At(j) = [state |-> y, posn |-> 0, out |-> o]
      BY <2>3 DEF At
    <3> HIDE DEF x, y, o, part
    <3>3. NextBlock(v, part) = [state |-> y, posn |-> 0, out |-> o]
      <4>1. NextBlock(v, [state |-> x, posn |-> r, out |-> o]) =
              [state |-> ascon_permute(x, v.round), posn |-> 0, out |-> o]
        BY NextBlockState
      <4> QED BY ONLY <3>1, <4>1
    <3> QED BY <3>2, <3>3 DEF part
  <2> QED BY <2>11 DEF i
<1>6. f = [j \in 0 .. n |->
             IF j = 0 THEN [state |-> Within(v, s, w, k, c), posn |-> c, out |-> <<>>]
             ELSE NextBlock(v, Part(open, v, f[j - 1], SubSeq(in, from[j], j * v.rate - c)))]
  <2>1. At(0) = [state |-> Within(v, s, w, k, c), posn |-> c, out |-> <<>>]
    <3>1. done[0] = 0 /\ posn[0] = c /\ k + 0 = k
      OBVIOUS
    <3>2. Returned(v, s, w, data, base, 0) = <<>>
      BY ReturnedSequence, LengthZero
    <3> HIDE DEF done, posn
    <3> QED BY <3>1, <3>2
  <2>2. \A j \in 0 .. n : f[j] = At(j)
    OBVIOUS
  <2>3. f = [j \in 0 .. n |-> f[j]]
    OBVIOUS
  <2> HIDE DEF f, At, from
  <2>4. ASSUME NEW j \in 0 .. n
        PROVE  f[j] = IF j = 0 THEN [state |-> Within(v, s, w, k, c), posn |-> c, out |-> <<>>]
                      ELSE NextBlock(v, Part(open, v, f[j - 1], SubSeq(in, from[j], j * v.rate - c)))
    <3>1. CASE j = 0
      BY <2>1, <2>2, <3>1
    <3>2. CASE j # 0
      <4>1. j \in 1 .. n
        BY <3>2
      <4> QED BY <1>5, <2>2, <3>2, <4>1 DEF r
    <3> QED BY <3>1, <3>2
  <2> QED BY ONLY <2>3, <2>4
<1>7. from = [j \in 1 .. n + 1 |-> IF j = 1 THEN 1 ELSE (j - 1) * v.rate - c + 1]
  BY DEF r
<1>8. f[n] = At(n)
  OBVIOUS
<1>9. n \in 0 .. n
  OBVIOUS
<1> HIDE DEF f, from
<1>10. Blocks(open, v, Within(v, s, w, k, c), in, c) =
         Part(open, v, f[n], SubSeq(in, from[n + 1], Len(in)))
  <2> DEFINE st == Within(v, s, w, k, c)
  <2>1. Loop(open, v, st, in, c, n, from, f)
    BY <1>6, <1>7 DEF Loop
  <2> HIDE DEF st
  <2> QED BY ONLY <2>1, BlocksFunction DEF st
<1> DEFINE m == l - done[n]
<1> HIDE DEF done, posn, At
<1>11. m \in Nat /\ done[n] + m = l /\ posn[n] + m = e
  <2>1. done[n] \in Nat /\ posn[n] \in Nat /\ done[n] <= l
        /\ base + done[n] = (k + n) * r + posn[n]
    BY <1>3, <1>9
  <2>2. (k + n) * r = k * r + n * r /\ k * r \in Nat
    BY ONLY <1>1, k \in Nat, n \in Nat
  <2>3. base = k * r + c
    BY DEF r
  <2> QED BY ONLY <1>1, <1>2, <2>1, <2>2, <2>3
<1>12. posn[n] + m <= r /\ done[n] + m <= l
  BY ONLY <1>1, <1>2, <1>11
<1> HIDE DEF m
<1>13. Part(open, v, At(n), SubSeq(in, done[n] + 1, done[n] + m)) =
         [state |-> Within(v, s, w, k + n, posn[n] + m), posn |-> posn[n] + m,
          out |-> Returned(v, s, w, data, base, done[n] + m)]
  BY <1>4, <1>9, <1>11, <1>12
<1>14. from[n + 1] = done[n] + 1
  BY <1>3, <1>9
<1> QED BY <1>8, <1>10, <1>11, <1>13, <1>14 DEF l

\* The state when the first n bytes are stored.
At(v, s, w, n) == Within(v, s, w, n \div v.rate, n % v.rate)

\* A call that is given bytes from + 1 .. to of data.
Run(open, v, s, w, data, from, in, to) ==
  /\ from \in Nat /\ IsSequence(in) /\ to = from + Len(in)
  /\ Matches(open, v, s, w, data, to)
  /\ \A i \in 1 .. Len(in) : in[i] = data[from + i]

LEMMA BlocksAt ==
  ASSUME NEW open, NEW v, NEW s, NEW w, NEW data, NEW from, NEW in, NEW to,
         open \in BOOLEAN, Rated(v), IsState(s), Run(open, v, s, w, data, from, in, to)
  PROVE  Blocks(open, v, At(v, s, w, from), in, from % v.rate) =
           [state |-> At(v, s, w, to), posn |-> to % v.rate,
            out |-> Returned(v, s, w, data, from, Len(in))]
<1> DEFINE r == v.rate
           l == Len(in)
           k == from \div r
           c == from % r
           n == (c + l) \div r
           e == (c + l) % r
<1>1. /\ from \in Nat /\ IsSequence(in) /\ to = from + l /\ l \in Nat /\ r \in Nat \ {0}
      /\ Matches(open, v, s, w, data, from + Len(in))
      /\ \A i \in 1 .. Len(in) : in[i] = data[from + i]
  <2>1. IsSequence(in) /\ r \in Nat \ {0}
    BY DEF Run, Rated
  <2>2. l \in Nat
    BY <2>1, SequenceLength
  <2> QED BY <2>1, <2>2 DEF Run
<1>2. k \in Nat /\ c \in 0 .. r - 1 /\ from = k * r + c
  BY ONLY <1>1, Division
<1>3. c + l \in Nat
  <2> HIDE DEF c, l, r, k
  <2> QED BY ONLY <1>1, <1>2
<1>4. n \in Nat /\ e \in 0 .. r - 1 /\ c + l = n * r + e
  BY ONLY <1>1, <1>3, Division
<1>5. to \div r = k + n /\ to % r = e
  <2> HIDE DEF k, c, n, e, l, r
  <2>1. to = (k + n) * r + e /\ k + n \in Nat
    <3>1. (k + n) * r = k * r + n * r
      BY ONLY <1>1, <1>2, <1>4
    <3>2. k * r \in Nat /\ n * r \in Nat
      BY ONLY <1>1, <1>2, <1>4
    <3> QED BY ONLY <1>1, <1>2, <1>4, <3>1, <3>2
  <2>2. ((k + n) * r + e) \div r = k + n /\ ((k + n) * r + e) % r = e
    BY ONLY <1>1, <1>4, <2>1, DivisionUnique
  <2> QED BY ONLY <2>1, <2>2
<1>6. /\ k \in Nat /\ c \in 0 .. v.rate - 1 /\ from = k * v.rate + c
      /\ n = (c + Len(in)) \div v.rate /\ e = (c + Len(in)) % v.rate
  BY ONLY <1>2
<1> HIDE DEF k, c, n, e
<1>7. Blocks(open, v, Within(v, s, w, k, c), in, c) =
        [state |-> Within(v, s, w, k + n, e), posn |-> e,
         out |-> Returned(v, s, w, data, from, Len(in))]
  <2>1. Spans(v, data, k, c, in, from, n, e)
    BY <1>1, <1>4, <1>6 DEF Spans
  <2>2. Matches(open, v, s, w, data, from + Len(in))
    BY <1>1
  <2> QED BY ONLY <2>1, <2>2, open \in BOOLEAN, Rated(v), IsState(s), BlocksWithin
<1>8. At(v, s, w, from) = Within(v, s, w, k, c) /\ from % v.rate = c
  BY DEF At, k, c
<1>9. At(v, s, w, to) = Within(v, s, w, k + n, e) /\ to % v.rate = e
  BY <1>5 DEF At
<1> QED BY ONLY <1>7, <1>8, <1>9

-----------------------------------------------------------------------------
(* Data that has not left a state. *)

IsPlain(x) == \A a \in x : a[1] # "px"
PlainData(data) == \A i \in Nat \ {0} : IsPlain(data[i])
PlainBytes(d) == IsSequence(d) /\ \A i \in 1 .. Len(d) : IsPlain(d[i])

LEMMA PlainCame ==
  ASSUME NEW c, NEW x, IsPlain(x)
  PROVE  Came(c, x) = x
BY DEF Came, IsPlain

LEMMA PlainEnters ==
  ASSUME NEW s, NEW d, PlainBytes(d)
  PROVE  Entering(s, d) = d
<1> DEFINE t == Entering(s, d)
<1>1. IsSequence(d) /\ \A i \in 1 .. Len(d) : IsPlain(d[i])
  BY DEF PlainBytes
<1>2. IsSequence(t) /\ Len(t) = Len(d) /\ \A i \in 1 .. Len(d) : t[i] = Came(s.chain, d[i])
  BY <1>1, EnteringBytes
<1> HIDE DEF t
<1>3. \A i \in 1 .. Len(d) : t[i] = d[i]
  BY <1>1, <1>2, PlainCame
<1>4. t = d
  BY <1>1, <1>2, <1>3, SameSequence
<1> QED BY <1>4 DEF t

\* What encrypting such data stores.
Mixed(v, s, data) ==
  [i \in Nat \ {0} |-> Xor(Row(s, (i - 1) \div v.rate)[(i - 1) % v.rate], data[i])]

LEMMA SlotDivision ==
  ASSUME NEW v, NEW i, NEW k, NEW q, Rated(v), Slot(v, i, k, q)
  PROVE  /\ (i - 1) \div v.rate = k /\ (i - 1) % v.rate = q
         /\ k \in Nat /\ q \in 0 .. v.rate - 1 /\ i \in Nat \ {0} /\ i = k * v.rate + q + 1
<1> DEFINE r == v.rate
           m == k * r
<1>1. r \in Nat \ {0} /\ k \in Nat /\ q \in 0 .. r - 1 /\ i = m + q + 1
  BY DEF Rated, Slot
<1>2. m \in Nat
  BY ONLY <1>1
<1>3. (m + q) \div r = k /\ (m + q) % r = q
  BY ONLY <1>1, DivisionUnique
<1> HIDE DEF r, m
<1>4. i - 1 = m + q /\ i \in Nat \ {0}
  BY ONLY <1>1, <1>2
<1>5. (i - 1) \div r = k /\ (i - 1) % r = q
  BY <1>3, <1>4
<1> QED BY <1>1, <1>4, <1>5 DEF r, m

LEMMA SlotOf ==
  ASSUME NEW v, NEW i, Rated(v), i \in Nat \ {0}
  PROVE  Slot(v, i, (i - 1) \div v.rate, (i - 1) % v.rate)
<1> DEFINE j == i - 1
           r == v.rate
<1>1. j \in Nat /\ r \in Nat \ {0} /\ i = j + 1
  BY DEF Rated
<1> HIDE DEF j, r
<1>2. j \div r \in Nat /\ j % r \in 0 .. r - 1 /\ j = (j \div r) * r + (j % r)
  BY ONLY <1>1, Division
<1> DEFINE k == j \div r
           q == j % r
           m == k * r
<1>3. k \in Nat /\ q \in 0 .. r - 1 /\ j = m + q
  BY <1>2
<1>3a. m \in Nat
  BY ONLY <1>1, <1>3
<1> HIDE DEF m
<1>4. i = m + q + 1
  BY ONLY <1>1, <1>3, <1>3a
<1> HIDE DEF k, q
<1>5. Slot(v, i, k, q)
  BY <1>3, <1>4 DEF Slot, m, r
<1> QED BY <1>5 DEF k, q, j, r

LEMMA MixedByte ==
  ASSUME NEW v, NEW s, NEW data, NEW i, NEW k, NEW q, Rated(v), Slot(v, i, k, q)
  PROVE  Mixed(v, s, data)[i] = Xor(Row(s, k)[q], data[i])
<1>1. (i - 1) \div v.rate = k /\ (i - 1) % v.rate = q /\ i \in Nat \ {0}
  BY ONLY Rated(v), Slot(v, i, k, q), SlotDivision
<1> QED BY ONLY <1>1 DEF Mixed

LEMMA MixedMatches ==
  ASSUME NEW v, NEW s, NEW data, NEW n, Rated(v), PlainData(data)
  PROVE  Matches(FALSE, v, s, Mixed(v, s, data), data, n)
<1> DEFINE w == Mixed(v, s, data)
<1> HIDE DEF w
<1>1. ASSUME NEW k \in Nat, NEW q \in 0 .. v.rate - 1
      PROVE  w[k * v.rate + q + 1] =
               StoredByte(FALSE, History(v, s, w, k), Row(s, k)[q], data[k * v.rate + q + 1])
  <2> DEFINE i == k * v.rate + q + 1
             h == History(v, s, w, k)
  <2>1. Slot(v, i, k, q)
    BY DEF Slot
  <2> HIDE DEF i, h
  <2>2. i \in Nat \ {0}
    BY ONLY <2>1, Rated(v), SlotDivision
  <2>3. w[i] = Xor(Row(s, k)[q], data[i])
    BY ONLY <2>1, Rated(v), MixedByte DEF w
  <2>4. Came(h, data[i]) = data[i]
    BY <2>2, PlainCame DEF PlainData
  <2>5. w[i] = StoredByte(FALSE, h, Row(s, k)[q], data[i])
    BY <2>3, <2>4 DEF StoredByte
  <2> QED BY <2>5 DEF i, h
<1> QED BY <1>1 DEF Matches, w

-----------------------------------------------------------------------------
(* The reference works on padded blocks. *)

\* d is the first n bytes of data.
Sampled(d, data, n) ==
  IsSequence(d) /\ Len(d) = n /\ n \in Nat /\ \A i \in 1 .. n : d[i] = data[i]

Padded(data, n, i) == IF i <= n THEN data[i] ELSE IF i = n + 1 THEN PadByte ELSE {}

\* b is the block after k blocks of the first n bytes of data and their padding.
PaddedBytes(v, data, n, k, b) ==
  /\ IsSequence(b) /\ Len(b) = v.rate
  /\ \A i \in 1 .. v.rate : b[i] = Padded(data, n, k * v.rate + i)

LEMMA PaddedBlock ==
  ASSUME NEW v, NEW d, NEW data, NEW n, NEW j,
         Rated(v), Sampled(d, data, n), j \in 1 .. n \div v.rate + 1
  PROVE  PaddedBytes(v, data, n, j - 1, PaddedBlocks(v, d)[j])
<1> DEFINE r == v.rate
           one == <<PadByte>>
           z == Zeroes(r)
           e == Joined(d, one)
           all == Joined(e, z)
           p == (j - 1) * r
           b == SubSeq(all, p + 1, j * r)
<1>1. IsSequence(d) /\ Len(d) = n /\ n \in Nat /\ \A i \in 1 .. n : d[i] = data[i]
  BY DEF Sampled
<1>2. r \in Nat \ {0}
  BY DEF Rated
<1>3. IsSequence(one) /\ Len(one) = 1 /\ one[1] = PadByte
  BY SingleSequence
<1>4. IsSequence(z) /\ Len(z) = r /\ \A i \in 1 .. r : z[i] = {}
  <2>1. z = [i \in 1 .. r |-> z[i]] /\ \A i \in 1 .. r : z[i] = {}
    BY DEF Zeroes
  <2> HIDE DEF z
  <2>2. r \in Nat
    BY <1>2
  <2> QED BY ONLY <2>1, <2>2, FunctionSequence
<1> HIDE DEF one, z
<1>5. IsSequence(e) /\ Len(e) = Len(d) + Len(one)
      /\ (\A i \in 1 .. Len(d) : e[i] = d[i]) /\ \A i \in 1 .. Len(one) : e[Len(d) + i] = one[i]
  <2>1. IsSequence(d) /\ IsSequence(one)
    BY <1>1, <1>3
  <2> QED BY ONLY <2>1, JoinedItems
<1> HIDE DEF e
<1>6. IsSequence(all) /\ Len(all) = Len(e) + Len(z)
      /\ (\A i \in 1 .. Len(e) : all[i] = e[i]) /\ \A i \in 1 .. Len(z) : all[Len(e) + i] = z[i]
  BY ONLY <1>4, <1>5, JoinedItems
<1> HIDE DEF all
<1>7. Len(all) = n + 1 + r /\ \A i \in 1 .. n + 1 + r : all[i] = Padded(data, n, i)
  <2>1. Len(e) = n + 1 /\ Len(all) = n + 1 + r
    BY ONLY <1>1, <1>2, <1>3, <1>4, <1>5, <1>6
  <2>2. ASSUME NEW i \in 1 .. n + 1 + r PROVE all[i] = Padded(data, n, i)
    <3>1. CASE i <= n
      <4>1. i \in 1 .. Len(d) /\ i \in 1 .. Len(e) /\ i \in 1 .. n
        BY ONLY <1>1, <2>1, <3>1, i \in 1 .. n + 1 + r, <1>2
      <4>2. all[i] = data[i]
        BY <1>1, <1>5, <1>6, <4>1
      <4> QED BY <3>1, <4>2 DEF Padded
    <3>2. CASE i = n + 1
      <4>1. n + 1 \in 1 .. Len(e) /\ 1 \in 1 .. Len(one) /\ Len(d) + 1 = n + 1
        BY ONLY <1>1, <1>3, <2>1
      <4>2. all[n + 1] = e[n + 1] /\ e[Len(d) + 1] = one[1]
        BY <1>5, <1>6, <4>1
      <4>3. ~(n + 1 <= n)
        BY ONLY <1>1
      <4> QED BY <1>3, <3>2, <4>1, <4>2, <4>3 DEF Padded
    <3>3. CASE i > n + 1
      <4>1. i - (n + 1) \in 1 .. r /\ Len(e) + (i - (n + 1)) = i /\ ~(i <= n) /\ i # n + 1
        BY ONLY <1>1, <1>2, <2>1, <3>3, i \in 1 .. n + 1 + r
      <4>2. all[i] = {}
        BY <1>4, <1>6, <4>1
      <4> QED BY <4>1, <4>2 DEF Padded
    <3> QED BY ONLY <1>1, <1>2, <3>1, <3>2, <3>3, i \in 1 .. n + 1 + r
  <2> QED BY <2>1, <2>2
<1>8. p \in Nat /\ j * r = p + r /\ p + r <= n + 1 + r
  <2> DEFINE k == n \div r
             m == j - 1
  <2>1. m \in Nat /\ m <= k /\ j = m + 1 /\ k \in Nat /\ k * r \in Nat /\ k * r <= n
    <3>1. k \in Nat /\ n % r \in 0 .. r - 1 /\ n = k * r + (n % r)
      BY ONLY <1>1, <1>2, Division
    <3> HIDE DEF k
    <3>2. k * r \in Nat
      BY ONLY <1>2, <3>1
    <3>3. j \in 1 .. k + 1
      BY DEF k
    <3> HIDE DEF r
    <3> QED BY ONLY <1>2, <3>1, <3>2, <3>3
  <2> HIDE DEF k, m, r
  <2>2. (m + 1) * r = m * r + r /\ m * r \in Nat
    BY ONLY <1>2, <2>1
  <2>3. m * r <= k * r
    <3>1. CASE m = k
      BY <2>1, <3>1
    <3>2. CASE m # k
      <4>1. m * r + r <= k * r
        BY ONLY <1>2, <2>1, <3>2, ProductOrder
      <4> QED BY ONLY <1>2, <2>1, <2>2, <4>1
    <3> QED BY <3>1, <3>2
  <2>4. p = m * r
    BY DEF m
  <2> HIDE DEF p
  <2> QED BY ONLY <1>1, <1>2, <2>1, <2>2, <2>3, <2>4
<1> HIDE DEF p
<1>9. p + 1 \in 1 .. Len(all) + 1 /\ j * r \in (p + 1) - 1 .. Len(all)
      /\ j * r - (p + 1) + 1 = r
  <2> DEFINE x == j * r
  <2> HIDE DEF x
  <2>1. x = p + r
    BY <1>8 DEF x
  <2>2. p + 1 \in 1 .. Len(all) + 1 /\ x \in (p + 1) - 1 .. Len(all) /\ x - (p + 1) + 1 = r
    BY ONLY <1>1, <1>2, <1>7, <1>8, <2>1
  <2> QED BY <2>2 DEF x
<1>10. IsSequence(b) /\ Len(b) = r /\ \A i \in 1 .. r : b[i] = all[(p + 1) + i - 1]
  <2>1. CutFrom(all, p, j * r, r)
    BY <1>9 DEF CutFrom
  <2>2. b = Between(all, p, j * r)
    BY DEF Between
  <2> HIDE DEF b
  <2>3. IsCut(all, p, Between(all, p, j * r), r)
    BY ONLY <1>6, <2>1, CutSequence
  <2> QED BY <2>2, <2>3 DEF IsCut
<1>11. PaddedBlocks(v, d)[j] = b
  BY <1>1 DEF PaddedBlocks, Joined, b, p, all, e, z, one
<1> HIDE DEF b
<1>12. ASSUME NEW i \in 1 .. r PROVE b[i] = Padded(data, n, p + i)
  <2>1. (p + 1) + i - 1 = p + i /\ p + i \in 1 .. n + 1 + r
    BY ONLY <1>1, <1>2, <1>8, i \in 1 .. r
  <2> QED BY <1>7, <1>10, <2>1
<1> QED BY <1>10, <1>11, <1>12 DEF p, PaddedBytes

AddedTo(b, d, at) ==
  [q \in 0 .. STATE_SIZE - 1 |->
     IF q \in Touched(at, Len(d)) THEN Xor(b[q], d[q - at + 1]) ELSE b[q]]

LEMMA AddedState ==
  ASSUME NEW h, NEW b, NEW d, NEW at, DOMAIN b = 0 .. STATE_SIZE - 1
  PROVE  ascon_add_bytes([chain |-> h, b |-> b], d, at) = [chain |-> h, b |-> AddedTo(b, d, at)]
<1> DEFINE g == AddedTo(b, d, at)
           s == [chain |-> h, b |-> b]
<1>1. ascon_add_bytes(s, d, at) = [s EXCEPT !.b = g]
  BY DEF ascon_add_bytes, AddedTo
<1> HIDE DEF g
<1>2. [s EXCEPT !.b = g] = [chain |-> h, b |-> g]
  OBVIOUS
<1> QED BY ONLY <1>1, <1>2 DEF s, g

LEMMA XorEmpty ==
  ASSUME NEW a
  PROVE  Xor(a, {}) = a
BY DEF Xor

LEMMA PaddedIsPlain ==
  ASSUME NEW data, NEW n, NEW i, PlainData(data), i \in Nat \ {0}
  PROVE  IsPlain(Padded(data, n, i))
<1>1. IsPlain(PadByte) /\ IsPlain({})
  BY DEF IsPlain, PadByte
<1> QED BY <1>1 DEF Padded, PlainData

\* The k-th full block, and the rest with its padding.
LEMMA FullBlock ==
  ASSUME NEW v, NEW s, NEW data, NEW n, NEW k, NEW b,
         Rated(v), IsState(s), PlainData(data), n \in Nat, k \in Nat, k * v.rate + v.rate <= n,
         PaddedBytes(v, data, n, k, b)
  PROVE  ascon_add_bytes(Within(v, s, Mixed(v, s, data), k, 0), b, 0) =
           Within(v, s, Mixed(v, s, data), k, v.rate)
<1> IsSequence(b) /\ Len(b) = v.rate
    /\ \A i \in 1 .. v.rate : b[i] = Padded(data, n, k * v.rate + i)
  BY DEF PaddedBytes
<1> DEFINE w == Mixed(v, s, data)
           m == k * v.rate
           r == v.rate
<1> HIDE DEF w
<1>1. r \in Nat \ {0} /\ m \in Nat /\ m + r <= n
  BY DEF Rated
<1>2. ASSUME NEW i \in 1 .. r PROVE b[i] = data[m + i] /\ IsPlain(b[i])
  <2>1. m + i <= n /\ m + i \in Nat \ {0}
    <3> HIDE DEF m, r
    <3> QED BY ONLY <1>1, i \in 1 .. r, n \in Nat
  <2>2. b[i] = Padded(data, n, m + i)
    OBVIOUS
  <2> DEFINE x == m + i
  <2> HIDE DEF x
  <2>3. x <= n /\ x \in Nat \ {0} /\ b[i] = Padded(data, n, x)
    BY <2>1, <2>2 DEF x
  <2>4. IsPlain(b[i])
    BY <2>3, PaddedIsPlain
  <2>5. b[i] = data[x]
    BY <2>3 DEF Padded
  <2> QED BY <2>4, <2>5 DEF x
<1>3. PlainBytes(b)
  BY <1>2 DEF PlainBytes
<1> DEFINE x == Within(v, s, w, k, 0)
<1> HIDE DEF x
<1>4. Put(FALSE, x, b, 0) = ascon_add_bytes(x, b, 0)
  BY ONLY <1>3, PlainEnters DEF Put
<1>5. Put(FALSE, Within(v, s, w, k, 0), b, 0) = Within(v, s, w, k, r)
  <2>1. Matches(FALSE, v, s, w, data, n)
    BY MixedMatches DEF w
  <2>2. m \in Nat /\ m = k * v.rate + 0 /\ r = 0 + Len(b) /\ r <= v.rate /\ m + Len(b) <= n
        /\ 0 \in Nat /\ FALSE \in BOOLEAN
    BY <1>1
  <2>3. \A i \in 1 .. Len(b) : b[i] = data[m + i]
    BY <1>1, <1>2
  <2> HIDE DEF m, r
  <2>4. Piece(v, data, k, 0, b, m, r)
    BY <2>2, <2>3 DEF Piece
  <2> DEFINE open == FALSE
  <2>5. open \in BOOLEAN /\ Matches(open, v, s, w, data, n)
    BY <2>1
  <2> HIDE DEF open
  <2>6. Put(open, Within(v, s, w, k, 0), b, 0) = Within(v, s, w, k, r)
    BY ONLY <2>2, <2>4, <2>5, Rated(v), IsState(s), n \in Nat, PutWithin
  <2> QED BY <2>6 DEF open
<1> QED BY <1>4, <1>5 DEF w, x

\* n bytes are k blocks and c bytes.
Blocked(v, n, k, c) ==
  n \in Nat /\ k \in Nat /\ c \in 0 .. v.rate - 1 /\ n = k * v.rate + c

LEMMA LastBlock ==
  ASSUME NEW v, NEW s, NEW data, NEW n, NEW k, NEW c, NEW b,
         Rated(v), IsState(s), Blocked(v, n, k, c), PaddedBytes(v, data, n, k, b)
  PROVE  ascon_add_bytes(Within(v, s, Mixed(v, s, data), k, 0), b, 0) =
           ascon_pad(Within(v, s, Mixed(v, s, data), k, c), c)
<1> IsSequence(b) /\ Len(b) = v.rate
    /\ \A i \in 1 .. v.rate : b[i] = Padded(data, n, k * v.rate + i)
  BY DEF PaddedBytes
<1> n \in Nat /\ k \in Nat /\ c \in 0 .. v.rate - 1 /\ n = k * v.rate + c
  BY DEF Blocked
<1> DEFINE w == Mixed(v, s, data)
           m == k * v.rate
           r == v.rate
           h == History(v, s, w, k)
           x == Stored(v, s, w, k, 0)
           y == Stored(v, s, w, k, c)
           one == <<PadByte>>
<1> HIDE DEF w
<1>1. /\ r \in Nat \ {0} /\ m \in Nat /\ n = m + c /\ r < STATE_SIZE /\ STATE_SIZE \in Nat
      /\ c \in 0 .. r - 1
  BY StateSize DEF Rated
<1>2. DOMAIN x = 0 .. STATE_SIZE - 1 /\ DOMAIN y = 0 .. STATE_SIZE - 1
  BY DEF Stored
<1>3. IsSequence(one) /\ Len(one) = 1 /\ one[1] = PadByte
  BY SingleSequence
<1> HIDE DEF one
<1>4. ASSUME NEW q \in 0 .. STATE_SIZE - 1
      PROVE  (IF q \in Touched(0, Len(b)) THEN Xor(x[q], b[q - 0 + 1]) ELSE x[q]) =
               IF q \in Touched(c, Len(one)) THEN Xor(y[q], one[q - c + 1]) ELSE y[q]
  <2>1. x[q] = Row(s, k)[q] /\ y[q] = IF q < c THEN w[m + q + 1] ELSE Row(s, k)[q]
    BY DEF Stored
  <2>2. (q \in Touched(0, Len(b))) <=> q < r
    BY <1>1 DEF Touched
  <2>3. (q \in Touched(c, Len(one))) <=> q = c
    <3> HIDE DEF m, r
    <3> QED BY <1>1, <1>3 DEF Touched
  <2>4. q < r => b[q - 0 + 1] = Padded(data, n, m + q + 1)
    <3>1. q < r => q + 1 \in 1 .. r /\ q - 0 + 1 = q + 1 /\ m + (q + 1) = m + q + 1
      <4> HIDE DEF m, r
      <4> QED BY ONLY <1>1, q \in 0 .. STATE_SIZE - 1
    <3> QED BY <3>1
  <2> HIDE DEF x, y
  <2>5. CASE q < c
    <3> DEFINE i == m + q + 1
    <3>1. q < r /\ q # c /\ i <= n /\ q \in 0 .. r - 1
      <4> HIDE DEF m, r
      <4> QED BY ONLY <1>1, <2>5, q \in 0 .. STATE_SIZE - 1
    <3>2. Slot(v, i, k, q)
      BY <3>1 DEF Slot
    <3> HIDE DEF i
    <3>3. w[i] = Xor(Row(s, k)[q], data[i])
      BY ONLY <3>2, Rated(v), MixedByte DEF w
    <3>4. b[q - 0 + 1] = data[i]
      BY <2>4, <3>1 DEF Padded, i
    <3> QED BY ONLY <2>1, <2>2, <2>3, <2>5, <3>1, <3>3, <3>4 DEF i
  <2>6. CASE q = c
    <3>1. q < r /\ ~(q < c) /\ m + q + 1 = n + 1 /\ ~(n + 1 <= n)
      <4> HIDE DEF m, r
      <4> QED BY ONLY <1>1, <2>6, q \in 0 .. STATE_SIZE - 1
    <3>2. b[q - 0 + 1] = PadByte
      BY <2>4, <3>1 DEF Padded
    <3>3. one[q - c + 1] = PadByte
      <4>1. q - c + 1 = 1
        BY <1>1, <2>6
      <4> QED BY <1>3, <4>1
    <3> QED BY ONLY <2>1, <2>2, <2>3, <2>6, <3>1, <3>2, <3>3
  <2>7. CASE q > c
    <3>1. ~(q < c) /\ q # c /\ ~(m + q + 1 <= n) /\ m + q + 1 # n + 1
      <4> HIDE DEF m, r
      <4> QED BY ONLY <1>1, <2>7, q \in 0 .. STATE_SIZE - 1
    <3>2. q < r => b[q - 0 + 1] = {}
      BY <2>4, <3>1 DEF Padded
    <3>3. Xor(Row(s, k)[q], {}) = Row(s, k)[q]
      BY XorEmpty
    <3> QED BY ONLY <2>1, <2>2, <2>3, <3>1, <3>2, <3>3
  <2> QED BY <1>1, <2>5, <2>6, <2>7
<1> HIDE DEF x, y
<1>5. AddedTo(x, b, 0) = AddedTo(y, one, c)
  BY <1>4 DEF AddedTo
<1>6. ascon_add_bytes([chain |-> h, b |-> x], b, 0) = [chain |-> h, b |-> AddedTo(x, b, 0)]
  BY <1>2, AddedState
<1>7. ascon_add_bytes([chain |-> h, b |-> y], one, c) = [chain |-> h, b |-> AddedTo(y, one, c)]
  BY <1>2, AddedState
<1> HIDE DEF h
<1>8. ascon_add_bytes([chain |-> h, b |-> x], b, 0) =
        ascon_add_bytes([chain |-> h, b |-> y], one, c)
  BY ONLY <1>5, <1>6, <1>7
<1> QED BY <1>8 DEF ascon_pad, Within, h, x, y, w, one

\* f is what the reference's recursion defines.
DuplexLoop(v, s, d, f) ==
  f = [j \in 1 .. Len(d) \div v.rate + 1 |->
         ascon_add_bytes(IF j = 1 THEN s ELSE ascon_permute(f[j - 1], v.round),
                         PaddedBlocks(v, d)[j], 0)]

LEMMA DuplexFunction ==
  ASSUME NEW v, NEW s, NEW d, NEW f, NEW n, n = Len(d) \div v.rate + 1, n \in Nat,
         DuplexLoop(v, s, d, f)
  PROVE  \A j \in 1 .. n : Duplex(v, s, d)[j] = f[j]
<1> DEFINE blocks == PaddedBlocks(v, d)
           Step(x, j) == ascon_add_bytes(IF j = 1 THEN s ELSE ascon_permute(x, v.round),
                                         blocks[j], 0)
           Equation(h) == h = [j \in 1 .. n |-> Step(h[j - 1], j)]
           g == CHOOSE x : Equation(x)
<1>1. Duplex(v, s, d) = g
  BY DEF Duplex
<1>2. Equation(f)
  BY DEF DuplexLoop
<1>3. Equation(g)
  <2> HIDE DEF Equation
  <2> QED BY <1>2
<1>4. ASSUME NEW x, NEW y PROVE Step(x, 1) = Step(y, 1)
  OBVIOUS
<1> HIDE DEF g, Step
<1> DEFINE Bad == {j \in 1 .. n : g[j] # f[j]}
<1>5. Bad = {}
  <2> SUFFICES ASSUME Bad # {} PROVE FALSE
    OBVIOUS
  <2>1. Bad \in SUBSET Nat
    BY ONLY n \in Nat
  <2>2. PICK j \in Bad : \A y \in Bad : j <= y
    BY <2>1, LeastNumber
  <2>3. j \in 1 .. n /\ g[j] # f[j]
    OBVIOUS
  <2>4. g[j] = Step(g[j - 1], j) /\ f[j] = Step(f[j - 1], j)
    BY <1>2, <1>3, <2>3
  <2>5. CASE j = 1
    BY <1>4, <2>3, <2>4, <2>5
  <2>6. CASE j # 1
    <3>1. j - 1 \in 1 .. n /\ j - 1 \notin Bad
      <4>1. j - 1 \in 1 .. n /\ ~(j <= j - 1)
        BY ONLY <2>3, <2>6, n \in Nat
      <4> HIDE DEF Bad
      <4> QED BY <2>2, <4>1
    <3>2. g[j - 1] = f[j - 1]
      BY <3>1
    <3> QED BY <2>3, <2>4, <3>2
  <2> QED BY <2>5, <2>6
<1> QED BY <1>1, <1>5

\* The duplex sponge with n bytes of data in all, at its j-th block.
Sponged(v, s, data, n, j) ==
  IF j <= n \div v.rate THEN Within(v, s, Mixed(v, s, data), j - 1, v.rate)
  ELSE ascon_pad(At(v, s, Mixed(v, s, data), n), n % v.rate)

LEMMA DuplexBlocks ==
  ASSUME NEW v, NEW s, NEW d, NEW data, NEW n,
         Rated(v), IsState(s), PlainData(data), Sampled(d, data, n)
  PROVE  \A j \in 1 .. n \div v.rate + 1 : Duplex(v, s, d)[j] = Sponged(v, s, data, n, j)
<1> DEFINE w == Mixed(v, s, data)
           r == v.rate
           k == n \div r
           c == n % r
           f == [j \in 1 .. k + 1 |-> Sponged(v, s, data, n, j)]
<1> HIDE DEF w
<1>1. r \in Nat \ {0} /\ n \in Nat /\ Len(d) = n
  BY DEF Rated, Sampled
<1>2. k \in Nat /\ c \in 0 .. r - 1 /\ n = k * r + c
  BY ONLY <1>1, Division
<1>3. ASSUME NEW j \in 1 .. k + 1, NEW x, x = Within(v, s, w, j - 1, 0)
      PROVE  ascon_add_bytes(x, PaddedBlocks(v, d)[j], 0) = Sponged(v, s, data, n, j)
  <2> DEFINE b == PaddedBlocks(v, d)[j]
             m == j - 1
  <2>1. PaddedBytes(v, data, n, m, b)
    BY ONLY Rated(v), Sampled(d, data, n), j \in 1 .. n \div v.rate + 1, PaddedBlock
  <2>2. m \in Nat
    OBVIOUS
  <2> HIDE DEF b, m
  <2>3. CASE j <= k
    <3>1. m * r + r <= n
      <4>1. m < k
        BY <1>2, <2>3 DEF m
      <4> HIDE DEF k, c, r
      <4>2. m * r + r <= k * r
        BY ONLY <1>1, <1>2, <2>2, <4>1, ProductOrder
      <4>3. m * r \in Nat /\ k * r \in Nat
        BY ONLY <1>1, <1>2, <2>2
      <4> QED BY ONLY <1>1, <1>2, <4>2, <4>3
    <3>2. m * v.rate + v.rate <= n /\ n \in Nat
      BY <1>1, <3>1
    <3>3. ascon_add_bytes(Within(v, s, w, m, 0), b, 0) = Within(v, s, w, m, v.rate)
      BY <2>1, <2>2, <3>2, FullBlock DEF w
    <3>4. Sponged(v, s, data, n, j) = Within(v, s, w, m, v.rate)
      BY <2>3 DEF Sponged, w, m
    <3>5. x = Within(v, s, w, m, 0)
      BY <1>3 DEF m
    <3> QED BY ONLY <3>3, <3>4, <3>5 DEF b
  <2>4. CASE ~(j <= k)
    <3>1. m = k
      <4> HIDE DEF k
      <4> QED BY ONLY <1>2, <2>4, j \in 1 .. k + 1 DEF m
    <3>2. k \in Nat /\ c \in 0 .. v.rate - 1 /\ n = k * v.rate + c /\ n \in Nat
          /\ PaddedBytes(v, data, n, k, b)
      BY <1>1, <1>2, <2>1, <3>1
    <3> HIDE DEF k, c
    <3>2a. Blocked(v, n, k, c)
      BY <3>2 DEF Blocked
    <3>3. ascon_add_bytes(Within(v, s, w, k, 0), b, 0) = ascon_pad(Within(v, s, w, k, c), c)
      BY ONLY <2>1, <3>2, <3>2a, Rated(v), IsState(s), LastBlock DEF w
    <3>4. Sponged(v, s, data, n, j) = ascon_pad(Within(v, s, w, k, c), c)
      BY <2>4 DEF Sponged, At, w, k, c
    <3>5. x = Within(v, s, w, k, 0)
      BY <1>3, <3>1 DEF m
    <3> QED BY ONLY <3>3, <3>4, <3>5 DEF b
  <2> QED BY <2>3, <2>4
<1>4. ASSUME NEW j \in 1 .. k + 1
      PROVE  (IF j = 1 THEN s ELSE ascon_permute(f[j - 1], v.round)) = Within(v, s, w, j - 1, 0)
  <2>1. CASE j = 1
    <3>1. Within(v, s, w, 0, 0) = s /\ j - 1 = 0
      BY <2>1, FirstRow
    <3> QED BY <2>1, <3>1
  <2>2. CASE j # 1
    <3> DEFINE i == j - 2
    <3>1. i \in Nat /\ j - 1 = i + 1 /\ (j - 1) - 1 = i /\ j - 1 \in 1 .. k + 1 /\ j - 1 <= k
      <4> HIDE DEF k
      <4> QED BY ONLY <1>2, <2>2, j \in 1 .. k + 1
    <3> HIDE DEF i
    <3>2. f[j - 1] = Within(v, s, w, i, v.rate)
      <4>1. f[j - 1] = Sponged(v, s, data, n, j - 1)
        BY <3>1
      <4> HIDE DEF f
      <4> QED BY ONLY <3>1, <4>1 DEF Sponged, w
    <3>3. ascon_permute(Within(v, s, w, i, v.rate), v.round) = Within(v, s, w, i + 1, 0)
      BY <3>1, NextRow
    <3> HIDE DEF f
    <3> QED BY ONLY <2>2, <3>1, <3>2, <3>3
  <2> QED BY <2>1, <2>2
<1>5. DuplexLoop(v, s, d, f)
  <2>1. ASSUME NEW j \in 1 .. k + 1
        PROVE  f[j] = ascon_add_bytes(IF j = 1 THEN s ELSE ascon_permute(f[j - 1], v.round),
                                      PaddedBlocks(v, d)[j], 0)
    <3>1. f[j] = Sponged(v, s, data, n, j)
      OBVIOUS
    <3> HIDE DEF f
    <3> QED BY <1>3, <1>4, <3>1
  <2>2. f = [j \in 1 .. k + 1 |-> f[j]]
    OBVIOUS
  <2> HIDE DEF f
  <2>3. f = [j \in 1 .. k + 1 |->
               ascon_add_bytes(IF j = 1 THEN s ELSE ascon_permute(f[j - 1], v.round),
                               PaddedBlocks(v, d)[j], 0)]
    BY <2>1, <2>2
  <2> QED BY <1>1, <2>3 DEF DuplexLoop
<1>6. k + 1 = Len(d) \div v.rate + 1 /\ k + 1 \in Nat
  <2>1. k = Len(d) \div v.rate
    BY <1>1
  <2> HIDE DEF k
  <2> QED BY ONLY <1>2, <2>1
<1>7. \A j \in 1 .. k + 1 : f[j] = Sponged(v, s, data, n, j)
  OBVIOUS
<1> DEFINE k1 == k + 1
<1> HIDE DEF f, k1
<1>8. k1 = Len(d) \div v.rate + 1 /\ k1 \in Nat
  BY <1>6 DEF k1
<1>9. \A j \in 1 .. k1 : Duplex(v, s, d)[j] = f[j]
  BY ONLY <1>5, <1>8, DuplexFunction
<1> QED BY <1>7, <1>9 DEF k1

\* f is what the loop over blocks of associated data defines.
AbsorbLoop(v, s, d, n, rest, f) ==
  /\ n \in Nat /\ n = Len(d) \div v.rate /\ rest = SubSeq(d, n * v.rate + 1, Len(d))
  /\ f = [k \in 0 .. n |->
            IF k = 0 THEN s
            ELSE ascon_permute(Absorbed(f[k - 1],
                     SubSeq(d, (k - 1) * v.rate + 1, k * v.rate), 0), v.round)]

Absorbing(v, s, d) == AbsorbBlocks(v, s, d, TRUE)
AbsorbEnd(v, f, n, rest) == ascon_permute(ascon_pad(Absorbed(f[n], rest, 0), Len(rest)), v.round)

LEMMA AbsorbFunction ==
  ASSUME NEW v, NEW s, NEW d, NEW f, NEW n, NEW rest, AbsorbLoop(v, s, d, n, rest, f)
  PROVE  Absorbing(v, s, d) = AbsorbEnd(v, f, n, rest)
<1> n \in Nat /\ n = Len(d) \div v.rate /\ rest = SubSeq(d, n * v.rate + 1, Len(d))
  BY DEF AbsorbLoop
<1> DEFINE Step(x, k) ==
             ascon_permute(Absorbed(x, SubSeq(d, (k - 1) * v.rate + 1, k * v.rate), 0), v.round)
           Equation(h) == h = [k \in 0 .. n |-> IF k = 0 THEN s ELSE Step(h[k - 1], k)]
           g == CHOOSE x : Equation(x)
<1>1. AbsorbBlocks(v, s, d, TRUE) =
        ascon_permute(ascon_pad(Absorbed(g[n], rest, 0), Len(rest)), v.round)
  BY DEF AbsorbBlocks, PermutedIf
<1>2. Equation(f)
  BY DEF AbsorbLoop
<1>3. Equation(g)
  <2> HIDE DEF Equation
  <2> QED BY <1>2
<1> HIDE DEF g, Step
<1> DEFINE Bad == {j \in 0 .. n : g[j] # f[j]}
<1>4. Bad = {}
  <2> SUFFICES ASSUME Bad # {} PROVE FALSE
    OBVIOUS
  <2>1. Bad \in SUBSET Nat
    BY ONLY n \in Nat
  <2>2. PICK j \in Bad : \A y \in Bad : j <= y
    BY <2>1, LeastNumber
  <2>3. j \in 0 .. n /\ g[j] # f[j]
    OBVIOUS
  <2>4. CASE j = 0
    <3>1. g[j] = s /\ f[j] = s
      BY <1>2, <1>3, <2>3, <2>4
    <3> QED BY <2>3, <3>1
  <2>5. CASE j # 0
    <3>1. j - 1 \in 0 .. n /\ j - 1 \notin Bad
      <4>1. j - 1 \in 0 .. n /\ ~(j <= j - 1)
        BY ONLY <2>3, <2>5, n \in Nat
      <4> HIDE DEF Bad
      <4> QED BY <2>2, <4>1
    <3>2. g[j - 1] = f[j - 1]
      BY <3>1
    <3>3. g[j] = Step(g[j - 1], j) /\ f[j] = Step(f[j - 1], j)
      BY <1>2, <1>3, <2>3, <2>5
    <3> QED BY <2>3, <3>2, <3>3
  <2> QED BY <2>4, <2>5
<1>5. g[n] = f[n]
  <2>1. n \in 0 .. n
    OBVIOUS
  <2> QED BY <1>4, <2>1
<1> QED BY <1>1, <1>5 DEF Absorbing, AbsorbEnd

\* Bytes a + 1 .. b of d in a block of their own.
LEMMA AbsorbedPiece ==
  ASSUME NEW v, NEW s, NEW d, NEW data, NEW n, NEW k, NEW a, NEW b,
         Rated(v), IsState(s), PlainData(data), Sampled(d, data, n), k \in Nat,
         a = k * v.rate, b \in a .. n, b - a <= v.rate
  PROVE  /\ Absorbed(Within(v, s, Mixed(v, s, data), k, 0), SubSeq(d, a + 1, b), 0) =
              Within(v, s, Mixed(v, s, data), k, b - a)
         /\ Len(SubSeq(d, a + 1, b)) = b - a
<1> DEFINE w == Mixed(v, s, data)
           in == SubSeq(d, a + 1, b)
           e == b - a
           open == FALSE
<1> HIDE DEF w
<1>1. v.rate \in Nat \ {0} /\ n \in Nat /\ Len(d) = n /\ IsSequence(d)
      /\ \A i \in 1 .. n : d[i] = data[i]
  BY DEF Rated, Sampled
<1>2. a \in Nat /\ b \in Nat /\ a <= b /\ b <= n
  <2>1. k * v.rate \in Nat
    BY ONLY <1>1, k \in Nat
  <2>2. a \in Nat
    BY <2>1
  <2> QED BY ONLY <1>1, <2>2, b \in a .. n
<1>3. a + 1 \in 1 .. Len(d) + 1 /\ b \in (a + 1) - 1 .. Len(d) /\ b - (a + 1) + 1 = e
      /\ e \in Nat
  BY ONLY <1>1, <1>2
<1>4. IsSequence(in) /\ Len(in) = e /\ \A i \in 1 .. e : in[i] = d[(a + 1) + i - 1]
  <2>1. CutFrom(d, a, b, e)
    BY <1>3 DEF CutFrom
  <2>2. in = Between(d, a, b)
    BY DEF Between
  <2> HIDE DEF in
  <2>3. IsCut(d, a, Between(d, a, b), e)
    BY ONLY <1>1, <2>1, CutSequence
  <2> QED BY <2>2, <2>3 DEF IsCut
<1> HIDE DEF in
<1>5. ASSUME NEW i \in 1 .. e PROVE in[i] = data[a + i]
  <2>1. (a + 1) + i - 1 = a + i /\ a + i \in 1 .. n
    BY ONLY <1>1, <1>2, i \in 1 .. e
  <2> QED BY <1>1, <1>4, <2>1
<1>6. Piece(v, data, k, 0, in, a, e)
  <2>1. a = k * v.rate + 0
    <3>1. a = k * v.rate
      OBVIOUS
    <3> QED BY ONLY <1>2, <3>1
  <2>2. e = 0 + Len(in) /\ e <= v.rate /\ 0 \in Nat
    BY <1>3, <1>4
  <2> HIDE DEF e
  <2> QED BY <1>2, <1>4, <1>5, <2>1, <2>2 DEF Piece
<1>7. Matches(open, v, s, w, data, n) /\ open \in BOOLEAN /\ a + Len(in) <= n
  <2>1. a + Len(in) <= n
    BY ONLY <1>1, <1>2, <1>4
  <2> QED BY <2>1, MixedMatches DEF w
<1> HIDE DEF open, e
<1>8. Put(open, Within(v, s, w, k, 0), in, 0) = Within(v, s, w, k, e)
  BY ONLY <1>1, <1>6, <1>7, Rated(v), IsState(s), PutWithin
<1>9. Absorbed(Within(v, s, w, k, 0), in, 0) = Within(v, s, w, k, e)
  BY <1>8 DEF Put, Absorbed, open
<1> QED BY <1>4, <1>9 DEF w, in, e

LEMMA AbsorbedAt ==
  ASSUME NEW v, NEW s, NEW d, NEW data, NEW n,
         Rated(v), IsState(s), PlainData(data), Sampled(d, data, n)
  PROVE  AbsorbBlocks(v, s, d, TRUE) =
           ascon_permute(Sponged(v, s, data, n, n \div v.rate + 1), v.round)
<1> DEFINE w == Mixed(v, s, data)
           r == v.rate
           k == n \div r
           c == n % r
           f == [j \in 0 .. k |-> Within(v, s, w, j, 0)]
           rest == SubSeq(d, k * v.rate + 1, Len(d))
<1> HIDE DEF w
<1>1. r \in Nat \ {0} /\ n \in Nat /\ Len(d) = n
  BY DEF Rated, Sampled
<1>2. k \in Nat /\ c \in 0 .. r - 1 /\ n = k * r + c
  BY ONLY <1>1, Division
<1>3. f[0] = s
  <2>1. Within(v, s, w, 0, 0) = s
    BY FirstRow
  <2>2. 0 \in 0 .. k
    BY ONLY <1>2
  <2> QED BY <2>1, <2>2
<1>4. ASSUME NEW j \in 0 .. k, j # 0
      PROVE  f[j] = ascon_permute(Absorbed(f[j - 1],
                        SubSeq(d, (j - 1) * v.rate + 1, j * v.rate), 0), v.round)
  <2> DEFINE m == j - 1
             a == m * r
             b == j * r
  <2>1. m \in Nat /\ j = m + 1 /\ m \in 0 .. k /\ m < k
    <3> HIDE DEF k
    <3> QED BY ONLY <1>2, <1>4
  <2>2. f[m] = Within(v, s, w, m, 0) /\ f[j] = Within(v, s, w, m + 1, 0)
    BY <2>1
  <2> HIDE DEF f, m
  <2>3. b - a = r /\ b \in a .. n
    <3> HIDE DEF k, r, c
    <3>1. m * r + r <= k * r
      BY ONLY <1>1, <1>2, <2>1, ProductOrder
    <3>2. m * r \in Nat /\ k * r \in Nat /\ (m + 1) * r = m * r + r
      BY ONLY <1>1, <1>2, <2>1
    <3>3. b = (m + 1) * r
      BY <2>1
    <3> QED BY ONLY <1>1, <1>2, <3>1, <3>2, <3>3
  <2>4. a = m * v.rate /\ b \in a .. n /\ b - a <= v.rate /\ b - a = v.rate
    BY <1>1, <2>3
  <2> HIDE DEF a, b
  <2>5. Absorbed(Within(v, s, w, m, 0), SubSeq(d, a + 1, b), 0) = Within(v, s, w, m, b - a)
    BY <2>1, <2>4, AbsorbedPiece DEF w
  <2>6. ascon_permute(Within(v, s, w, m, v.rate), v.round) = Within(v, s, w, m + 1, 0)
    BY <2>1, NextRow
  <2>7. f[j] = ascon_permute(Absorbed(f[m], SubSeq(d, a + 1, b), 0), v.round)
    BY ONLY <2>2, <2>4, <2>5, <2>6
  <2> QED BY <2>7 DEF m, a, b
<1>5. AbsorbLoop(v, s, d, k, rest, f)
  <2>1. f = [j \in 0 .. k |-> f[j]]
    OBVIOUS
  <2> HIDE DEF f
  <2>2. f = [j \in 0 .. k |->
               IF j = 0 THEN s
               ELSE ascon_permute(Absorbed(f[j - 1],
                        SubSeq(d, (j - 1) * v.rate + 1, j * v.rate), 0), v.round)]
    BY <1>3, <1>4, <2>1
  <2>3. k \in Nat /\ k = Len(d) \div v.rate
    BY ONLY <1>1, <1>2
  <2> QED BY <2>2, <2>3 DEF AbsorbLoop
<1>6. f[k] = Within(v, s, w, k, 0)
  <2>1. k \in 0 .. k
    BY ONLY <1>2
  <2> QED BY <2>1
<1> HIDE DEF f, k, c, rest
<1>8. AbsorbBlocks(v, s, d, TRUE) =
        ascon_permute(ascon_pad(Absorbed(f[k], rest, 0), Len(rest)), v.round)
  <2>1. Absorbing(v, s, d) = AbsorbEnd(v, f, k, rest)
    BY ONLY <1>5, AbsorbFunction
  <2> QED BY <2>1 DEF Absorbing, AbsorbEnd
<1>9. Absorbed(Within(v, s, w, k, 0), rest, 0) = Within(v, s, w, k, c) /\ Len(rest) = c
  <2> DEFINE a == k * r
  <2>1. a \in Nat /\ n \in a .. n /\ n - a = c /\ c <= v.rate
    <3>1. a \in Nat
      BY ONLY <1>1, <1>2
    <3> HIDE DEF a
    <3>2. n = a + c
      BY <1>2 DEF a
    <3>3. c <= v.rate
      BY <1>1, <1>2
    <3> HIDE DEF r
    <3> QED BY ONLY <1>1, <1>2, <3>1, <3>2, <3>3
  <2>2. a = k * v.rate /\ n - a <= v.rate
    BY <2>1
  <2> HIDE DEF a
  <2>3. /\ Absorbed(Within(v, s, w, k, 0), SubSeq(d, a + 1, n), 0) = Within(v, s, w, k, n - a)
        /\ Len(SubSeq(d, a + 1, n)) = n - a
    BY <1>2, <2>1, <2>2, AbsorbedPiece DEF w
  <2>4. rest = SubSeq(d, a + 1, n)
    BY <1>1, <2>2 DEF rest
  <2> QED BY ONLY <2>1, <2>3, <2>4
<1>10. Sponged(v, s, data, n, k + 1) = ascon_pad(Within(v, s, w, k, c), c)
  <2>1. ~(k + 1 <= k)
    BY <1>2
  <2> QED BY <2>1 DEF Sponged, At, w, k, c
<1> QED BY <1>6, <1>8, <1>9, <1>10 DEF k

-----------------------------------------------------------------------------
(* The state that a packet begins with. *)

Ciphers == {Ascon128, Ascon128a, Ascon80pq}

\* IV, key and nonce fill a state.
Sized(v) ==
  /\ v.iv \in Nat /\ v.key \in Nat /\ v.iv + v.key = 3 * WORD /\ 2 * WORD <= v.key
  /\ Rated(v)

\* Bytes that no permutation made.
IsFresh(x) == \A a \in x : a[1] \notin {"p", "px"}
FreshBytes(d) == IsSequence(d) /\ \A i \in 1 .. Len(d) : IsFresh(d[i])

LEMMA CipherSizes ==
  ASSUME NEW v, v \in Ciphers
  PROVE  Sized(v)
<1>1. WORD \in Nat \ {0} /\ WORD \div 2 \in Nat /\ WORD \div 2 + WORD \div 2 = WORD
      /\ STATE_SIZE = 5 * WORD
  BY WordAssumption, AeadAssumption DEF STATE_SIZE
<1>2. CASE v = Ascon128
  <2>1. v.iv = WORD /\ v.key = 2 * WORD /\ v.rate = WORD
    BY <1>2 DEF Ascon128
  <2> QED BY <1>1, <2>1 DEF Sized, Rated
<1>3. CASE v = Ascon128a
  <2>1. v.iv = WORD /\ v.key = 2 * WORD /\ v.rate = 2 * WORD
    BY <1>3 DEF Ascon128, Ascon128a
  <2> QED BY <1>1, <2>1 DEF Sized, Rated
<1>4. CASE v = Ascon80pq
  <2>1. v.iv = WORD \div 2 /\ v.key = 2 * WORD + WORD \div 2 /\ v.rate = WORD
    BY <1>4 DEF Ascon128, Ascon80pq
  <2> DEFINE h == WORD \div 2
  <2>2. h \in Nat /\ h + h = WORD /\ v.iv = h /\ v.key = 2 * WORD + h
    BY <1>1, <2>1
  <2> HIDE DEF h
  <2> QED BY <1>1, <2>1, <2>2 DEF Sized, Rated
<1> QED BY <1>2, <1>3, <1>4 DEF Ciphers

Overwritten(b, d, at) ==
  [q \in 0 .. STATE_SIZE - 1 |-> IF q \in Touched(at, Len(d)) THEN d[q - at + 1] ELSE b[q]]

LEMMA OverwrittenState ==
  ASSUME NEW h, NEW b, NEW d, NEW at, DOMAIN b = 0 .. STATE_SIZE - 1
  PROVE  ascon_overwrite_bytes([chain |-> h, b |-> b], d, at) =
           [chain |-> h, b |-> Overwritten(b, d, at)]
<1> DEFINE c == Overwritten(b, d, at)
           s == [chain |-> h, b |-> b]
<1>1. ascon_overwrite_bytes(s, d, at) = [s EXCEPT !.b = c]
  BY DEF ascon_overwrite_bytes, Overwritten
<1> HIDE DEF c
<1>2. [s EXCEPT !.b = c] = [chain |-> h, b |-> c]
  OBVIOUS
<1> QED BY <1>1, <1>2 DEF c

LEMMA AddedIsState ==
  ASSUME NEW s, NEW d, NEW at, IsState(s)
  PROVE  IsState(ascon_add_bytes(s, d, at))
<1> DEFINE h == s.chain
           c == s.b
           b == AddedTo(c, d, at)
<1>1. s = [chain |-> h, b |-> c] /\ DOMAIN c = 0 .. STATE_SIZE - 1 /\ IsSequence(h)
  BY DEF IsState
<1>2. b = [q \in 0 .. STATE_SIZE - 1 |-> b[q]]
  BY DEF AddedTo
<1>3. ascon_add_bytes([chain |-> h, b |-> c], d, at) = [chain |-> h, b |-> b]
  <2> HIDE DEF h
  <2> QED BY <1>1, AddedState
<1> HIDE DEF b, h, c
<1>4. IsState([chain |-> h, b |-> b])
  BY <1>1, <1>2 DEF IsState
<1> QED BY <1>1, <1>3, <1>4

LEMMA PermutedIsState ==
  ASSUME NEW s, NEW round, IsState(s)
  PROVE  IsState(ascon_permute(s, round))
<1> DEFINE h == Append(s.chain, [round |-> round, b |-> s.b])
           b == Permuted(Len(s.chain) + 1)
<1>1. IsSequence(h)
  BY Appended DEF IsState
<1>2. b = [q \in 0 .. STATE_SIZE - 1 |-> b[q]]
  BY DEF Permuted
<1>3. ascon_permute(s, round) = [chain |-> h, b |-> b]
  BY DEF ascon_permute
<1> HIDE DEF h, b
<1>4. IsState([chain |-> h, b |-> b])
  BY <1>1, <1>2 DEF IsState
<1> QED BY <1>3, <1>4

LEMMA InitIsState == IsState(ascon_init)
<1> DEFINE b == [q \in 0 .. STATE_SIZE - 1 |-> {}]
<1>1. b = [q \in 0 .. STATE_SIZE - 1 |-> b[q]]
  OBVIOUS
<1>2. ascon_init = [chain |-> <<>>, b |-> b]
  BY DEF ascon_init
<1> HIDE DEF b
<1> QED BY <1>1, <1>2, EmptySequence DEF IsState

LEMMA IvData ==
  ASSUME NEW v, Sized(v)
  PROVE  FreshBytes(IvBytes(v, "aead")) /\ Len(IvBytes(v, "aead")) = v.iv
<1> DEFINE t == IvBytes(v, "aead")
<1>1. v.iv \in Nat
  BY DEF Sized
<1>2. t = [i \in 1 .. v.iv |-> t[i]] /\ \A i \in 1 .. v.iv : IsFresh(t[i])
  BY DEF IvBytes, IsFresh
<1> HIDE DEF t
<1>3. IsSequence(t) /\ Len(t) = v.iv
  BY <1>1, <1>2, FunctionSequence
<1> QED BY <1>2, <1>3 DEF FreshBytes, t

LEMMA NonceData ==
  ASSUME NEW npub
  PROVE  FreshBytes(NonceBytes(npub)) /\ Len(NonceBytes(npub)) = NONCE_SIZE
<1> DEFINE t == NonceBytes(npub)
<1>1. NONCE_SIZE \in Nat
  BY NonceSize
<1>2. t = [i \in 1 .. NONCE_SIZE |-> t[i]] /\ \A i \in 1 .. NONCE_SIZE : IsFresh(t[i])
  BY DEF NonceBytes, IsFresh
<1> HIDE DEF t
<1>3. IsSequence(t) /\ Len(t) = NONCE_SIZE
  BY <1>1, <1>2, FunctionSequence
<1> QED BY <1>2, <1>3 DEF FreshBytes, t

\* The bytes of the state when IV, key and nonce are in it.
Filling(v, iv, k, nonce) ==
  [q \in 0 .. STATE_SIZE - 1 |->
     IF q < v.iv THEN iv[q + 1]
     ELSE IF q < 3 * WORD THEN k[q - v.iv + 1] ELSE nonce[q - 3 * WORD + 1]]

FillsState(v, iv, k, nonce) ==
  /\ FreshBytes(iv) /\ Len(iv) = v.iv /\ FreshBytes(k) /\ Len(k) = v.key
  /\ FreshBytes(nonce) /\ Len(nonce) = 2 * WORD

LEMMA FillingIsFresh ==
  ASSUME NEW v, NEW iv, NEW k, NEW nonce, Sized(v), FillsState(v, iv, k, nonce)
  PROVE  \A q \in 0 .. STATE_SIZE - 1 : IsFresh(Filling(v, iv, k, nonce)[q])
<1> SUFFICES ASSUME NEW q \in 0 .. STATE_SIZE - 1
             PROVE  IsFresh(Filling(v, iv, k, nonce)[q])
  OBVIOUS
<1>1. /\ WORD \in Nat /\ STATE_SIZE = 5 * WORD /\ v.iv \in Nat /\ v.key \in Nat
      /\ v.iv + v.key = 3 * WORD
  BY StateSize DEF Sized
<1>2. /\ \A i \in 1 .. v.iv : IsFresh(iv[i])
      /\ \A i \in 1 .. v.key : IsFresh(k[i])
      /\ \A i \in 1 .. 2 * WORD : IsFresh(nonce[i])
  BY DEF FillsState, FreshBytes
<1>3. CASE q < v.iv
  BY <1>1, <1>2, <1>3 DEF Filling
<1>4. CASE ~(q < v.iv) /\ q < 3 * WORD
  <2>1. q - v.iv + 1 \in 1 .. v.key
    BY <1>1, <1>4
  <2> QED BY <1>2, <1>4, <2>1 DEF Filling
<1>5. CASE ~(q < v.iv) /\ ~(q < 3 * WORD)
  <2>1. q - 3 * WORD + 1 \in 1 .. 2 * WORD
    BY <1>1, <1>5
  <2> QED BY <1>2, <1>5, <2>1 DEF Filling
<1> QED BY <1>3, <1>4, <1>5

LEMMA FilledInParts ==
  ASSUME NEW v, NEW old, NEW iv, NEW k, NEW nonce,
         Sized(v), IsState(old), FillsState(v, iv, k, nonce)
  PROVE  ascon_overwrite_bytes(ascon_overwrite_bytes(ascon_overwrite_bytes(
             old, iv, 0), k, v.iv), nonce, 3 * WORD) =
           [chain |-> old.chain, b |-> Filling(v, iv, k, nonce)]
<1> DEFINE h == old.chain
           b0 == old.b
           b1 == Overwritten(b0, iv, 0)
           b2 == Overwritten(b1, k, v.iv)
           b3 == Overwritten(b2, nonce, 3 * WORD)
<1>1. old = [chain |-> h, b |-> b0] /\ DOMAIN b0 = 0 .. STATE_SIZE - 1
  BY DEF IsState
<1>2. DOMAIN b1 = 0 .. STATE_SIZE - 1 /\ DOMAIN b2 = 0 .. STATE_SIZE - 1
  BY DEF Overwritten
<1>3. b3 = Filling(v, iv, k, nonce)
  <2>1. /\ WORD \in Nat /\ STATE_SIZE = 5 * WORD /\ v.iv \in Nat /\ v.key \in Nat
        /\ v.iv + v.key = 3 * WORD
    BY StateSize DEF Sized
  <2>2. Len(iv) = v.iv /\ Len(k) = v.key /\ Len(nonce) = 2 * WORD
    BY DEF FillsState
  <2>3. ASSUME NEW q \in 0 .. STATE_SIZE - 1
        PROVE  b3[q] = Filling(v, iv, k, nonce)[q]
    <3>1. /\ q \in Touched(0, Len(iv)) <=> q < v.iv
          /\ q \in Touched(v.iv, Len(k)) <=> ~(q < v.iv) /\ q < 3 * WORD
          /\ q \in Touched(3 * WORD, Len(nonce)) <=> ~(q < 3 * WORD)
          /\ q < v.iv => q < 3 * WORD
          /\ q - 0 + 1 = q + 1
      BY <2>1, <2>2 DEF Touched
    <3>0. b3[q] = IF q \in Touched(3 * WORD, Len(nonce)) THEN nonce[q - 3 * WORD + 1]
                  ELSE IF q \in Touched(v.iv, Len(k)) THEN k[q - v.iv + 1]
                  ELSE IF q \in Touched(0, Len(iv)) THEN iv[q - 0 + 1] ELSE b0[q]
      BY DEF Overwritten
    <3>2. Filling(v, iv, k, nonce)[q] =
            IF q < v.iv THEN iv[q + 1]
            ELSE IF q < 3 * WORD THEN k[q - v.iv + 1] ELSE nonce[q - 3 * WORD + 1]
      BY DEF Filling
    <3> HIDE DEF b3
    <3> QED BY <3>0, <3>1, <3>2
  <2>4. Filling(v, iv, k, nonce) = [q \in 0 .. STATE_SIZE - 1 |-> Filling(v, iv, k, nonce)[q]]
    BY DEF Filling
  <2>5. b3 = [q \in 0 .. STATE_SIZE - 1 |-> b3[q]]
    BY DEF Overwritten
  <2> HIDE DEF b3
  <2> QED BY <2>3, <2>4, <2>5
<1> HIDE DEF h, b0
<1>4. ascon_overwrite_bytes([chain |-> h, b |-> b0], iv, 0) = [chain |-> h, b |-> b1]
  BY <1>1, OverwrittenState
<1> HIDE DEF b1
<1>5. ascon_overwrite_bytes([chain |-> h, b |-> b1], k, v.iv) = [chain |-> h, b |-> b2]
  BY <1>2, OverwrittenState
<1> HIDE DEF b2
<1>6. ascon_overwrite_bytes([chain |-> h, b |-> b2], nonce, 3 * WORD) = [chain |-> h, b |-> b3]
  BY <1>2, OverwrittenState
<1> HIDE DEF b3
<1> QED BY <1>1, <1>3, <1>4, <1>5, <1>6 DEF h

LEMMA FilledAtOnce ==
  ASSUME NEW v, NEW iv, NEW k, NEW nonce,
         Sized(v), FillsState(v, iv, k, nonce)
  PROVE  ascon_overwrite_bytes(ascon_init, iv \o k \o nonce, 0) =
           [chain |-> <<>>, b |-> Filling(v, iv, k, nonce)]
<1> DEFINE a == Joined(iv, k)
           d == Joined(a, nonce)
           b0 == [q \in 0 .. STATE_SIZE - 1 |-> {}]
           b1 == Overwritten(b0, d, 0)
<1>1. ascon_init = [chain |-> <<>>, b |-> b0] /\ DOMAIN b0 = 0 .. STATE_SIZE - 1
  BY DEF ascon_init
<1>2. d = iv \o k \o nonce
  BY DEF Joined
<1>3. /\ WORD \in Nat /\ STATE_SIZE = 5 * WORD /\ v.iv \in Nat /\ v.key \in Nat
      /\ v.iv + v.key = 3 * WORD
  BY StateSize DEF Sized
<1>4. /\ IsSequence(iv) /\ IsSequence(k) /\ IsSequence(nonce)
      /\ Len(iv) = v.iv /\ Len(k) = v.key /\ Len(nonce) = 2 * WORD
  BY DEF FillsState, FreshBytes
<1>5. /\ IsSequence(a) /\ Len(a) = Len(iv) + Len(k)
      /\ \A i \in 1 .. Len(iv) : a[i] = iv[i]
      /\ \A i \in 1 .. Len(k) : a[Len(iv) + i] = k[i]
  <2>1. IsSequence(iv) /\ IsSequence(k)
    BY <1>4
  <2> QED BY ONLY <2>1, JoinedItems
<1> HIDE DEF a
<1>6. /\ IsSequence(d) /\ Len(d) = Len(a) + Len(nonce)
      /\ \A i \in 1 .. Len(a) : d[i] = a[i]
      /\ \A i \in 1 .. Len(nonce) : d[Len(a) + i] = nonce[i]
  BY <1>4, <1>5, JoinedItems
<1> HIDE DEF d
<1>7. b1 = Filling(v, iv, k, nonce)
  <2>1. ASSUME NEW q \in 0 .. STATE_SIZE - 1
        PROVE  b1[q] = Filling(v, iv, k, nonce)[q]
    <3>1. q \in Touched(0, Len(d)) /\ q - 0 + 1 = q + 1 /\ Len(a) = 3 * WORD
      BY <1>3, <1>4, <1>5, <1>6 DEF Touched
    <3>2. b1[q] = d[q + 1]
      BY <3>1 DEF Overwritten
    <3> HIDE DEF b1
    <3>3. Filling(v, iv, k, nonce)[q] =
            IF q < v.iv THEN iv[q + 1]
            ELSE IF q < 3 * WORD THEN k[q - v.iv + 1] ELSE nonce[q - 3 * WORD + 1]
      BY DEF Filling
    <3>4. CASE q < v.iv
      <4>1. q + 1 \in 1 .. Len(iv) /\ q + 1 \in 1 .. Len(a)
        BY <1>3, <1>4, <3>1, <3>4
      <4> QED BY <1>5, <1>6, <3>2, <3>3, <3>4, <4>1
    <3>5. CASE ~(q < v.iv) /\ q < 3 * WORD
      <4> DEFINE i == q - v.iv + 1
      <4>1. i \in 1 .. Len(k) /\ q + 1 \in 1 .. Len(a) /\ q + 1 = Len(iv) + i
        BY <1>3, <1>4, <3>1, <3>5
      <4>2. a[Len(iv) + i] = k[i]
        BY <1>5, <4>1
      <4> QED BY <1>6, <3>2, <3>3, <3>5, <4>1, <4>2
    <3>6. CASE ~(q < v.iv) /\ ~(q < 3 * WORD)
      <4> DEFINE i == q - 3 * WORD + 1
      <4>1. i \in 1 .. Len(nonce) /\ q + 1 = Len(a) + i
        BY <1>3, <1>4, <3>1, <3>6
      <4>2. d[Len(a) + i] = nonce[i]
        BY <1>6, <4>1
      <4> QED BY <3>2, <3>3, <3>6, <4>1, <4>2
    <3> QED BY <3>4, <3>5, <3>6
  <2>2. Filling(v, iv, k, nonce) = [q \in 0 .. STATE_SIZE - 1 |-> Filling(v, iv, k, nonce)[q]]
    BY DEF Filling
  <2>3. b1 = [q \in 0 .. STATE_SIZE - 1 |-> b1[q]]
    BY DEF Overwritten
  <2> HIDE DEF b1
  <2> QED BY <2>1, <2>2, <2>3
<1> HIDE DEF b0
<1>8. ascon_overwrite_bytes([chain |-> <<>>, b |-> b0], d, 0) = [chain |-> <<>>, b |-> b1]
  BY <1>1, OverwrittenState
<1> QED BY <1>1, <1>2, <1>7, <1>8

\* The state after the first permutation.
Opening(v, npub, k) ==
  ascon_add_bytes(
    ascon_permute([chain |-> <<>>,
                   b |-> Filling(v, IvBytes(v, "aead"), k, NonceBytes(npub))], 0),
    k, STATE_SIZE - v.key)

LEMMA KeyedIsOpening ==
  ASSUME NEW v, NEW old, NEW npub, NEW k,
         Sized(v), IsState(old), FreshBytes(k), Len(k) = v.key
  PROVE  /\ KeyedState(v, old, "aead", NonceBytes(npub), k) = Opening(v, npub, k)
         /\ ascon_add_bytes(ascon_permute(ascon_overwrite_bytes(ascon_init,
                IvBytes(v, "aead") \o k \o NonceBytes(npub), 0), 0), k, STATE_SIZE - v.key) =
              Opening(v, npub, k)
         /\ IsState(Opening(v, npub, k))
<1> DEFINE iv == IvBytes(v, "aead")
           nonce == NonceBytes(npub)
           f == Filling(v, iv, k, nonce)
           h == old.chain
<1>1. FillsState(v, iv, k, nonce)
  <2>1. FreshBytes(iv) /\ Len(iv) = v.iv
    BY IvData
  <2>2. FreshBytes(nonce) /\ Len(nonce) = 2 * WORD
    BY NonceData DEF NONCE_SIZE
  <2> HIDE DEF iv, nonce
  <2> QED BY <2>1, <2>2 DEF FillsState
<1>2. f = [q \in 0 .. STATE_SIZE - 1 |-> f[q]]
  BY DEF Filling
<1>3. Opening(v, npub, k) =
        ascon_add_bytes(ascon_permute([chain |-> <<>>, b |-> f], 0), k, STATE_SIZE - v.key)
  BY DEF Opening
<1>4. KeyedState(v, old, "aead", nonce, k) =
        ascon_add_bytes(ascon_permute(Forgetful(
          ascon_overwrite_bytes(ascon_overwrite_bytes(ascon_overwrite_bytes(
             old, iv, 0), k, v.iv), nonce, 3 * WORD)), 0), k, STATE_SIZE - v.key)
  BY DEF KeyedState
<1> HIDE DEF iv, nonce
<1>5. ascon_overwrite_bytes(ascon_overwrite_bytes(ascon_overwrite_bytes(
             old, iv, 0), k, v.iv), nonce, 3 * WORD) = [chain |-> h, b |-> f]
  BY <1>1, FilledInParts
<1>6. ascon_overwrite_bytes(ascon_init, iv \o k \o nonce, 0) = [chain |-> <<>>, b |-> f]
  BY <1>1, FilledAtOnce
<1>7. \A q \in 0 .. STATE_SIZE - 1 : IsFresh(f[q])
  BY <1>1, FillingIsFresh
<1> HIDE DEF f, h
<1>8. Forgetful([chain |-> h, b |-> f]) = [chain |-> <<>>, b |-> f]
  <2> DEFINE s == [chain |-> h, b |-> f]
  <2>1. DOMAIN s.b = 0 .. STATE_SIZE - 1 /\ s.b = f
    BY <1>2
  <2>2. ~(\E i \in DOMAIN s.b : \E a \in s.b[i] : a[1] = "p")
    BY <1>7, <2>1 DEF IsFresh
  <2>3. Forgetful(s) = [s EXCEPT !.chain = <<>>]
    BY <2>2 DEF Forgetful
  <2> QED BY <2>3
<1>9. IsState([chain |-> <<>>, b |-> f])
  BY <1>2, EmptySequence DEF IsState
<1>10. IsState(Opening(v, npub, k))
  <2> DEFINE s == [chain |-> <<>>, b |-> f]
             y == ascon_permute(s, 0)
  <2>1. IsState(y)
    <3> HIDE DEF s
    <3> QED BY <1>9, PermutedIsState DEF s
  <2> HIDE DEF y
  <2>2. IsState(ascon_add_bytes(y, k, STATE_SIZE - v.key))
    BY <2>1, AddedIsState
  <2> QED BY <1>3, <2>2 DEF y
<1> QED BY <1>3, <1>4, <1>5, <1>6, <1>8, <1>10 DEF iv, nonce

-----------------------------------------------------------------------------
(* The packet of the reference. *)

LEMMA BlockOrder ==
  ASSUME NEW v, NEW i, NEW n, NEW k, NEW q, NEW m, NEW c,
         Rated(v), Slot(v, i, k, q), Blocked(v, n, m, c), i <= n
  PROVE  k < m \/ (k = m /\ q < c)
<1> DEFINE r == v.rate
           a == k * r
           b == m * r
<1>1. /\ k \in Nat /\ q \in 0 .. r - 1 /\ i = a + q + 1
      /\ m \in Nat /\ c \in 0 .. r - 1 /\ n = b + c /\ r \in Nat \ {0}
  BY DEF Slot, Blocked, Rated
<1>2. a \in Nat /\ b \in Nat
  BY <1>1
<1>3. CASE k = m
  <2>1. a = b
    BY <1>3
  <2> HIDE DEF a, b, r
  <2> QED BY <1>1, <1>2, <1>3, <2>1
<1>4. CASE k > m
  <2>1. m * r + r <= k * r
    <3> HIDE DEF r
    <3> QED BY <1>1, <1>4, ProductOrder
  <2>2. b + r <= a
    BY <2>1
  <2> HIDE DEF a, b, r
  <2> QED BY <1>1, <1>2, <2>2
<1>5. k < m \/ k = m \/ k > m
  BY <1>1
<1> QED BY <1>3, <1>4, <1>5

LEMMA PaddedWithin ==
  ASSUME NEW v, NEW s, NEW w, NEW k, NEW c, NEW at, at \in Nat
  PROVE  /\ ascon_pad(Within(v, s, w, k, c), at).chain = History(v, s, w, k)
         /\ DOMAIN ascon_pad(Within(v, s, w, k, c), at).b = 0 .. STATE_SIZE - 1
         /\ \A q \in 0 .. STATE_SIZE - 1 : q < at =>
              ascon_pad(Within(v, s, w, k, c), at).b[q] = Stored(v, s, w, k, c)[q]
<1> DEFINE h == History(v, s, w, k)
           b == Stored(v, s, w, k, c)
           one == <<PadByte>>
           d == AddedTo(b, one, at)
<1>1. DOMAIN b = 0 .. STATE_SIZE - 1
  BY DEF Stored
<1>2. \A q \in 0 .. STATE_SIZE - 1 : q < at => q \notin Touched(at, Len(one))
  BY StateSize DEF Touched
<1>3. DOMAIN d = 0 .. STATE_SIZE - 1 /\ \A q \in 0 .. STATE_SIZE - 1 : q < at => d[q] = b[q]
  BY <1>2 DEF AddedTo
<1> HIDE DEF h, b
<1>4. ascon_add_bytes([chain |-> h, b |-> b], one, at) = [chain |-> h, b |-> d]
  BY <1>1, AddedState
<1> HIDE DEF d, one
<1>5. [chain |-> h, b |-> d].chain = h /\ [chain |-> h, b |-> d].b = d
  OBVIOUS
<1> QED BY <1>3, <1>4, <1>5 DEF ascon_pad, Within, h, b, one

\* The i-th of n bytes is byte q of the block after k blocks, the j-th.
InBlock(v, n, i, k, q, j) == n \in Nat /\ i <= n /\ Slot(v, i, k, q) /\ j = k + 1

\* The block in which the i-th byte is.
LEMMA SpongedByte ==
  ASSUME NEW v, NEW s, NEW data, NEW n, NEW i, NEW k, NEW q, NEW j,
         Rated(v), IsState(s), PlainData(data), InBlock(v, n, i, k, q, j)
  PROVE  /\ Sponged(v, s, data, n, j).chain = History(v, s, Mixed(v, s, data), k)
         /\ q \in DOMAIN Sponged(v, s, data, n, j).b
         /\ Sponged(v, s, data, n, j).b[q] = Mixed(v, s, data)[i]
<1> SUFFICES
      /\ Sponged(v, s, data, n, k + 1).chain = History(v, s, Mixed(v, s, data), k)
      /\ q \in DOMAIN Sponged(v, s, data, n, k + 1).b
      /\ Sponged(v, s, data, n, k + 1).b[q] = Mixed(v, s, data)[i]
  BY DEF InBlock
<1> n \in Nat /\ i <= n /\ Slot(v, i, k, q)
  BY DEF InBlock
<1> DEFINE w == Mixed(v, s, data)
           r == v.rate
           m == n \div r
           c == n % r
<1> HIDE DEF w
<1>1. k \in Nat /\ q \in 0 .. r - 1 /\ i = k * v.rate + q + 1 /\ r \in Nat \ {0}
      /\ r < STATE_SIZE /\ STATE_SIZE \in Nat
  BY StateSize DEF Slot, Rated
<1>2. m \in Nat /\ c \in 0 .. r - 1 /\ n = m * r + c
  BY ONLY <1>1, n \in Nat, Division
<1>3. q \in 0 .. STATE_SIZE - 1
  <2> HIDE DEF r
  <2> QED BY ONLY <1>1
<1>4. Blocked(v, n, m, c)
  BY <1>2 DEF Blocked
<1>5. k < m \/ (k = m /\ q < c)
  <2> HIDE DEF m, c, r
  <2> QED BY <1>4, BlockOrder
<1> HIDE DEF m, c
<1>6. CASE k < m
  <2> DEFINE x == Within(v, s, w, k, v.rate)
  <2>1. k + 1 <= m /\ (k + 1) - 1 = k
    <3> HIDE DEF r
    <3> QED BY ONLY <1>1, <1>2, <1>6
  <2>2. Sponged(v, s, data, n, k + 1) = x
    BY <2>1 DEF Sponged, w, m
  <2>3. x.chain = History(v, s, w, k) /\ x.b = Stored(v, s, w, k, v.rate)
    BY DEF Within
  <2>4. q < v.rate
    BY <1>1
  <2>5. Stored(v, s, w, k, v.rate)[q] = w[i] /\ q \in DOMAIN Stored(v, s, w, k, v.rate)
    BY <1>1, <1>3, <2>4 DEF Stored
  <2> HIDE DEF x
  <2> QED BY <2>2, <2>3, <2>5 DEF w
<1>7. CASE k = m /\ q < c
  <2> DEFINE x == ascon_pad(Within(v, s, w, k, c), c)
  <2>1. ~(k + 1 <= m)
    <3> HIDE DEF r
    <3> QED BY ONLY <1>1, <1>2, <1>7
  <2>2. Sponged(v, s, data, n, k + 1) = x
    BY <1>7, <2>1 DEF Sponged, At, w, m, c
  <2>3. x.chain = History(v, s, w, k) /\ DOMAIN x.b = 0 .. STATE_SIZE - 1
        /\ \A p \in 0 .. STATE_SIZE - 1 : p < c => x.b[p] = Stored(v, s, w, k, c)[p]
    <3>1. c \in Nat
      BY <1>2
    <3> QED BY ONLY <3>1, PaddedWithin
  <2>4. Stored(v, s, w, k, c)[q] = w[i]
    BY <1>1, <1>3, <1>7 DEF Stored
  <2> HIDE DEF x
  <2> QED BY <1>3, <1>7, <2>2, <2>3, <2>4 DEF w
<1> QED BY <1>5, <1>6, <1>7

\* What leaves that block.
LEMMA SpongedLeaves ==
  ASSUME NEW v, NEW s, NEW data, NEW n, NEW i, NEW k, NEW q, NEW j,
         Rated(v), IsState(s), PlainData(data), InBlock(v, n, i, k, q, j)
  PROVE  Leaving(Sponged(v, s, data, n, j), Sponged(v, s, data, n, j).b)[q] =
           Given(v, s, Mixed(v, s, data), data, i)
<1> DEFINE w == Mixed(v, s, data)
           x == Sponged(v, s, data, n, j)
           h == History(v, s, w, k)
<1> Slot(v, i, k, q)
  BY DEF InBlock
<1>1. x.chain = h /\ q \in DOMAIN x.b /\ x.b[q] = w[i]
  BY ONLY Rated(v), IsState(s), PlainData(data), InBlock(v, n, i, k, q, j), SpongedByte
<1> HIDE DEF x
<1>2. Leaving(x, x.b)[q] = Went(h, w[i])
  BY <1>1, LeavingByte
<1>3. i \in Nat \ {0}
  BY SlotDivision
<1>4. Came(h, data[i]) = data[i]
  BY <1>3, PlainCame DEF PlainData
<1>5. w[i] = Xor(Row(s, k)[q], data[i])
  BY MixedByte
<1>6. Given(v, s, w, data, i) = Went(h, Xor(Row(s, k)[q], Came(h, data[i])))
  BY GivenInBlock
<1> QED BY <1>2, <1>4, <1>5, <1>6 DEF x

TextData == [i \in Nat \ {0} |-> {<<"m", 0, i>>}]
AdData == [i \in Nat \ {0} |-> {<<"ad", 0, i>>}]

LEMMA TextIsSampled ==
  ASSUME NEW n, n \in Nat
  PROVE  Sampled(Text(0, n), TextData, n) /\ PlainData(TextData)
<1> DEFINE t == Text(0, n)
<1>1. t = [i \in 1 .. n |-> t[i]] /\ \A i \in 1 .. n : t[i] = TextData[i]
  BY DEF Text, TextData
<1> HIDE DEF t
<1>2. IsSequence(t) /\ Len(t) = n
  BY <1>1, FunctionSequence
<1>3. PlainData(TextData)
  BY DEF PlainData, TextData, IsPlain
<1> QED BY <1>1, <1>2, <1>3 DEF t, Sampled

LEMMA AdIsSampled ==
  ASSUME NEW n, n \in Nat
  PROVE  Sampled(Ad(0, n), AdData, n) /\ PlainData(AdData)
<1> DEFINE t == Ad(0, n)
<1>1. t = [i \in 1 .. n |-> t[i]] /\ \A i \in 1 .. n : t[i] = AdData[i]
  BY DEF Ad, AdData
<1> HIDE DEF t
<1>2. IsSequence(t) /\ Len(t) = n
  BY <1>1, FunctionSequence
<1>3. PlainData(AdData)
  BY DEF PlainData, AdData, IsPlain
<1> QED BY <1>1, <1>2, <1>3 DEF t, Sampled

\* The state after the associated data, the same as that of the reference.
Prepared(v, npub, a, k) == AfterAd(v, Opening(v, npub, k), Ad(0, a))
PreparedThere(v, npub, a, k) ==
  ascon_separator(
    IF Ad(0, a) = <<>> THEN Opening(v, npub, k)
    ELSE ascon_permute(Duplex(v, Opening(v, npub, k), Ad(0, a))[Len(Ad(0, a)) \div v.rate + 1],
                       v.round))

LEMMA SpongedIsState ==
  ASSUME NEW v, NEW s, NEW data, NEW n, NEW j,
         Rated(v), IsState(s), n \in Nat, j \in Nat \ {0}
  PROVE  IsState(Sponged(v, s, data, n, j))
<1> DEFINE w == Mixed(v, s, data)
<1> HIDE DEF w
<1>1. j - 1 \in Nat /\ n \div v.rate \in Nat
  BY Division DEF Rated
<1>2. IsState(Within(v, s, w, j - 1, v.rate))
  BY <1>1, WithinState
<1>3. IsState(At(v, s, w, n))
  BY <1>1, WithinState DEF At
<1>4. IsState(ascon_pad(At(v, s, w, n), n % v.rate))
  BY <1>3, AddedIsState DEF ascon_pad
<1> QED BY <1>2, <1>4 DEF Sponged, w

LEMMA PreparedState ==
  ASSUME NEW v, NEW npub, NEW a, NEW k,
         Rated(v), IsState(Opening(v, npub, k)), a \in Nat
  PROVE  /\ Prepared(v, npub, a, k) = PreparedThere(v, npub, a, k)
         /\ IsState(Prepared(v, npub, a, k))
<1> DEFINE s == Opening(v, npub, k)
           d == Ad(0, a)
           j == a \div v.rate + 1
           x == Sponged(v, s, AdData, a, j)
           y == ascon_permute(x, v.round)
<1>1. Sampled(d, AdData, a) /\ PlainData(AdData)
  BY AdIsSampled
<1>2. Prepared(v, npub, a, k) = ascon_separator(IF d = <<>> THEN s ELSE AbsorbBlocks(v, s, d, TRUE))
  BY DEF Prepared, AfterAd
<1>3. PreparedThere(v, npub, a, k) =
        ascon_separator(IF d = <<>> THEN s ELSE ascon_permute(Duplex(v, s, d)[Len(d) \div v.rate + 1], v.round))
  BY DEF PreparedThere
<1> HIDE DEF s, d
<1>4. AbsorbBlocks(v, s, d, TRUE) = y
  BY <1>1, AbsorbedAt DEF s
<1>5. Len(d) \div v.rate + 1 = j
  BY <1>1 DEF Sampled
<1>6. j \in 1 .. j /\ j \in Nat \ {0}
  <2>1. a \div v.rate \in Nat
    BY Division DEF Rated
  <2> QED BY <2>1
<1>7. Duplex(v, s, d)[j] = x
  BY <1>1, <1>6, DuplexBlocks DEF s
<1>8. IsState(x)
  <2> HIDE DEF j
  <2> QED BY <1>6, SpongedIsState DEF s
<1>9. IsState(y)
  <2> HIDE DEF x
  <2> QED BY <1>8, PermutedIsState
<1> HIDE DEF x, y, j
<1> DEFINE z == IF d = <<>> THEN s ELSE y
<1>10. IsState(z)
  BY <1>9 DEF s
<1>11. Prepared(v, npub, a, k) = ascon_separator(z)
  BY <1>2, <1>4
<1>12. PreparedThere(v, npub, a, k) = ascon_separator(z)
  BY <1>3, <1>5, <1>7 DEF y
<1> HIDE DEF z
<1>13. IsState(ascon_separator(z))
  BY <1>10, AddedIsState DEF ascon_separator
<1> QED BY <1>11, <1>12, <1>13

\* The packet of n bytes that is encrypted in state s.
Sealing(v, s, n) == At(v, s, Mixed(v, s, TextData), n)
Sealed(v, s, from, n) == Returned(v, s, Mixed(v, s, TextData), TextData, from, n)
SealTag(v, s, n, k) == TagOf(Finalized(v, ascon_pad(Sealing(v, s, n), n % v.rate), k))

LEMMA AtFirst ==
  ASSUME NEW v, NEW s, NEW w, Rated(v), IsState(s)
  PROVE  At(v, s, w, 0) = s /\ 0 % v.rate = 0
<1> DEFINE r == v.rate
<1>1. r \in Nat \ {0}
  BY DEF Rated
<1>2. 0 \div r = 0 /\ 0 % r = 0
  <2> HIDE DEF r
  <2> QED BY <1>1, SMT
<1>3. Within(v, s, w, 0, 0) = s
  BY FirstRow
<1> QED BY <1>2, <1>3 DEF At

\* A piece of the text.
LEMMA SealedPiece ==
  ASSUME NEW v, NEW s, NEW in, NEW from, NEW n, NEW to,
         Rated(v), IsState(s), from \in Nat, n \in Nat, Adds(from, n, to),
         IsSequence(in), Len(in) = n, \A i \in 1 .. n : in[i] = TextData[from + i]
  PROVE  EncryptBlocks(v, Sealing(v, s, from), in, from % v.rate) =
           [state |-> Sealing(v, s, to), posn |-> to % v.rate, out |-> Sealed(v, s, from, n)]
<1> DEFINE w == Mixed(v, s, TextData)
           open == FALSE
<1>1. Run(open, v, s, w, TextData, from, in, to)
  <2>1. Matches(open, v, s, w, TextData, to)
    BY TextIsSampled, MixedMatches
  <2>2. to = from + Len(in)
    BY DEF Adds
  <2> QED BY <2>1, <2>2 DEF Run
<1>2. open \in BOOLEAN
  OBVIOUS
<1>3. EncryptBlocks(v, At(v, s, w, from), in, from % v.rate) =
        Blocks(open, v, At(v, s, w, from), in, from % v.rate)
  BY BothBlocks
<1> HIDE DEF w, open
<1>4. Blocks(open, v, At(v, s, w, from), in, from % v.rate) =
        [state |-> At(v, s, w, to), posn |-> to % v.rate,
         out |-> Returned(v, s, w, TextData, from, Len(in))]
  BY ONLY <1>1, <1>2, Rated(v), IsState(s), BlocksAt
<1> QED BY <1>3, <1>4 DEF Sealing, Sealed, w

LEMMA EncryptIsPacket ==
  ASSUME NEW v, NEW npub, NEW k, NEW n, NEW a,
         Sized(v), FreshBytes(k), Len(k) = v.key, n \in Nat, a \in Nat
  PROVE  Encrypt(v, Text(0, n), Ad(0, a), npub, k) =
           Joined(Sealed(v, Prepared(v, npub, a, k), 0, n),
                  SealTag(v, Prepared(v, npub, a, k), n, k))
<1> DEFINE s == Prepared(v, npub, a, k)
           m == Text(0, n)
           e == [state |-> Sealing(v, s, n), posn |-> n % v.rate, out |-> Sealed(v, s, 0, n)]
<1>1. Rated(v)
  BY DEF Sized
<1>2. KeyedState(v, ascon_init, "aead", NonceBytes(npub), k) = Opening(v, npub, k)
      /\ IsState(Opening(v, npub, k))
  BY InitIsState, KeyedIsOpening
<1>3. IsState(s)
  BY <1>1, <1>2, PreparedState
<1>4. AfterAd(v, KeyedState(v, ascon_init, "aead", NonceBytes(npub), k), Ad(0, a)) = s
  BY <1>2 DEF Prepared
<1>5. EncryptBlocks(v, s, m, 0) = e
  <2>1. IsSequence(m) /\ Len(m) = n /\ \A i \in 1 .. n : m[i] = TextData[i]
    BY TextIsSampled DEF Sampled
  <2>2. \A i \in 1 .. n : m[i] = TextData[0 + i]
    BY <2>1
  <2>3. Adds(0, n, n) /\ 0 \in Nat
    BY DEF Adds
  <2> HIDE DEF s, m
  <2>4. EncryptBlocks(v, Sealing(v, s, 0), m, 0 % v.rate) = e
    BY <1>1, <1>3, <2>1, <2>2, <2>3, SealedPiece
  <2>5. Sealing(v, s, 0) = s /\ 0 % v.rate = 0
    BY <1>1, <1>3, AtFirst DEF Sealing
  <2> QED BY <2>4, <2>5
<1> HIDE DEF s, m
<1>6. Encrypt(v, m, Ad(0, a), npub, k) = PacketFrom(v, e, k)
  BY <1>4, <1>5 DEF Encrypt
<1>7. PacketFrom(v, e, k) = Joined(Sealed(v, s, 0, n), SealTag(v, s, n, k))
  BY DEF PacketFrom, Joined, SealTag
<1> QED BY <1>6, <1>7 DEF s, m

LEMMA ReferencePacket ==
  ASSUME NEW v, NEW npub, NEW k, NEW n, NEW a,
         Sized(v), FreshBytes(k), Len(k) = v.key, n \in Nat, a \in Nat
  PROVE  RefPacket(v, Text(0, n), Ad(0, a), npub, k) =
           Joined(Sealed(v, Prepared(v, npub, a, k), 0, n),
                  SealTag(v, Prepared(v, npub, a, k), n, k))
<1> DEFINE s == Prepared(v, npub, a, k)
           m == Text(0, n)
           d == Ad(0, a)
           w == Mixed(v, s, TextData)
           r == v.rate
           begun == ascon_overwrite_bytes(ascon_init,
                        IvBytes(v, "aead") \o k \o NonceBytes(npub), 0)
           keyed == ascon_add_bytes(ascon_permute(begun, 0), k, STATE_SIZE - v.key)
           after == IF d = <<>> THEN keyed
                    ELSE ascon_permute(Duplex(v, keyed, d)[Len(d) \div v.rate + 1], v.round)
           sealed == Duplex(v, ascon_separator(after), m)
           Block(i) == sealed[(i - 1) \div v.rate + 1]
           final == ascon_permute(ascon_add_bytes(sealed[Len(m) \div v.rate + 1], k, v.rate), 0)
           tagged == ascon_add_bytes(final,
                         SubSeq(k, v.key - TAG_SIZE + 1, v.key), STATE_SIZE - TAG_SIZE)
           text == [i \in 1 .. Len(m) |-> Leaving(Block(i), Block(i).b)[(i - 1) % v.rate]]
           tag == Leaving(tagged, ascon_extract_bytes(tagged, STATE_SIZE - TAG_SIZE, TAG_SIZE))
<1>1. Rated(v) /\ r \in Nat \ {0}
  BY DEF Sized, Rated
<1>2. keyed = Opening(v, npub, k) /\ IsState(Opening(v, npub, k))
  BY InitIsState, KeyedIsOpening
<1>3. IsState(s) /\ s = PreparedThere(v, npub, a, k)
  BY <1>1, <1>2, PreparedState
<1>4. RefPacket(v, m, d, npub, k) = text \o tag
  BY DEF RefPacket
<1>5. ascon_separator(after) = s
  <2> HIDE DEF begun, keyed, s, d
  <2> QED BY <1>2, <1>3 DEF PreparedThere, d
<1>6. IsSequence(m) /\ Len(m) = n /\ PlainData(TextData) /\ Sampled(m, TextData, n)
  BY TextIsSampled DEF Sampled
<1> HIDE DEF after, m, s
<1>7. ASSUME NEW j, j \in 1 .. n \div v.rate + 1
      PROVE  sealed[j] = Sponged(v, s, TextData, n, j)
  BY <1>1, <1>3, <1>5, <1>6, <1>7, DuplexBlocks
<1> HIDE DEF sealed
<1>8. n \div v.rate \in Nat
  BY <1>1, Division
<1>9. ASSUME NEW i \in 1 .. n
      PROVE  Leaving(Block(i), Block(i).b)[(i - 1) % v.rate] = Given(v, s, w, TextData, i)
  <2> DEFINE p == (i - 1) \div v.rate
             q == (i - 1) % v.rate
             j == p + 1
  <2>1. Slot(v, i, p, q)
    <3>1. i \in Nat \ {0}
      OBVIOUS
    <3>2. Slot(v, i, (i - 1) \div v.rate, (i - 1) % v.rate)
      BY ONLY <1>1, <3>1, SlotOf
    <3> QED BY <3>2
  <2>2. j \in 1 .. n \div v.rate + 1
    <3> DEFINE c == n % r
               h == n \div r
               x == i - 1
               y == p * r
    <3>1. h \in Nat /\ c \in 0 .. r - 1 /\ n = h * r + c
      BY ONLY <1>1, n \in Nat, Division
    <3>2. Blocked(v, n, h, c)
      BY <3>1 DEF Blocked
    <3>3. p \in Nat
      BY <2>1 DEF Slot
    <3> HIDE DEF h, c, p, q
    <3>4. i <= n
      OBVIOUS
    <3>5. p < h \/ p = h
      BY ONLY <1>1, <2>1, <3>2, <3>4, BlockOrder
    <3>6. p + 1 \in 1 .. h + 1
      BY ONLY <3>1, <3>3, <3>5
    <3> QED BY <3>6 DEF h
  <2>3. InBlock(v, n, i, p, q, j)
    BY <2>1 DEF InBlock
  <2>4. Block(i) = Sponged(v, s, TextData, n, j)
    BY <1>7, <2>2
  <2> HIDE DEF p, q, j
  <2>5. Leaving(Sponged(v, s, TextData, n, j), Sponged(v, s, TextData, n, j).b)[q] =
          Given(v, s, Mixed(v, s, TextData), TextData, i)
    BY ONLY <1>1, <1>3, <1>6, <2>3, SpongedLeaves
  <2> HIDE DEF Block
  <2> QED BY <2>4, <2>5 DEF q
<1>10. text = Sealed(v, s, 0, n)
  <2> HIDE DEF w, Block
  <2>1. \A i \in 1 .. n : Given(v, s, w, TextData, 0 + i) = Given(v, s, w, TextData, i)
    OBVIOUS
  <2>2. Returned(v, s, w, TextData, 0, n) = [i \in 1 .. n |-> Given(v, s, w, TextData, i)]
    BY <2>1 DEF Returned
  <2>3. text = [i \in 1 .. n |-> Given(v, s, w, TextData, i)]
    BY <1>6, <1>9
  <2> QED BY <2>2, <2>3 DEF Sealed, w
<1>11. sealed[Len(m) \div v.rate + 1] = ascon_pad(Sealing(v, s, n), n % v.rate)
  <2> DEFINE h == n \div v.rate
  <2>1. h + 1 \in 1 .. n \div v.rate + 1 /\ ~(h + 1 <= h)
    BY <1>8
  <2>2. sealed[h + 1] = Sponged(v, s, TextData, n, h + 1)
    BY <1>7, <2>1
  <2>3. Sponged(v, s, TextData, n, h + 1) = ascon_pad(Sealing(v, s, n), n % v.rate)
    BY <2>1 DEF Sponged, Sealing
  <2> QED BY <1>6, <2>2, <2>3
<1>12. tag = SealTag(v, s, n, k)
  <2> DEFINE x == ascon_pad(Sealing(v, s, n), n % v.rate)
  <2>1. final = ascon_permute(ascon_add_bytes(x, k, v.rate), 0)
    BY <1>11
  <2> HIDE DEF x, final
  <2>2. STATE_SIZE - TAG_SIZE = 3 * WORD /\ TAG_SIZE = 2 * WORD
    BY StateSize DEF TAG_SIZE
  <2>3. tagged = Finalized(v, x, k)
    BY <2>1, <2>2 DEF Finalized
  <2> HIDE DEF tagged
  <2>4. tag = TagOf(tagged)
    BY <2>2 DEF TagOf
  <2> QED BY <2>3, <2>4 DEF SealTag, x
<1> HIDE DEF text, tag
<1> QED BY <1>4, <1>10, <1>12 DEF s, m, Joined

-----------------------------------------------------------------------------
(* Bytes that leave a state and come back. *)

\* The permutations that bytes name are those of a history.
Dated(h, x) ==
  \A a \in x :
    /\ a[1] # "px"
    /\ a[1] = "p" => a[2] \in Nat /\ a[2] <= Len(h) /\ a = <<"p", a[2], a[3]>>
AllDated(s) == \A q \in 0 .. STATE_SIZE - 1 : Dated(s.chain, s.b[q])

LEMMA CameWent ==
  ASSUME NEW h, NEW x, IsSequence(h), Dated(h, x)
  PROVE  Came(h, Went(h, x)) = x
<1> DEFINE G(a) == IF a[1] = "p" THEN <<"px", SubSeq(h, 1, a[2]), a[3]>> ELSE a
           F(a) == IF a[1] = "px" /\ Len(a[2]) <= Len(h) /\ a[2] = SubSeq(h, 1, Len(a[2]))
                   THEN <<"p", Len(a[2]), a[3]>> ELSE a
<1>1. ASSUME NEW a \in x PROVE F(G(a)) = a
  <2>1. CASE a[1] = "p"
    <3> DEFINE d == a[2]
               t == SubSeq(h, 1, d)
               b == <<"px", t, a[3]>>
    <3>1. d \in Nat /\ d <= Len(h) /\ a = <<"p", d, a[3]>> /\ Len(h) \in Nat
      BY <2>1, SequenceLength DEF Dated
    <3>2. Len(t) = d
      <4>1. 1 \in 1 .. Len(h) + 1 /\ d \in 1 - 1 .. Len(h) /\ d - 1 + 1 = d
        BY <3>1
      <4> HIDE DEF d
      <4> QED BY <4>1, Subsequence
    <3>3. G(a) = b /\ b[1] = "px" /\ b[2] = t /\ b[3] = a[3]
      BY <2>1
    <3>4. t = SubSeq(h, 1, Len(t)) /\ Len(t) <= Len(h)
      BY <3>1, <3>2
    <3> HIDE DEF t, b, d
    <3>5. F(b) = <<"p", Len(t), a[3]>>
      BY <3>3, <3>4
    <3> QED BY <3>1, <3>2, <3>3, <3>5
  <2>2. CASE a[1] # "p"
    BY <2>2 DEF Dated
  <2> QED BY <2>1, <2>2
<1>2. Came(h, Went(h, x)) = {F(b) : b \in {G(a) : a \in x}}
  BY DEF Came, Went
<1> HIDE DEF F, G
<1> QED BY <1>1, <1>2

LEMMA FreshWent ==
  ASSUME NEW h, NEW x, IsFresh(x)
  PROVE  Went(h, x) = x
BY DEF IsFresh, Went

LEMMA FreshIsDated ==
  ASSUME NEW h, NEW x, IsFresh(x)
  PROVE  Dated(h, x)
BY DEF IsFresh, Dated

LEMMA XorDated ==
  ASSUME NEW h, NEW x, NEW y, Dated(h, x), Dated(h, y)
  PROVE  Dated(h, Xor(x, y))
BY DEF Dated, Xor

LEMMA PermutedDated ==
  ASSUME NEW s, NEW round, IsState(s)
  PROVE  AllDated(ascon_permute(s, round))
<1> DEFINE e == [round |-> round, b |-> s.b]
           h == Append(s.chain, e)
           n == Len(s.chain) + 1
           t == [chain |-> h, b |-> Permuted(n)]
<1>1. Len(h) = n /\ n \in Nat
  <2>1. IsSequence(s.chain)
    BY DEF IsState
  <2> HIDE DEF e
  <2>2. Len(s.chain) \in Nat
    BY <2>1, SequenceLength
  <2> QED BY <2>1, <2>2, Appended
<1>2. ascon_permute(s, round) = t /\ t.chain = h /\ t.b = Permuted(n)
  BY DEF ascon_permute
<1> HIDE DEF h, n, t
<1>3. ASSUME NEW q \in 0 .. STATE_SIZE - 1 PROVE Dated(h, Permuted(n)[q])
  <2>1. Permuted(n)[q] = {<<"p", n, q>>}
    BY DEF Permuted
  <2>2. n <= Len(h)
    BY <1>1
  <2> QED BY <1>1, <2>1, <2>2 DEF Dated
<1> QED BY <1>2, <1>3 DEF AllDated

LEMMA AddedDated ==
  ASSUME NEW s, NEW d, NEW at,
         IsState(s), AllDated(s), FreshBytes(d), at \in Nat
  PROVE  AllDated(ascon_add_bytes(s, d, at))
<1> DEFINE h == s.chain
           c == s.b
           b == AddedTo(c, d, at)
           t == [chain |-> h, b |-> b]
<1>1. s = [chain |-> h, b |-> c] /\ DOMAIN c = 0 .. STATE_SIZE - 1
  BY DEF IsState
<1>2. ascon_add_bytes([chain |-> h, b |-> c], d, at) = t
  <2> HIDE DEF h, c
  <2> QED BY <1>1, AddedState
<1>3. ASSUME NEW q \in 0 .. STATE_SIZE - 1 PROVE Dated(h, b[q])
  <2>1. Dated(h, c[q])
    BY DEF AllDated
  <2>2. b[q] = IF q \in Touched(at, Len(d)) THEN Xor(c[q], d[q - at + 1]) ELSE c[q]
    BY DEF AddedTo
  <2>3. CASE q \in Touched(at, Len(d))
    <3>1. q - at + 1 \in 1 .. Len(d)
      <4>1. Len(d) \in Nat
        BY SequenceLength DEF FreshBytes
      <4> QED BY <2>3, <4>1, StateSize DEF Touched
    <3>2. IsFresh(d[q - at + 1])
      BY <3>1 DEF FreshBytes
    <3>3. Dated(h, Xor(c[q], d[q - at + 1]))
      BY <2>1, <3>2, FreshIsDated, XorDated
    <3> QED BY <2>2, <2>3, <3>3
  <2>4. CASE q \notin Touched(at, Len(d))
    BY <2>1, <2>2, <2>4
  <2> QED BY <2>3, <2>4
<1>4. t.chain = h /\ t.b = b
  OBVIOUS
<1> HIDE DEF t, h, b, c
<1> QED BY <1>1, <1>2, <1>3, <1>4 DEF AllDated

LEMMA PreparedDated ==
  ASSUME NEW v, NEW npub, NEW a, NEW k,
         Sized(v), FreshBytes(k), Len(k) = v.key, a \in Nat
  PROVE  AllDated(Prepared(v, npub, a, k))
<1> DEFINE s == Opening(v, npub, k)
           d == Ad(0, a)
           x == Sponged(v, s, AdData, a, a \div v.rate + 1)
           y == ascon_permute(x, v.round)
           f == Filling(v, IvBytes(v, "aead"), k, NonceBytes(npub))
           o == [chain |-> <<>>, b |-> f]
           one == <<SeparatorByte>>
<1>1. Rated(v) /\ STATE_SIZE - v.key \in Nat /\ STATE_SIZE - 1 \in Nat
  <2>1. STATE_SIZE = 5 * WORD /\ WORD \in Nat \ {0} /\ v.key \in Nat /\ v.iv \in Nat
        /\ v.iv + v.key = 3 * WORD
    BY StateSize DEF Sized
  <2> QED BY <2>1 DEF Sized
<1>2. IsState(o)
  <2>1. f = [q \in 0 .. STATE_SIZE - 1 |-> f[q]]
    BY DEF Filling
  <2> HIDE DEF f
  <2> QED BY <2>1, EmptySequence DEF IsState
<1>3. IsState(s)
  BY InitIsState, KeyedIsOpening
<1>4. AllDated(s)
  <2> DEFINE p == ascon_permute(o, 0)
  <2>1. IsState(p) /\ AllDated(p)
    <3> HIDE DEF o
    <3> QED BY <1>2, PermutedIsState, PermutedDated
  <2>2. s = ascon_add_bytes(p, k, STATE_SIZE - v.key)
    BY DEF Opening
  <2> HIDE DEF p, s
  <2> QED BY <1>1, <2>1, <2>2, AddedDated
<1>5. Sampled(d, AdData, a) /\ PlainData(AdData)
  BY AdIsSampled
<1>6. Prepared(v, npub, a, k) = ascon_separator(IF d = <<>> THEN s ELSE AbsorbBlocks(v, s, d, TRUE))
  BY DEF Prepared, AfterAd
<1> HIDE DEF s, d
<1>7. AbsorbBlocks(v, s, d, TRUE) = y
  BY <1>1, <1>3, <1>5, AbsorbedAt
<1>8. IsState(y) /\ AllDated(y)
  <2>1. a \div v.rate + 1 \in Nat \ {0}
    <3>1. a \div v.rate \in Nat
      BY <1>1, Division DEF Rated
    <3> QED BY <3>1
  <2>2. IsState(x)
    BY <1>1, <1>3, <2>1, SpongedIsState
  <2> HIDE DEF x
  <2> QED BY <2>2, PermutedIsState, PermutedDated
<1> HIDE DEF y
<1> DEFINE z == IF d = <<>> THEN s ELSE y
<1>9. IsState(z) /\ AllDated(z)
  BY <1>3, <1>4, <1>8
<1>10. FreshBytes(one)
  <2>1. IsFresh(SeparatorByte)
    BY DEF IsFresh, SeparatorByte
  <2> QED BY <2>1, SingleSequence DEF FreshBytes
<1>11. Prepared(v, npub, a, k) = ascon_add_bytes(z, one, STATE_SIZE - 1)
  BY <1>6, <1>7 DEF ascon_separator
<1> HIDE DEF z, one
<1> QED BY <1>1, <1>9, <1>10, <1>11, AddedDated

LEMMA RowDated ==
  ASSUME NEW v, NEW s, NEW w, NEW k, NEW q,
         IsState(s), AllDated(s), k \in Nat, q \in 0 .. STATE_SIZE - 1
  PROVE  Dated(History(v, s, w, k), Row(s, k)[q])
<1> DEFINE h == History(v, s, w, k)
           l == Len(s.chain)
<1>1. Len(h) = l + k /\ l \in Nat
  BY HistorySequence
<1> HIDE DEF h
<1>2. CASE k = 0
  <2>1. Row(s, k)[q] = s.b[q] /\ Dated(s.chain, s.b[q]) /\ Len(h) = Len(s.chain)
    BY <1>1, <1>2 DEF Row, AllDated
  <2> QED BY <2>1 DEF Dated, h
<1>3. CASE k # 0
  <2> DEFINE n == l + k
  <2>1. n \in Nat /\ n <= Len(h)
    BY <1>1
  <2>2. Row(s, k)[q] = {<<"p", n, q>>}
    BY <1>3 DEF Row
  <2> HIDE DEF n
  <2> QED BY <2>1, <2>2 DEF Dated, h
<1> QED BY <1>2, <1>3

FreshData(data) == \A i \in Nat \ {0} : IsFresh(data[i])

LEMMA MixedDated ==
  ASSUME NEW v, NEW s, NEW w, NEW data, NEW i, NEW k, NEW q,
         Rated(v), IsState(s), AllDated(s), FreshData(data), Slot(v, i, k, q)
  PROVE  Dated(History(v, s, w, k), Mixed(v, s, data)[i])
<1>1. k \in Nat /\ q \in 0 .. STATE_SIZE - 1 /\ i \in Nat \ {0}
  <2>1. k \in Nat /\ q \in 0 .. v.rate - 1 /\ i \in Nat \ {0}
    BY SlotDivision
  <2> QED BY <2>1, StateSize DEF Rated
<1>2. Dated(History(v, s, w, k), Row(s, k)[q])
  BY <1>1, RowDated
<1>3. Dated(History(v, s, w, k), data[i])
  BY <1>1, FreshIsDated DEF FreshData
<1>4. Mixed(v, s, data)[i] = Xor(Row(s, k)[q], data[i])
  BY MixedByte
<1> QED BY <1>2, <1>3, <1>4, XorDated

LEMMA FreshIsPlain ==
  ASSUME NEW data, FreshData(data)
  PROVE  PlainData(data)
BY DEF FreshData, PlainData, IsFresh, IsPlain

LEMMA SealedByte ==
  ASSUME NEW v, NEW s, NEW data, NEW i, NEW k, NEW q,
         Rated(v), FreshData(data), Slot(v, i, k, q)
  PROVE  Given(v, s, Mixed(v, s, data), data, i) =
           Went(History(v, s, Mixed(v, s, data), k), Mixed(v, s, data)[i])
<1> DEFINE w == Mixed(v, s, data)
           h == History(v, s, w, k)
<1>1. i \in Nat \ {0}
  BY SlotDivision
<1>2. Came(h, data[i]) = data[i]
  BY <1>1, FreshIsPlain, PlainCame DEF PlainData
<1>3. w[i] = Xor(Row(s, k)[q], data[i])
  BY MixedByte
<1>4. Given(v, s, w, data, i) = Went(h, Xor(Row(s, k)[q], Came(h, data[i])))
  BY GivenInBlock
<1> QED BY <1>2, <1>3, <1>4

\* A byte that is damaged.
FlipByte == {<<"flip", 0, 0>>}

LEMMA FlipChanges ==
  ASSUME NEW x
  PROVE  Xor(x, FlipByte) # x
BY DEF Xor, FlipByte

LEMMA FlipIsFresh == IsFresh(FlipByte)
BY DEF IsFresh, FlipByte

LEMMA WentFlipped ==
  ASSUME NEW h, NEW x, Dated(h, x)
  PROVE  Xor(Went(h, x), FlipByte) = Went(h, Xor(x, FlipByte))
<1> DEFINE f == <<"flip", 0, 0>>
           G(a) == IF a[1] = "p" THEN <<"px", SubSeq(h, 1, a[2]), a[3]>> ELSE a
<1>1. G(f) = f
  OBVIOUS
<1>2. ASSUME NEW a \in x PROVE G(a) = f => a = f
  <2>1. CASE a[1] = "p"
    <3>1. G(a)[1] = "px" /\ f[1] = "flip"
      BY <2>1
    <3> QED BY <3>1
  <2>2. CASE a[1] # "p"
    BY <2>2
  <2> QED BY <2>1, <2>2
<1>3. Went(h, x) = {G(a) : a \in x} /\ Went(h, Xor(x, {f})) = {G(a) : a \in Xor(x, {f})}
  BY DEF Went
<1> HIDE DEF G, f
<1>4. Xor({G(a) : a \in x}, {f}) = {G(a) : a \in Xor(x, {f})}
  <2>1. CASE f \in x
    <3>1. Xor(x, {f}) = x \ {f} /\ f \in {G(a) : a \in x}
      BY <1>1, <2>1 DEF Xor
    <3>2. Xor({G(a) : a \in x}, {f}) = {G(a) : a \in x} \ {f}
      BY <3>1 DEF Xor
    <3>3. {G(a) : a \in x} \ {f} = {G(a) : a \in x \ {f}}
      BY <1>1, <1>2
    <3> QED BY <3>1, <3>2, <3>3
  <2>2. CASE f \notin x
    <3>1. Xor(x, {f}) = x \cup {f} /\ f \notin {G(a) : a \in x}
      BY <1>1, <1>2, <2>2 DEF Xor
    <3>2. Xor({G(a) : a \in x}, {f}) = {G(a) : a \in x} \cup {f}
      BY <3>1 DEF Xor
    <3>3. {G(a) : a \in x} \cup {f} = {G(a) : a \in x \cup {f}}
      BY <1>1
    <3> QED BY <3>1, <3>2, <3>3
  <2> QED BY <2>1, <2>2
<1> QED BY <1>3, <1>4 DEF FlipByte, f

-----------------------------------------------------------------------------
(* Histories agree as far as what is stored does. *)

Same(w, u, n) == \A i \in 1 .. n : w[i] = u[i]

LEMMA SlotOrder ==
  ASSUME NEW v, NEW i, NEW k, NEW q, NEW m, NEW c,
         Rated(v), Slot(v, i, k, q), m \in Nat, c \in Nat, c <= v.rate,
         i <= m * v.rate + c
  PROVE  k < m \/ (k = m /\ q < c)
<1> DEFINE r == v.rate
           a == k * r
           b == m * r
<1>1. k \in Nat /\ q \in 0 .. r - 1 /\ i = a + q + 1 /\ r \in Nat \ {0} /\ i <= b + c
      /\ c <= r
  BY DEF Slot, Rated
<1>2. a \in Nat /\ b \in Nat
  BY <1>1
<1>3. CASE k = m
  <2>1. a = b
    BY <1>3
  <2> HIDE DEF a, b, r
  <2> QED BY <1>1, <1>2, <1>3, <2>1
<1>4. CASE k > m
  <2>1. m * r + r <= k * r
    <3> HIDE DEF r
    <3> QED BY <1>1, <1>4, ProductOrder
  <2>2. b + r <= a
    BY <2>1
  <2> HIDE DEF a, b, r
  <2> QED BY <1>1, <1>2, <2>2
<1>5. k < m \/ k = m \/ k > m
  BY <1>1
<1> QED BY <1>3, <1>4, <1>5

\* What block k and the ones before it hold of c bytes.
LEMMA InBlocks ==
  ASSUME NEW v, NEW k, NEW c, NEW j, NEW q,
         Rated(v), k \in Nat, c \in Nat, c <= v.rate, j \in Nat, q \in 0 .. v.rate - 1,
         j < k \/ (j = k /\ q < c)
  PROVE  j * v.rate + q + 1 \in 1 .. k * v.rate + c
<1> DEFINE r == v.rate
           a == j * r
           b == k * r
<1>1. r \in Nat \ {0} /\ c <= r /\ q \in 0 .. r - 1
  BY DEF Rated
<1>2. a \in Nat /\ b \in Nat
  BY <1>1
<1>3. CASE j < k
  <2>1. a + r <= b
    <3> HIDE DEF r
    <3> QED BY <1>1, <1>3, ProductOrder
  <2>2. a + q + 1 \in 1 .. b + c
    <3> HIDE DEF a, b, r
    <3> QED BY <1>1, <1>2, <2>1
  <2> QED BY <2>2
<1>4. CASE j = k /\ q < c
  <2>1. a = b
    BY <1>4
  <2>2. a + q + 1 \in 1 .. b + c
    <3> HIDE DEF a, b, r
    <3> QED BY <1>1, <1>2, <1>4, <2>1
  <2> QED BY <2>2
<1> QED BY <1>3, <1>4

LEMMA StoredSame ==
  ASSUME NEW v, NEW s, NEW w, NEW u, NEW k, NEW c, NEW n,
         Rated(v), k \in Nat, c \in Nat, c <= v.rate, Same(w, u, n), n = k * v.rate + c
  PROVE  Stored(v, s, w, k, c) = Stored(v, s, u, k, c)
<1>1. ASSUME NEW q \in 0 .. STATE_SIZE - 1, q < c
      PROVE  w[k * v.rate + q + 1] = u[k * v.rate + q + 1]
  <2>1. q \in 0 .. v.rate - 1
    BY <1>1, StateSize DEF Rated
  <2>2. k * v.rate + q + 1 \in 1 .. k * v.rate + c
    BY <1>1, <2>1, InBlocks
  <2> QED BY <2>2 DEF Same
<1> QED BY <1>1 DEF Stored

LEMMA HistorySame ==
  ASSUME NEW v, NEW s, NEW w, NEW u, NEW k, NEW n,
         Rated(v), k \in Nat, Same(w, u, n), n = k * v.rate
  PROVE  History(v, s, w, k) = History(v, s, u, k)
<1>1. ASSUME NEW j \in 1 .. k PROVE Passed(v, s, w, j) = Passed(v, s, u, j)
  <2> DEFINE m == j - 1
             r == v.rate
             e == m * r + r
  <2>1. m \in Nat /\ m < k /\ j = m + 1 /\ r \in Nat \ {0}
    BY DEF Rated
  <2>2. e <= n /\ e \in Nat
    <3> HIDE DEF m, r
    <3>1. m * r + r <= k * r
      BY <2>1, ProductOrder
    <3> QED BY <2>1, <3>1 DEF r
  <2>3. n \in Nat
    BY <2>1
  <2> HIDE DEF m
  <2>4. Same(w, u, e)
    <3> HIDE DEF e
    <3> QED BY <2>2, <2>3 DEF Same
  <2>5. r <= v.rate /\ r \in Nat /\ e = m * v.rate + r
    BY <2>1
  <2> HIDE DEF e, r
  <2>6. Stored(v, s, w, m, r) = Stored(v, s, u, m, r)
    BY <2>1, <2>4, <2>5, StoredSame
  <2> QED BY <2>6 DEF Passed, m, r
<1>2. PassedTo(v, s, w, k) = PassedTo(v, s, u, k)
  BY <1>1 DEF PassedTo
<1> QED BY <1>2 DEF History

LEMMA AtSame ==
  ASSUME NEW v, NEW s, NEW w, NEW u, NEW n,
         Rated(v), n \in Nat, Same(w, u, n)
  PROVE  At(v, s, w, n) = At(v, s, u, n)
<1> DEFINE r == v.rate
           k == n \div r
           c == n % r
           m == k * v.rate
<1>1. r \in Nat \ {0}
  BY DEF Rated
<1>2. k \in Nat /\ c \in 0 .. r - 1 /\ n = k * r + c
  BY ONLY <1>1, n \in Nat, Division
<1>3. c \in Nat /\ c <= v.rate /\ n = m + c /\ m \in Nat
  BY <1>1, <1>2
<1> HIDE DEF k, c
<1>4. Same(w, u, m)
  <2> HIDE DEF m
  <2> QED BY <1>3 DEF Same
<1>5. Stored(v, s, w, k, c) = Stored(v, s, u, k, c)
  BY <1>2, <1>3, StoredSame
<1>6. History(v, s, w, k) = History(v, s, u, k)
  BY <1>2, <1>4, HistorySame
<1> QED BY <1>5, <1>6 DEF At, Within, k, c

-----------------------------------------------------------------------------
(***************************************************************************)
(* A text whose p-th byte was damaged, and what decrypting it stores: what *)
(* encrypting stored as far as the block of that byte, and from there on   *)
(* the bytes of the text, which name other histories.                      *)
(***************************************************************************)
BlockOf(v, i) == (i - 1) \div v.rate
Changed(w, p) == [i \in Nat \ {0} |-> IF i = p THEN Xor(w[i], FlipByte) ELSE w[i]]
Untouched(v, p, k) == p = 0 \/ k <= BlockOf(v, p)
Tampered(v, s, data, p) ==
  [i \in Nat \ {0} |->
     Went(History(v, s, Mixed(v, s, data), BlockOf(v, i)), Changed(Mixed(v, s, data), p)[i])]
Forged(v, s, data, p) ==
  [i \in Nat \ {0} |->
     IF Untouched(v, p, BlockOf(v, i)) THEN Changed(Mixed(v, s, data), p)[i]
     ELSE Tampered(v, s, data, p)[i]]

LEMMA ForgedByte ==
  ASSUME NEW v, NEW s, NEW data, NEW p, NEW i, NEW k, NEW q, Rated(v), Slot(v, i, k, q)
  PROVE  /\ i \in Nat \ {0} /\ BlockOf(v, i) = k
         /\ Tampered(v, s, data, p)[i] =
              Went(History(v, s, Mixed(v, s, data), k), Changed(Mixed(v, s, data), p)[i])
         /\ Forged(v, s, data, p)[i] =
              IF Untouched(v, p, k) THEN Changed(Mixed(v, s, data), p)[i]
              ELSE Tampered(v, s, data, p)[i]
<1>1. i \in Nat \ {0} /\ (i - 1) \div v.rate = k
  BY SlotDivision
<1> QED BY <1>1 DEF Tampered, Forged, BlockOf

\* Up to the block of the damaged byte nothing else differs.
LEMMA ForgedBefore ==
  ASSUME NEW v, NEW s, NEW data, NEW p, NEW k, NEW n,
         Rated(v), p \in Nat, k \in Nat, Untouched(v, p, k), n = k * v.rate
  PROVE  Same(Forged(v, s, data, p), Mixed(v, s, data), n)
<1> DEFINE w == Mixed(v, s, data)
           u == Forged(v, s, data, p)
<1> HIDE DEF w, u
<1>1. n \in Nat /\ n = k * v.rate + 0 /\ 0 \in Nat /\ 0 <= v.rate
  <2> DEFINE r == v.rate
  <2>1. r \in Nat
    BY DEF Rated
  <2>2. n = k * r
    OBVIOUS
  <2> HIDE DEF r
  <2>3. k * r \in Nat /\ k * r + 0 = k * r /\ 0 <= r
    BY <2>1
  <2> QED BY <2>2, <2>3 DEF r
<1>2. ASSUME NEW i \in 1 .. n PROVE u[i] = w[i]
  <2> DEFINE j == (i - 1) \div v.rate
             q == (i - 1) % v.rate
  <2>1. i \in Nat \ {0} /\ i <= n
    BY <1>1
  <2>2. Slot(v, i, j, q)
    BY ONLY <2>1, Rated(v), SlotOf
  <2> HIDE DEF j, q
  <2>3. j \in Nat /\ j < k
    <3>1. i <= k * v.rate + 0
      BY <1>1, <2>1
    <3>2. j < k \/ (j = k /\ q < 0)
      BY ONLY <1>1, <2>2, <3>1, Rated(v), k \in Nat, SlotOrder
    <3>3. j \in Nat /\ q \in 0 .. v.rate - 1
      BY <2>2 DEF Slot
    <3> QED BY <3>2, <3>3
  <2>4. Untouched(v, p, j) /\ i # p
    <3>1. CASE p = 0
      BY <2>1, <3>1 DEF Untouched
    <3>2. CASE p # 0
      <4> DEFINE b == BlockOf(v, p)
                 e == (p - 1) % v.rate
      <4>1. p \in Nat \ {0}
        BY <3>2
      <4>2. Slot(v, p, (p - 1) \div v.rate, (p - 1) % v.rate)
        BY ONLY <4>1, Rated(v), SlotOf
      <4>3. b \in Nat /\ k <= b
        BY <3>2, <4>2 DEF Untouched, BlockOf, Slot
      <4>4. j <= b /\ j # b
        <5> HIDE DEF b
        <5> QED BY <2>3, <4>3
      <4>5. BlockOf(v, i) = j
        BY ONLY <2>2, Rated(v), ForgedByte
      <4> QED BY <4>4, <4>5 DEF Untouched
    <3> QED BY <3>1, <3>2
  <2>5. u[i] = Changed(w, p)[i]
    <3>1. u[i] = IF Untouched(v, p, j) THEN Changed(w, p)[i] ELSE Tampered(v, s, data, p)[i]
      BY ONLY <2>2, Rated(v), ForgedByte DEF u, w
    <3> QED BY <2>4, <3>1
  <2>6. Changed(w, p)[i] = w[i]
    BY <2>1, <2>4 DEF Changed
  <2> QED BY <2>5, <2>6
<1> QED BY <1>2 DEF Same, u, w

\* Behind it the histories differ.
LEMMA ForgedHistory ==
  ASSUME NEW v, NEW s, NEW data, NEW p, NEW k, NEW b, NEW e,
         Rated(v), IsState(s), Slot(v, p, b, e), k \in Nat, b < k
  PROVE  History(v, s, Forged(v, s, data, p), k) # History(v, s, Mixed(v, s, data), k)
<1> DEFINE w == Mixed(v, s, data)
           u == Forged(v, s, data, p)
           l == Len(s.chain)
           j == b + 1
<1>1. b \in Nat /\ e \in 0 .. v.rate - 1 /\ p = b * v.rate + e + 1 /\ p \in Nat \ {0}
  BY SlotDivision
<1>2. e \in 0 .. STATE_SIZE - 1 /\ e < v.rate
  BY <1>1, StateSize DEF Rated
<1>3. u[p] # w[p]
  <2>1. Untouched(v, p, b)
    <3>1. BlockOf(v, p) = b
      BY ForgedByte
    <3> QED BY <1>1, <3>1 DEF Untouched
  <2>2. u[p] = Changed(w, p)[p]
    BY <2>1, ForgedByte
  <2>3. Changed(w, p)[p] = Xor(w[p], FlipByte)
    BY <1>1 DEF Changed
  <2> HIDE DEF w, u
  <2> QED BY <2>2, <2>3, FlipChanges
<1> HIDE DEF w, u
<1>4. ASSUME NEW x PROVE Passed(v, s, x, j).b[e] = x[p]
  <2>1. (b + 1) - 1 = b
    BY <1>1
  <2>2. Passed(v, s, x, j).b = Stored(v, s, x, b, v.rate)
    BY <2>1 DEF Passed
  <2>3. Stored(v, s, x, b, v.rate)[e] = x[b * v.rate + e + 1]
    BY <1>2 DEF Stored
  <2> QED BY <1>1, <2>2, <2>3
<1>5. Passed(v, s, u, j) # Passed(v, s, w, j)
  BY <1>3, <1>4
<1>6. j \in 1 .. k
  BY <1>1
<1>7. ASSUME NEW x PROVE History(v, s, x, k)[l + j] = Passed(v, s, x, j)
  <2> HIDE DEF j
  <2> QED BY <1>6, HistorySequence
<1> QED BY <1>5, <1>7 DEF u, w

\* A byte of another history keeps its name.
LEMMA CameAlien ==
  ASSUME NEW v, NEW s, NEW w, NEW u, NEW data, NEW i, NEW k, NEW q,
         Rated(v), IsState(s), FreshData(data), Slot(v, i, k, q), k # 0,
         History(v, s, u, k) # History(v, s, w, k)
  PROVE  Came(History(v, s, u, k), Went(History(v, s, w, k), Mixed(v, s, data)[i])) =
           Went(History(v, s, w, k), Mixed(v, s, data)[i])
<1> DEFINE h == History(v, s, w, k)
           g == History(v, s, u, k)
           d == Len(s.chain) + k
           x == Mixed(v, s, data)[i]
           G(a) == IF a[1] = "p" THEN <<"px", SubSeq(h, 1, a[2]), a[3]>> ELSE a
           F(a) == IF a[1] = "px" /\ Len(a[2]) <= Len(g) /\ a[2] = SubSeq(g, 1, Len(a[2]))
                   THEN <<"p", Len(a[2]), a[3]>> ELSE a
<1>1. k \in Nat /\ q \in 0 .. STATE_SIZE - 1 /\ i \in Nat \ {0}
  <2>1. k \in Nat /\ q \in 0 .. v.rate - 1 /\ i \in Nat \ {0}
    BY SlotDivision
  <2> QED BY <2>1, StateSize DEF Rated
<1>2. IsSequence(h) /\ Len(h) = d /\ IsSequence(g) /\ Len(g) = d /\ d \in Nat
  <2>1. Len(s.chain) + k \in Nat
    BY <1>1, HistorySequence
  <2> QED BY <1>1, <2>1, HistorySequence
<1>3. x = Xor({<<"p", d, q>>}, data[i])
  <2>1. Row(s, k)[q] = {<<"p", d, q>>}
    BY <1>1 DEF Row
  <2> HIDE DEF d
  <2> QED BY <2>1, MixedByte
<1>4. ASSUME NEW a \in x PROVE a = <<"p", d, q>> \/ a[1] \notin {"p", "px"}
  BY <1>1, <1>3 DEF Xor, FreshData, IsFresh
<1> HIDE DEF h, g, d, x
<1>5. SubSeq(h, 1, d) = h /\ SubSeq(g, 1, d) = g
  <2>1. 1 \in 1 .. d + 1 /\ d \in 1 - 1 .. d /\ d - 1 + 1 = d
    BY <1>2
  <2>2. ASSUME NEW t, IsSequence(t), Len(t) = d PROVE SubSeq(t, 1, d) = t
    <3> DEFINE y == SubSeq(t, 1, d)
    <3>1. IsSequence(y) /\ Len(y) = d - 1 + 1 /\ \A m \in 1 .. d - 1 + 1 : y[m] = t[1 + m - 1]
      BY <2>1, <2>2, Subsequence
    <3>2. \A m \in 1 .. d : 1 + m - 1 = m
      BY <1>2
    <3>3. Len(y) = d /\ \A m \in 1 .. d : y[m] = t[m]
      BY <2>1, <3>1, <3>2
    <3> HIDE DEF y
    <3>4. y = t
      BY <2>2, <3>1, <3>3, SameSequence
    <3> QED BY <3>4 DEF y
  <2> QED BY <1>2, <2>2
<1>6. ASSUME NEW a \in x PROVE F(G(a)) = G(a)
  <2>1. CASE a = <<"p", d, q>>
    <3> DEFINE c == <<"px", h, q>>
    <3>1. G(a) = c
      BY <1>5, <2>1
    <3>2. c[1] = "px" /\ c[2] = h
      OBVIOUS
    <3>3. c[2] # SubSeq(g, 1, Len(c[2]))
      BY <1>2, <1>5, <3>2 DEF h, g
    <3> HIDE DEF c
    <3> QED BY <3>1, <3>3
  <2>2. CASE a[1] \notin {"p", "px"}
    BY <2>2
  <2> QED BY <1>4, <2>1, <2>2
<1>7. Came(g, Went(h, x)) = {F(b) : b \in {G(a) : a \in x}} /\ Went(h, x) = {G(a) : a \in x}
  BY DEF Came, Went
<1> HIDE DEF F, G
<1>8. {F(b) : b \in {G(a) : a \in x}} = {G(a) : a \in x}
  BY <1>6
<1> QED BY <1>7, <1>8 DEF g, h, x

\* Decrypting the damaged text stores the forged bytes.
LEMMA ForgedMatches ==
  ASSUME NEW v, NEW s, NEW data, NEW p, NEW n,
         Rated(v), IsState(s), AllDated(s), FreshData(data), p \in Nat
  PROVE  Matches(TRUE, v, s, Forged(v, s, data, p), Tampered(v, s, data, p), n)
<1> DEFINE w == Mixed(v, s, data)
           u == Forged(v, s, data, p)
           t == Tampered(v, s, data, p)
<1> HIDE DEF w, u, t
<1>1. ASSUME NEW i, NEW k, NEW q, Slot(v, i, k, q)
      PROVE  u[i] = Came(History(v, s, u, k), t[i])
  <2> DEFINE h == History(v, s, w, k)
             g == History(v, s, u, k)
  <2>1. k \in Nat /\ i \in Nat \ {0}
    BY <1>1, SlotDivision
  <2>2. /\ t[i] = Went(h, Changed(w, p)[i])
        /\ u[i] = IF Untouched(v, p, k) THEN Changed(w, p)[i] ELSE t[i]
    BY <1>1, ForgedByte DEF u, t, w
  <2>3. Dated(h, w[i])
    BY <1>1, MixedDated DEF w
  <2>4. CASE Untouched(v, p, k)
    <3>1. g = h
      <4> DEFINE m == k * v.rate
      <4> HIDE DEF m
      <4>1. Same(u, w, m)
        BY <2>1, <2>4, ForgedBefore DEF u, w, m
      <4> QED BY <2>1, <4>1, HistorySame DEF m
    <3>2. Dated(h, Changed(w, p)[i])
      <4>1. Changed(w, p)[i] = IF i = p THEN Xor(w[i], FlipByte) ELSE w[i]
        BY <2>1 DEF Changed
      <4> QED BY <2>3, <4>1, FlipIsFresh, FreshIsDated, XorDated
    <3>3. IsSequence(h)
      BY <2>1, HistorySequence
    <3> HIDE DEF h, g
    <3> QED BY <2>2, <2>4, <3>1, <3>2, <3>3, CameWent DEF g
  <2>5. CASE ~Untouched(v, p, k)
    <3> DEFINE b == (p - 1) \div v.rate
               e == (p - 1) % v.rate
    <3>1. p \in Nat \ {0} /\ ~(k <= b)
      BY <2>5 DEF Untouched, BlockOf
    <3>2. Slot(v, p, b, e)
      BY ONLY <3>1, Rated(v), SlotOf
    <3>3. b \in Nat
      BY <3>2 DEF Slot
    <3> HIDE DEF b, e
    <3>4. b < k /\ k # 0 /\ i # p
      <4>1. b < k /\ k # 0
        BY <2>1, <3>1, <3>3
      <4>2. BlockOf(v, i) = k /\ BlockOf(v, p) = b
        BY <1>1, <3>2, ForgedByte
      <4> QED BY <2>1, <3>3, <4>1, <4>2
    <3>5. g # h
      BY <2>1, <3>2, <3>4, ForgedHistory DEF u, w
    <3>6. Changed(w, p)[i] = w[i]
      BY <2>1, <3>4 DEF Changed
    <3>7. Came(g, Went(h, w[i])) = Went(h, w[i])
      BY <1>1, <3>4, <3>5, CameAlien DEF w
    <3> QED BY <2>2, <2>5, <3>6, <3>7
  <2> QED BY <2>4, <2>5
<1>2. ASSUME NEW k \in Nat, NEW q \in 0 .. v.rate - 1
      PROVE  u[k * v.rate + q + 1] =
               StoredByte(TRUE, History(v, s, u, k), Row(s, k)[q], t[k * v.rate + q + 1])
  <2> DEFINE i == k * v.rate + q + 1
  <2>1. Slot(v, i, k, q)
    BY DEF Slot
  <2> HIDE DEF i
  <2>2. u[i] = Came(History(v, s, u, k), t[i])
    BY <1>1, <2>1
  <2>3. u[i] = StoredByte(TRUE, History(v, s, u, k), Row(s, k)[q], t[i])
    BY <2>2 DEF StoredByte
  <2> QED BY <2>3 DEF i
<1> QED BY <1>2 DEF Matches, u, t

LEMMA XorTwice ==
  ASSUME NEW a, NEW b
  PROVE  Xor(a, Xor(a, b)) = b
BY DEF Xor

LEMMA XorCancels ==
  ASSUME NEW a, NEW b, NEW c, Xor(a, c) = Xor(b, c)
  PROVE  a = b
<1>1. \A x : x \in a <=> x \in b
  <2> SUFFICES ASSUME NEW x PROVE x \in a <=> x \in b
    OBVIOUS
  <2>1. (x \in Xor(a, c)) <=> (x \in Xor(b, c))
    OBVIOUS
  <2> QED BY ONLY <2>1 DEF Xor
<1> QED BY ONLY <1>1

\* The text as it is received: only byte p differs from what was sealed.
LEMMA TamperedByte ==
  ASSUME NEW v, NEW s, NEW data, NEW p, NEW i, NEW k, NEW q,
         Rated(v), IsState(s), AllDated(s), FreshData(data), Slot(v, i, k, q)
  PROVE  Tampered(v, s, data, p)[i] =
           IF i = p THEN Xor(Given(v, s, Mixed(v, s, data), data, i), FlipByte)
           ELSE Given(v, s, Mixed(v, s, data), data, i)
<1> DEFINE w == Mixed(v, s, data)
           h == History(v, s, w, k)
<1> HIDE DEF w
<1>1. i \in Nat \ {0} /\ Tampered(v, s, data, p)[i] = Went(h, Changed(w, p)[i])
  BY ForgedByte DEF w
<1>2. Changed(w, p)[i] = IF i = p THEN Xor(w[i], FlipByte) ELSE w[i]
  BY <1>1 DEF Changed
<1>3. Given(v, s, w, data, i) = Went(h, w[i])
  BY SealedByte DEF w
<1>4. Dated(h, w[i])
  BY MixedDated DEF w
<1> HIDE DEF h
<1>5. Xor(Went(h, w[i]), FlipByte) = Went(h, Xor(w[i], FlipByte))
  BY <1>4, WentFlipped
<1> QED BY <1>1, <1>2, <1>3, <1>5 DEF w

\* Decrypting gives the plaintext back if nothing was damaged.
LEMMA OpenedByte ==
  ASSUME NEW v, NEW s, NEW data, NEW i,
         Rated(v), IsState(s), AllDated(s), FreshData(data), i \in Nat \ {0}
  PROVE  Given(v, s, Forged(v, s, data, 0), Tampered(v, s, data, 0), i) = data[i]
<1> DEFINE w == Mixed(v, s, data)
           u == Forged(v, s, data, 0)
           t == Tampered(v, s, data, 0)
           k == (i - 1) \div v.rate
           q == (i - 1) % v.rate
           h == History(v, s, w, k)
           g == History(v, s, u, k)
<1>1. Slot(v, i, k, q)
  BY ONLY Rated(v), i \in Nat \ {0}, SlotOf
<1> HIDE DEF w, u, t, k, q
<1>2. k \in Nat
  BY <1>1 DEF Slot
<1>3. t[i] = Went(h, w[i])
  <2>1. t[i] = Went(h, Changed(w, 0)[i])
    BY <1>1, ForgedByte DEF t, w
  <2>2. Changed(w, 0)[i] = w[i]
    BY DEF Changed
  <2> QED BY <2>1, <2>2
<1>4. g = h
  <2> DEFINE m == k * v.rate
             p == 0
  <2>1. m = k * v.rate /\ Untouched(v, p, k) /\ p \in Nat
    BY DEF Untouched
  <2> HIDE DEF m, p
  <2>2. Same(Forged(v, s, data, p), w, m)
    BY ONLY <1>2, <2>1, Rated(v), ForgedBefore DEF w
  <2>3. Same(u, w, m)
    BY <2>2 DEF u, p
  <2> QED BY <1>2, <2>1, <2>3, HistorySame
<1>5. Came(h, t[i]) = w[i]
  <2>1. Dated(h, w[i])
    BY <1>1, MixedDated DEF w
  <2>2. IsSequence(h)
    BY <1>2, HistorySequence
  <2> HIDE DEF h
  <2> QED BY <1>3, <2>1, <2>2, CameWent
<1>6. w[i] = Xor(Row(s, k)[q], data[i])
  BY <1>1, MixedByte DEF w
<1>7. Given(v, s, u, t, i) = Went(g, Xor(Row(s, k)[q], Came(g, t[i])))
  BY <1>1, GivenInBlock
<1>8. Went(g, data[i]) = data[i]
  BY FreshWent DEF FreshData
<1> HIDE DEF g, h
<1>9. Xor(Row(s, k)[q], w[i]) = data[i]
  BY <1>6, XorTwice
<1> QED BY <1>4, <1>5, <1>7, <1>8, <1>9 DEF u, t

-----------------------------------------------------------------------------
(* The tag tells states apart. *)

LEMMA AddedParts ==
  ASSUME NEW s, NEW d, NEW at, IsState(s)
  PROVE  /\ ascon_add_bytes(s, d, at).chain = s.chain
         /\ ascon_add_bytes(s, d, at).b = AddedTo(s.b, d, at)
<1> DEFINE h == s.chain
           c == s.b
           b == AddedTo(c, d, at)
<1>1. s = [chain |-> h, b |-> c] /\ DOMAIN c = 0 .. STATE_SIZE - 1
  BY DEF IsState
<1>2. ascon_add_bytes([chain |-> h, b |-> c], d, at) = [chain |-> h, b |-> b]
  <2> HIDE DEF h, c
  <2> QED BY <1>1, AddedState
<1>3. [chain |-> h, b |-> b].chain = h /\ [chain |-> h, b |-> b].b = b
  OBVIOUS
<1> HIDE DEF h, b, c
<1> QED BY <1>1, <1>2, <1>3 DEF h, b, c

\* Adding the same bytes to two states leaves them as different as they were.
LEMMA AddedTells ==
  ASSUME NEW s, NEW z, NEW d, NEW at,
         IsState(s), IsState(z),
         AddedTo(s.b, d, at) = AddedTo(z.b, d, at), s.chain = z.chain
  PROVE  s = z
<1> DEFINE b == s.b
           c == z.b
<1>1. ASSUME NEW q \in 0 .. STATE_SIZE - 1 PROVE b[q] = c[q]
  <2>1. AddedTo(b, d, at)[q] = AddedTo(c, d, at)[q]
    OBVIOUS
  <2>2. /\ AddedTo(b, d, at)[q] =
             IF q \in Touched(at, Len(d)) THEN Xor(b[q], d[q - at + 1]) ELSE b[q]
        /\ AddedTo(c, d, at)[q] =
             IF q \in Touched(at, Len(d)) THEN Xor(c[q], d[q - at + 1]) ELSE c[q]
    BY DEF AddedTo
  <2> HIDE DEF b, c
  <2>3. CASE q \in Touched(at, Len(d))
    <3>1. Xor(b[q], d[q - at + 1]) = Xor(c[q], d[q - at + 1])
      BY <2>1, <2>2, <2>3
    <3> QED BY <3>1, XorCancels
  <2>4. CASE q \notin Touched(at, Len(d))
    BY <2>1, <2>2, <2>4
  <2> QED BY <2>3, <2>4
<1>2. b = [q \in 0 .. STATE_SIZE - 1 |-> b[q]] /\ c = [q \in 0 .. STATE_SIZE - 1 |-> c[q]]
  BY DEF IsState
<1>3. b = c
  <2> HIDE DEF b, c
  <2> QED BY <1>1, <1>2
<1> QED BY <1>3 DEF IsState

LEMMA WholeSequence ==
  ASSUME NEW t, NEW n, IsSequence(t), n = Len(t)
  PROVE  SubSeq(t, 1, n) = t
<1> DEFINE y == SubSeq(t, 1, n)
<1>0. n \in Nat
  BY SequenceLength
<1>1. 1 \in 1 .. n + 1 /\ n \in 1 - 1 .. n /\ n - 1 + 1 = n
  BY <1>0
<1>2. IsSequence(y) /\ Len(y) = n - 1 + 1 /\ \A m \in 1 .. n - 1 + 1 : y[m] = t[1 + m - 1]
  BY <1>1, Subsequence
<1>3. Len(y) = n /\ \A m \in 1 .. n : y[m] = t[m]
  <2>1. \A m \in 1 .. n : 1 + m - 1 = m
    BY <1>0
  <2> QED BY <1>1, <1>2, <2>1
<1> HIDE DEF y
<1>4. y = t
  BY <1>2, <1>3, SameSequence
<1> QED BY <1>4 DEF y

\* The history of the state before the last permutation, and its bytes.
FinalHistory(v, x, k) ==
  Append(x.chain, [round |-> 0, b |-> AddedTo(x.b, k, v.rate)])

LEMMA TagLength ==
  ASSUME NEW s
  PROVE  /\ IsSequence(TagOf(s)) /\ Len(TagOf(s)) = TAG_SIZE /\ TAG_SIZE \in Nat /\ 2 <= TAG_SIZE
         /\ TagOf(s)[1] = Went(s.chain, s.b[3 * WORD])
<1> DEFINE e == ascon_extract_bytes(s, 3 * WORD, TAG_SIZE)
           t == Leaving(s, e)
<1>1. TAG_SIZE \in Nat /\ 2 <= TAG_SIZE /\ 1 \in 1 .. TAG_SIZE
  BY StateSize DEF TAG_SIZE
<1>2. DOMAIN e = 1 .. TAG_SIZE /\ e[1] = s.b[3 * WORD]
  <2>1. 3 * WORD + 1 - 1 = 3 * WORD
    BY StateSize
  <2> QED BY <1>1, <2>1 DEF ascon_extract_bytes
<1> HIDE DEF e
<1>3. t = [j \in 1 .. TAG_SIZE |-> t[j]]
  BY <1>2 DEF Leaving
<1>4. t[1] = Went(s.chain, e[1])
  <2>1. 1 \in DOMAIN e
    BY <1>1, <1>2
  <2> QED BY <2>1, LeavingByte
<1> HIDE DEF t
<1>5. IsSequence(t) /\ Len(t) = TAG_SIZE
  BY <1>1, <1>3, FunctionSequence
<1> QED BY <1>1, <1>2, <1>4, <1>5 DEF TagOf, t, e

\* The first byte of the tag names that history, and no other.
LEMMA TagNames ==
  ASSUME NEW v, NEW x, NEW k,
         Sized(v), IsState(x), FreshBytes(k), Len(k) = v.key
  PROVE  /\ \E a \in TagOf(Finalized(v, x, k))[1] : a[1] = "px"
         /\ \A a \in TagOf(Finalized(v, x, k))[1] :
              a[1] = "px" => a[2] = FinalHistory(v, x, k)
<1> DEFINE y == ascon_add_bytes(x, k, v.rate)
           c == FinalHistory(v, x, k)
           n == Len(x.chain) + 1
           l == ascon_permute(y, 0)
           low == SubSeq(k, v.key - 2 * WORD + 1, v.key)
           f == ascon_add_bytes(l, low, 3 * WORD)
           m == 3 * WORD
<1>1. y.chain = x.chain /\ y.b = AddedTo(x.b, k, v.rate) /\ IsState(y)
  BY AddedParts, AddedIsState
<1> HIDE DEF y
<1>2. IsSequence(c) /\ Len(c) = n /\ n \in Nat
  <2> DEFINE t == x.chain
             e == [round |-> 0, b |-> AddedTo(x.b, k, v.rate)]
  <2>1. IsSequence(t)
    BY DEF IsState
  <2> HIDE DEF t, e
  <2>2. Len(t) \in Nat
    BY <2>1, SequenceLength
  <2>3. IsSequence(Append(t, e)) /\ Len(Append(t, e)) = Len(t) + 1
    BY <2>1, Appended
  <2>4. c = Append(t, e) /\ n = Len(t) + 1
    BY DEF FinalHistory, t, e
  <2> HIDE DEF c, n
  <2> QED BY <2>2, <2>3, <2>4
<1>3. l.chain = c /\ l.b = Permuted(n) /\ IsState(l)
  <2>1. l.chain = c /\ l.b = Permuted(n)
    BY <1>1 DEF ascon_permute, FinalHistory
  <2> QED BY <1>1, <2>1, PermutedIsState
<1> HIDE DEF c, l, n
<1>4. f.chain = c /\ f.b = AddedTo(Permuted(n), low, m)
  <2> HIDE DEF low
  <2> QED BY <1>3, AddedParts
<1>5. IsFresh(low[1]) /\ Len(low) = 2 * WORD
  <2> DEFINE a == v.key - 2 * WORD + 1
             b == v.key
  <2>1. a \in 1 .. Len(k) + 1 /\ b \in a - 1 .. Len(k) /\ b - a + 1 = 2 * WORD
        /\ 2 * WORD \in Nat \ {0} /\ a + 1 - 1 = a /\ a \in 1 .. Len(k)
    BY StateSize DEF Sized
  <2>2. low = SubSeq(k, a, b)
    OBVIOUS
  <2> HIDE DEF a, b, low
  <2>3. IsSequence(k) /\ \A i \in 1 .. Len(k) : IsFresh(k[i])
    BY DEF FreshBytes
  <2>4. Len(low) = b - a + 1 /\ \A i \in 1 .. b - a + 1 : low[i] = k[a + i - 1]
    BY <2>1, <2>2, <2>3, Subsequence
  <2>5. 1 \in 1 .. b - a + 1
    BY <2>1
  <2>6. low[1] = k[a]
    BY <2>1, <2>4, <2>5
  <2> QED BY <2>1, <2>3, <2>4, <2>6
<1> HIDE DEF low, f
<1>6. f.b[m] = Xor({<<"p", n, m>>}, low[1])
  <2>1. m \in 0 .. STATE_SIZE - 1 /\ m \in Touched(m, Len(low)) /\ m - m + 1 = 1
    BY <1>5, StateSize DEF Touched
  <2>2. Permuted(n)[m] = {<<"p", n, m>>}
    BY <2>1 DEF Permuted
  <2>3. AddedTo(Permuted(n), low, m)[m] = Xor(Permuted(n)[m], low[1])
    BY <2>1 DEF AddedTo
  <2> QED BY <1>4, <2>2, <2>3
<1> HIDE DEF m
<1>7. SubSeq(c, 1, n) = c
  BY <1>2, WholeSequence
<1> DEFINE G(a) == IF a[1] = "p" THEN <<"px", SubSeq(c, 1, a[2]), a[3]>> ELSE a
           p == <<"p", n, m>>
<1>8. Went(c, f.b[m]) = {G(a) : a \in Xor({p}, low[1])}
  BY <1>6 DEF Went
<1>9. G(p) = <<"px", c, m>> /\ G(p)[1] = "px" /\ G(p)[2] = c
  BY <1>7
<1>10. p \notin low[1] /\ \A a \in low[1] : G(a) = a /\ a[1] # "px"
  BY <1>5 DEF IsFresh
<1> HIDE DEF G, p
<1>11. p \in Xor({p}, low[1]) /\ \A a \in Xor({p}, low[1]) : a = p \/ a \in low[1]
  BY <1>10 DEF Xor
<1>12. /\ \E a \in {G(d) : d \in Xor({p}, low[1])} : a[1] = "px"
       /\ \A a \in {G(d) : d \in Xor({p}, low[1])} : a[1] = "px" => a[2] = c
  BY <1>9, <1>10, <1>11
<1>13. TagOf(f)[1] = Went(c, f.b[m])
  BY <1>4, TagLength DEF m
<1>14. Finalized(v, x, k) = f
  BY DEF Finalized, f, l, low, y, m
<1> QED BY <1>8, <1>12, <1>13, <1>14 DEF c

LEMMA TagTells ==
  ASSUME NEW v, NEW x, NEW z, NEW k,
         Sized(v), IsState(x), IsState(z), FreshBytes(k), Len(k) = v.key,
         TagOf(Finalized(v, x, k)) = TagOf(Finalized(v, z, k))
  PROVE  x = z
<1> DEFINE t == TagOf(Finalized(v, x, k))[1]
<1>1. /\ \E a \in t : a[1] = "px"
      /\ \A a \in t : a[1] = "px" => a[2] = FinalHistory(v, x, k)
      /\ \A a \in t : a[1] = "px" => a[2] = FinalHistory(v, z, k)
  BY TagNames
<1> HIDE DEF t
<1>2. FinalHistory(v, x, k) = FinalHistory(v, z, k)
  BY <1>1
<1> DEFINE d == [round |-> 0, b |-> AddedTo(x.b, k, v.rate)]
           e == [round |-> 0, b |-> AddedTo(z.b, k, v.rate)]
           g == x.chain
           h == z.chain
<1>3. Append(g, d) = Append(h, e) /\ IsSequence(g) /\ IsSequence(h)
  BY <1>2 DEF FinalHistory, IsState
<1> HIDE DEF d, e, g, h
<1>4. /\ Len(Append(g, d)) = Len(g) + 1 /\ Len(Append(h, e)) = Len(h) + 1
      /\ Append(g, d)[Len(g) + 1] = d /\ Append(h, e)[Len(h) + 1] = e
      /\ (\A i \in 1 .. Len(g) : Append(g, d)[i] = g[i])
      /\ \A i \in 1 .. Len(h) : Append(h, e)[i] = h[i]
  BY <1>3, Appended
<1>5. Len(g) \in Nat /\ Len(h) \in Nat
  BY <1>3, SequenceLength
<1>6. Len(g) = Len(h)
  BY <1>3, <1>4, <1>5
<1>7. d = e /\ \A i \in 1 .. Len(g) : g[i] = h[i]
  BY <1>3, <1>4, <1>6
<1>8. g = h
  BY <1>3, <1>6, <1>7, SameSequence
<1>9. AddedTo(x.b, k, v.rate) = AddedTo(z.b, k, v.rate)
  BY <1>7 DEF d, e
<1> QED BY <1>8, <1>9, AddedTells DEF g, h

LEMMA PadTells ==
  ASSUME NEW x, NEW z, NEW c, IsState(x), IsState(z), ascon_pad(x, c) = ascon_pad(z, c)
  PROVE  x = z
<1> DEFINE one == <<PadByte>>
<1> HIDE DEF one
<1>1. ascon_add_bytes(x, one, c) = ascon_add_bytes(z, one, c)
  BY DEF ascon_pad, one
<1>2. x.chain = z.chain /\ AddedTo(x.b, one, c) = AddedTo(z.b, one, c)
  BY <1>1, AddedParts
<1> QED BY <1>2, AddedTells

LEMMA ForgedState ==
  ASSUME NEW v, NEW s, NEW data, NEW p, NEW n,
         Rated(v), IsState(s), n \in Nat, p \in 1 .. n
  PROVE  At(v, s, Forged(v, s, data, p), n) # At(v, s, Mixed(v, s, data), n)
<1> DEFINE w == Mixed(v, s, data)
           u == Forged(v, s, data, p)
           b == (p - 1) \div v.rate
           e == (p - 1) % v.rate
           k == n \div v.rate
           c == n % v.rate
<1> HIDE DEF w, u
<1>1. p \in Nat \ {0} /\ p <= n
  OBVIOUS
<1>2. Slot(v, p, b, e)
  BY ONLY <1>1, Rated(v), SlotOf
<1>3. Blocked(v, n, k, c)
  <2> DEFINE r == v.rate
             x == n \div r
             y == n % r
  <2>1. r \in Nat \ {0}
    BY DEF Rated
  <2>2. x \in Nat /\ y \in 0 .. r - 1 /\ n = x * r + y
    BY ONLY <2>1, n \in Nat, Division
  <2> HIDE DEF x, y, r
  <2>3. k = x /\ c = y /\ v.rate = r
    BY DEF x, y, r
  <2> HIDE DEF k, c
  <2> QED BY <2>2, <2>3 DEF Blocked
<1> HIDE DEF b, e
<1>4. At(v, s, u, n) = Within(v, s, u, k, c) /\ At(v, s, w, n) = Within(v, s, w, k, c)
  BY DEF At
<1> HIDE DEF k, c
<1>5. b < k \/ (b = k /\ e < c)
  BY <1>1, <1>2, <1>3, BlockOrder
<1>6. ASSUME NEW x
      PROVE  /\ Within(v, s, x, k, c).chain = History(v, s, x, k)
             /\ Within(v, s, x, k, c).b = Stored(v, s, x, k, c)
  BY DEF Within
<1>7. k \in Nat
  BY <1>3 DEF Blocked
<1>8. CASE b < k
  <2>1. History(v, s, u, k) # History(v, s, w, k)
    BY <1>2, <1>7, <1>8, ForgedHistory DEF u, w
  <2> QED BY <1>4, <1>6, <2>1 DEF u, w
<1>9. CASE b = k /\ e < c
  <2>1. b \in Nat /\ e \in 0 .. v.rate - 1 /\ p = b * v.rate + e + 1
    BY <1>2 DEF Slot
  <2>2. e \in 0 .. STATE_SIZE - 1
    BY <2>1, StateSize DEF Rated
  <2>3. u[p] # w[p]
    <3>1. BlockOf(v, p) = b
      BY <1>2, ForgedByte
    <3>2. Untouched(v, p, b)
      BY <2>1, <3>1 DEF Untouched
    <3>3. u[p] = Changed(w, p)[p]
      BY <1>2, <3>2, ForgedByte DEF u, w
    <3>4. Changed(w, p)[p] = Xor(w[p], FlipByte)
      BY <1>1 DEF Changed
    <3> QED BY <3>3, <3>4, FlipChanges
  <2>4. ASSUME NEW x PROVE Stored(v, s, x, k, c)[e] = x[p]
    BY <1>9, <2>1, <2>2 DEF Stored
  <2>5. Stored(v, s, u, k, c) # Stored(v, s, w, k, c)
    BY <2>3, <2>4
  <2> QED BY <1>4, <1>6, <2>5 DEF u, w
<1> QED BY <1>5, <1>8, <1>9

-----------------------------------------------------------------------------
(* A packet on its way, of which byte p is damaged, none if p is 0. *)

Ready(v, s) == Rated(v) /\ IsState(s) /\ AllDated(s)
Arrived(v, s, p, n) == [i \in 1 .. n |-> Tampered(v, s, TextData, p)[i]]
Opens(v, s, p, n) == At(v, s, Forged(v, s, TextData, p), n)
OpenTag(v, s, p, n, k) == TagOf(Finalized(v, ascon_pad(Opens(v, s, p, n), n % v.rate), k))

LEMMA TextIsFresh == FreshData(TextData)
BY DEF FreshData, TextData, IsFresh

LEMMA ArrivedSequence ==
  ASSUME NEW v, NEW s, NEW p, NEW n, n \in Nat
  PROVE  /\ IsSequence(Arrived(v, s, p, n)) /\ Len(Arrived(v, s, p, n)) = n
         /\ \A i \in 1 .. n : Arrived(v, s, p, n)[i] = Tampered(v, s, TextData, p)[i]
<1> DEFINE t == Arrived(v, s, p, n)
<1>1. t = [i \in 1 .. n |-> t[i]] /\ \A i \in 1 .. n : t[i] = Tampered(v, s, TextData, p)[i]
  BY DEF Arrived
<1> HIDE DEF t
<1>2. IsSequence(t) /\ Len(t) = n
  BY <1>1, FunctionSequence
<1> QED BY <1>1, <1>2 DEF t

SealedAs(v, s, i) == Given(v, s, Mixed(v, s, TextData), TextData, i)

LEMMA ArrivedByte ==
  ASSUME NEW v, NEW s, NEW p, NEW i, Ready(v, s), i \in Nat \ {0}
  PROVE  Tampered(v, s, TextData, p)[i] =
           IF i = p THEN Xor(SealedAs(v, s, i), FlipByte) ELSE SealedAs(v, s, i)
<1> DEFINE k == (i - 1) \div v.rate
           q == (i - 1) % v.rate
<1>1. Rated(v) /\ IsState(s) /\ AllDated(s)
  BY DEF Ready
<1>2. Slot(v, i, k, q)
  BY ONLY <1>1, i \in Nat \ {0}, SlotOf
<1> HIDE DEF k, q
<1>3. FreshData(TextData)
  BY TextIsFresh
<1>4. Tampered(v, s, TextData, p)[i] =
        IF i = p THEN Xor(Given(v, s, Mixed(v, s, TextData), TextData, i), FlipByte)
        ELSE Given(v, s, Mixed(v, s, TextData), TextData, i)
  BY ONLY <1>1, <1>2, <1>3, TamperedByte
<1> QED BY ONLY <1>4 DEF SealedAs

LEMMA ArrivedWhole ==
  ASSUME NEW v, NEW s, NEW n, Ready(v, s), n \in Nat
  PROVE  Arrived(v, s, 0, n) = Sealed(v, s, 0, n)
<1>1. ASSUME NEW i \in 1 .. n
      PROVE  Tampered(v, s, TextData, 0)[i] = SealedAs(v, s, 0 + i)
  <2>1. i \in Nat \ {0} /\ i # 0 /\ 0 + i = i
    OBVIOUS
  <2> QED BY <2>1, ArrivedByte
<1>2. Arrived(v, s, 0, n) = [i \in 1 .. n |-> SealedAs(v, s, 0 + i)]
  BY <1>1 DEF Arrived
<1> QED BY <1>2 DEF Sealed, Returned, SealedAs

LEMMA ArrivedMore ==
  ASSUME NEW v, NEW s, NEW p, NEW n, NEW m, NEW to,
         Ready(v, s), p \in 0 .. n, n \in Nat, m \in Nat, Adds(n, m, to)
  PROVE  Joined(Arrived(v, s, p, n), Sealed(v, s, n, m)) = Arrived(v, s, p, to)
<1> DEFINE a == Arrived(v, s, p, n)
           b == Sealed(v, s, n, m)
           c == Arrived(v, s, p, to)
           ab == Joined(a, b)
<1>1. to = n + m /\ to \in Nat
  BY DEF Adds
<1>2. /\ IsSequence(a) /\ Len(a) = n
      /\ \A i \in 1 .. n : a[i] = Tampered(v, s, TextData, p)[i]
  BY ArrivedSequence
<1>3. /\ IsSequence(b) /\ Len(b) = m /\ \A i \in 1 .. m : b[i] = SealedAs(v, s, n + i)
  BY ReturnedSequence DEF Sealed, SealedAs
<1>4. /\ IsSequence(c) /\ Len(c) = to
      /\ \A i \in 1 .. to : c[i] = Tampered(v, s, TextData, p)[i]
  BY <1>1, ArrivedSequence
<1> HIDE DEF a, b, c
<1>5. /\ IsSequence(ab) /\ Len(ab) = Len(a) + Len(b)
      /\ (\A i \in 1 .. Len(a) : ab[i] = a[i]) /\ \A i \in 1 .. Len(b) : ab[Len(a) + i] = b[i]
  <2>1. IsSequence(a) /\ IsSequence(b)
    BY <1>2, <1>3
  <2> QED BY ONLY <2>1, JoinedItems
<1> HIDE DEF ab
<1>6. ASSUME NEW i \in 1 .. to PROVE ab[i] = c[i]
  <2>1. CASE i <= n
    <3>1. i \in 1 .. n
      BY <1>1, <2>1
    <3> QED BY <1>2, <1>4, <1>5, <3>1
  <2>2. CASE i > n
    <3> DEFINE j == i - n
    <3>1. j \in 1 .. m /\ i = n + j /\ i # p /\ i \in Nat \ {0}
      BY <1>1, <2>2
    <3>2. ab[i] = SealedAs(v, s, i)
      BY <1>2, <1>3, <1>5, <3>1
    <3>3. Tampered(v, s, TextData, p)[i] = SealedAs(v, s, i)
      BY <3>1, ArrivedByte
    <3> QED BY <1>4, <3>2, <3>3
  <2> QED BY <1>1, <2>1, <2>2
<1>7. ab = c
  BY <1>1, <1>2, <1>3, <1>4, <1>5, <1>6, SameSequence
<1> QED BY <1>7 DEF a, b, c, ab

\* The last byte is damaged.
LEMMA ArrivedFlipped ==
  ASSUME NEW v, NEW s, NEW n, Ready(v, s), n \in Nat \ {0}
  PROVE  Flip(Arrived(v, s, 0, n), n) = Arrived(v, s, n, n)
<1> DEFINE t == Tampered(v, s, TextData, 0)
           u == Tampered(v, s, TextData, n)
           a == Arrived(v, s, 0, n)
<1>1. ASSUME NEW i \in 1 .. n
      PROVE  u[i] = IF i = n THEN Xor(t[i], FlipByte) ELSE t[i]
  <2>1. i \in Nat \ {0} /\ i # 0
    OBVIOUS
  <2>2. t[i] = SealedAs(v, s, i)
    BY <2>1, ArrivedByte
  <2>3. u[i] = IF i = n THEN Xor(SealedAs(v, s, i), FlipByte) ELSE SealedAs(v, s, i)
    BY <2>1, ArrivedByte
  <2> QED BY <2>2, <2>3
<1> HIDE DEF t, u
<1>2. a = [i \in 1 .. n |-> t[i]] /\ Arrived(v, s, n, n) = [i \in 1 .. n |-> u[i]]
  BY DEF Arrived, t, u
<1>3. Flip(a, n) = [a EXCEPT ![n] = Xor(a[n], FlipByte)]
  BY DEF Flip, FlipByte
<1> HIDE DEF a
<1>4. [a EXCEPT ![n] = Xor(a[n], FlipByte)] =
        [i \in 1 .. n |-> IF i = n THEN Xor(t[i], FlipByte) ELSE t[i]]
  BY <1>2
<1>5. [i \in 1 .. n |-> IF i = n THEN Xor(t[i], FlipByte) ELSE t[i]] = [i \in 1 .. n |-> u[i]]
  BY <1>1
<1> QED BY <1>2, <1>3, <1>4, <1>5 DEF a

LEMMA OpensFirst ==
  ASSUME NEW v, NEW s, NEW p, Ready(v, s)
  PROVE  Opens(v, s, p, 0) = s
BY AtFirst DEF Opens, Ready

\* A byte that was damaged later makes no difference yet.
LEMMA OpensBefore ==
  ASSUME NEW v, NEW s, NEW p, NEW n, Ready(v, s), n \in Nat, p \in Nat, n < p
  PROVE  Opens(v, s, p, n) = Opens(v, s, 0, n)
<1> DEFINE w == Mixed(v, s, TextData)
           x == Forged(v, s, TextData, p)
           y == Forged(v, s, TextData, 0)
<1> HIDE DEF w, x, y
<1>1. Rated(v) /\ IsState(s)
  BY DEF Ready
<1>2. ASSUME NEW i \in 1 .. n PROVE x[i] = y[i]
  <2> DEFINE j == (i - 1) \div v.rate
             q == (i - 1) % v.rate
             b == (p - 1) \div v.rate
             e == (p - 1) % v.rate
  <2>1. i \in Nat \ {0} /\ p \in Nat \ {0} /\ i # p /\ i # 0 /\ i <= p - 1
    OBVIOUS
  <2>2. Slot(v, i, j, q)
    BY ONLY <1>1, <2>1, SlotOf
  <2>3. Slot(v, p, b, e)
    BY ONLY <1>1, <2>1, SlotOf
  <2> HIDE DEF j, q, b, e
  <2>4. BlockOf(v, p) = b
    BY <1>1, <2>3, ForgedByte
  <2>5. j <= b
    <3> DEFINE m == b * v.rate
    <3>1. b \in Nat /\ e \in Nat /\ e <= v.rate /\ p = m + e + 1 /\ j \in Nat /\ m \in Nat
      <4> DEFINE r == v.rate
      <4>1. r \in Nat
        BY <1>1 DEF Rated
      <4>2. b \in Nat /\ e \in 0 .. r - 1 /\ p = b * r + e + 1 /\ j \in Nat
        BY <2>2, <2>3 DEF Slot
      <4> HIDE DEF r
      <4>3. b * r \in Nat /\ e \in Nat /\ e <= r
        BY <4>1, <4>2
      <4> QED BY <4>2, <4>3 DEF r
    <3>2. i <= b * v.rate + e
      <4> HIDE DEF m
      <4>1. i <= m + e
        BY <2>1, <3>1
      <4> QED BY <4>1 DEF m
    <3>3. j < b \/ (j = b /\ q < e)
      BY ONLY <1>1, <2>2, <3>1, <3>2, SlotOrder
    <3> QED BY <3>1, <3>3
  <2>6. x[i] = Changed(w, p)[i]
    <3>1. Untouched(v, p, j)
      BY <2>4, <2>5 DEF Untouched
    <3> QED BY <1>1, <2>2, <3>1, ForgedByte DEF x, w
  <2>7. y[i] = Changed(w, 0)[i]
    <3>1. Untouched(v, 0, j)
      BY DEF Untouched
    <3> QED BY <1>1, <2>2, <3>1, ForgedByte DEF y, w
  <2>8. Changed(w, p)[i] = w[i] /\ Changed(w, 0)[i] = w[i]
    BY <2>1 DEF Changed
  <2> QED BY <2>6, <2>7, <2>8
<1>3. Same(x, y, n)
  BY <1>2 DEF Same
<1>4. At(v, s, x, n) = At(v, s, y, n)
  BY <1>1, <1>3, AtSame
<1> QED BY <1>4 DEF Opens, x, y

\* Without damage the states are those of encrypting.
LEMMA OpensSealing ==
  ASSUME NEW v, NEW s, NEW n, Ready(v, s), n \in Nat
  PROVE  Opens(v, s, 0, n) = Sealing(v, s, n)
<1> DEFINE w == Mixed(v, s, TextData)
           y == Forged(v, s, TextData, 0)
<1> HIDE DEF w, y
<1>1. Rated(v)
  BY DEF Ready
<1>2. ASSUME NEW i \in 1 .. n PROVE y[i] = w[i]
  <2> DEFINE j == (i - 1) \div v.rate
             q == (i - 1) % v.rate
  <2>1. i \in Nat \ {0} /\ i # 0
    OBVIOUS
  <2>2. Slot(v, i, j, q)
    BY ONLY <1>1, <2>1, SlotOf
  <2> HIDE DEF j, q
  <2>3. Untouched(v, 0, j)
    BY DEF Untouched
  <2>4. y[i] = Changed(w, 0)[i]
    BY <1>1, <2>2, <2>3, ForgedByte DEF y, w
  <2>5. Changed(w, 0)[i] = w[i]
    BY <2>1 DEF Changed
  <2> QED BY <2>4, <2>5
<1>3. Same(y, w, n)
  BY <1>2 DEF Same
<1>4. At(v, s, y, n) = At(v, s, w, n)
  BY <1>1, <1>3, AtSame
<1> QED BY <1>4 DEF Opens, Sealing, w, y

LEMMA OpenedPiece ==
  ASSUME NEW v, NEW s, NEW p, NEW in, NEW from, NEW n, NEW to,
         Ready(v, s), p \in Nat, from \in Nat, n \in Nat, Adds(from, n, to),
         IsSequence(in), Len(in) = n, \A i \in 1 .. n : in[i] = Tampered(v, s, TextData, p)[from + i]
  PROVE  DecryptBlocks(v, Opens(v, s, p, from), in, from % v.rate) =
           [state |-> Opens(v, s, p, to), posn |-> to % v.rate,
            out |-> Returned(v, s, Forged(v, s, TextData, p), Tampered(v, s, TextData, p), from, n)]
<1> DEFINE u == Forged(v, s, TextData, p)
           t == Tampered(v, s, TextData, p)
           open == TRUE
<1>0. Rated(v) /\ IsState(s) /\ AllDated(s)
  BY DEF Ready
<1>1. Run(open, v, s, u, t, from, in, to)
  <2>1. Matches(open, v, s, u, t, to)
    BY <1>0, TextIsFresh, ForgedMatches
  <2>2. to = from + Len(in)
    BY DEF Adds
  <2> HIDE DEF u, t
  <2> QED BY <2>1, <2>2 DEF Run, t
<1>2. open \in BOOLEAN
  OBVIOUS
<1>3. DecryptBlocks(v, At(v, s, u, from), in, from % v.rate) =
        Blocks(open, v, At(v, s, u, from), in, from % v.rate)
  BY BothBlocks
<1> HIDE DEF u, t, open
<1>4. Blocks(open, v, At(v, s, u, from), in, from % v.rate) =
        [state |-> At(v, s, u, to), posn |-> to % v.rate,
         out |-> Returned(v, s, u, t, from, Len(in))]
  BY ONLY <1>0, <1>1, <1>2, BlocksAt
<1> QED BY <1>3, <1>4 DEF Opens, u, t

LEMMA FlippedTag ==
  ASSUME NEW s
  PROVE  /\ TagOf(s) # <<>> /\ Flip(TagOf(s), 1) # <<>> /\ Flip(TagOf(s), 1) # TagOf(s)
         /\ IsSequence(Flip(TagOf(s), 1)) /\ Len(Flip(TagOf(s), 1)) = TAG_SIZE
<1> DEFINE t == TagOf(s)
           f == Flip(t, 1)
<1>1. IsSequence(t) /\ Len(t) = TAG_SIZE /\ TAG_SIZE \in Nat /\ 2 <= TAG_SIZE
  BY TagLength
<1> HIDE DEF t
<1>2. DOMAIN t = 1 .. TAG_SIZE /\ 1 \in 1 .. TAG_SIZE
  BY <1>1, SequenceLength
<1>3. f = [t EXCEPT ![1] = Xor(t[1], FlipByte)]
  BY DEF Flip, FlipByte
<1> HIDE DEF f
<1>4. f = [i \in 1 .. TAG_SIZE |-> f[i]] /\ f[1] = Xor(t[1], FlipByte)
  BY <1>2, <1>3
<1>5. IsSequence(f) /\ Len(f) = TAG_SIZE
  BY <1>1, <1>4, FunctionSequence
<1>6. f # t
  BY <1>4, FlipChanges
<1>7. t # <<>> /\ f # <<>>
  BY <1>1, <1>5, EmptySequence
<1> QED BY <1>5, <1>6, <1>7 DEF t, f

LEMMA TagsAgree ==
  ASSUME NEW v, NEW s, NEW p, NEW n, NEW k,
         Sized(v), Ready(v, s), FreshBytes(k), Len(k) = v.key, n \in Nat, p \in 0 .. n
  PROVE  OpenTag(v, s, p, n, k) = SealTag(v, s, n, k) <=> p = 0
<1> DEFINE x == Opens(v, s, p, n)
           z == Sealing(v, s, n)
           c == n % v.rate
<1>1. Rated(v) /\ IsState(s)
  BY DEF Ready
<1>2. n \div v.rate \in Nat
  BY <1>1, Division DEF Rated
<1>3. IsState(x) /\ IsState(z)
  BY <1>1, <1>2, WithinState DEF Opens, Sealing, At
<1>4. IsState(ascon_pad(x, c)) /\ IsState(ascon_pad(z, c))
  <2> HIDE DEF x, z, c
  <2> QED BY <1>3, AddedIsState DEF ascon_pad
<1>5. CASE p = 0
  <2>1. x = z
    BY <1>5, OpensSealing
  <2> QED BY <1>5, <2>1 DEF OpenTag, SealTag
<1>6. CASE p # 0
  <2>1. p \in 1 .. n
    BY <1>6
  <2>2. x # z
    BY <1>1, <2>1, ForgedState DEF Opens, Sealing
  <2>3. OpenTag(v, s, p, n, k) = TagOf(Finalized(v, ascon_pad(x, c), k))
        /\ SealTag(v, s, n, k) = TagOf(Finalized(v, ascon_pad(z, c), k))
    BY DEF OpenTag, SealTag
  <2> HIDE DEF x, z, c
  <2>4. ascon_pad(x, c) # ascon_pad(z, c)
    BY <1>3, <2>2, PadTells
  <2> DEFINE y == ascon_pad(x, c)
             u == ascon_pad(z, c)
  <2>5. IsState(y) /\ IsState(u) /\ y # u
    BY <1>4, <2>4
  <2> HIDE DEF y, u
  <2>6. TagOf(Finalized(v, y, k)) # TagOf(Finalized(v, u, k))
    BY <2>5, TagTells
  <2> QED BY <1>6, <2>3, <2>6 DEF y, u
<1> QED BY <1>5, <1>6

\* Two sequences of m and n elements; joined and cut they are what they were.
Halves(a, b, m, n) == IsSequence(a) /\ IsSequence(b) /\ m = Len(a) /\ n = Len(b)
CutBack(a, b, m, n) ==
    /\ IsSequence(Joined(a, b)) /\ Len(Joined(a, b)) = m + n /\ m \in Nat /\ n \in Nat
    /\ SubSeq(Joined(a, b), 1, m) = a
    /\ SubSeq(Joined(a, b), m + 1, m + n) = b

LEMMA CutJoined ==
  ASSUME NEW a, NEW b, NEW m, NEW n, Halves(a, b, m, n)
  PROVE  CutBack(a, b, m, n)
<1> DEFINE c == Joined(a, b)
           x == SubSeq(c, 1, m)
           y == SubSeq(c, m + 1, m + n)
<1> USE DEF Halves
<1>1. m \in Nat /\ n \in Nat
  BY SequenceLength
<1>2. /\ IsSequence(c) /\ Len(c) = Len(a) + Len(b)
      /\ (\A i \in 1 .. Len(a) : c[i] = a[i]) /\ \A i \in 1 .. Len(b) : c[Len(a) + i] = b[i]
  <2>1. IsSequence(a) /\ IsSequence(b)
    OBVIOUS
  <2> QED BY ONLY <2>1, JoinedItems
<1> HIDE DEF c
<1>3. Len(c) = m + n
  BY <1>2
<1>4. x = a
  <2>1. 1 \in 1 .. Len(c) + 1 /\ m \in 1 - 1 .. Len(c) /\ m - 1 + 1 = m
    BY <1>1, <1>3
  <2>2. IsSequence(x) /\ Len(x) = m - 1 + 1 /\ \A i \in 1 .. m - 1 + 1 : x[i] = c[1 + i - 1]
    BY <1>2, <2>1, Subsequence
  <2>3. \A i \in 1 .. m : 1 + i - 1 = i
    BY <1>1
  <2>4. Len(x) = m /\ \A i \in 1 .. m : x[i] = a[i]
    BY <1>2, <2>1, <2>2, <2>3
  <2> HIDE DEF x
  <2> QED BY <2>2, <2>4, SameSequence
<1>5. y = b
  <2> DEFINE d == m + 1
             e == m + n
  <2>1. d \in 1 .. Len(c) + 1 /\ e \in d - 1 .. Len(c) /\ e - d + 1 = n
    BY <1>1, <1>3
  <2>2. y = SubSeq(c, d, e) /\ \A i \in 1 .. n : d + i - 1 = m + i
    BY <1>1
  <2> HIDE DEF d, e, y
  <2>3. IsSequence(y) /\ Len(y) = e - d + 1 /\ \A i \in 1 .. e - d + 1 : y[i] = c[d + i - 1]
    <3>1. IsSequence(SubSeq(c, d, e)) /\ Len(SubSeq(c, d, e)) = e - d + 1
          /\ \A i \in 1 .. e - d + 1 : SubSeq(c, d, e)[i] = c[d + i - 1]
      BY ONLY <1>2, <2>1, Subsequence
    <3> QED BY <2>2, <3>1
  <2>4. Len(y) = n /\ \A i \in 1 .. n : y[i] = b[i]
    BY <1>2, <2>1, <2>2, <2>3
  <2> QED BY <2>3, <2>4, SameSequence
<1> QED BY <1>1, <1>2, <1>3, <1>4, <1>5 DEF c, CutBack

\* The one-call function accepts a packet exactly if its tag is right.
Judged(right) == IF right THEN 0 ELSE -1

LEMMA DecryptJudges ==
  ASSUME NEW v, NEW npub, NEW k, NEW n, NEW a, NEW p, NEW tag,
         Sized(v), FreshBytes(k), Len(k) = v.key, n \in Nat, a \in Nat, p \in Nat,
         IsSequence(tag), Len(tag) = TAG_SIZE
  PROVE  Decrypt(v, Joined(Arrived(v, Prepared(v, npub, a, k), p, n), tag),
                 Ad(0, a), npub, k).result =
           Judged(OpenTag(v, Prepared(v, npub, a, k), p, n, k) = tag)
<1> DEFINE s == Prepared(v, npub, a, k)
           m == Arrived(v, s, p, n)
           c == Joined(m, tag)
           out == Returned(v, s, Forged(v, s, TextData, p), Tampered(v, s, TextData, p), 0, n)
           d == [state |-> Opens(v, s, p, n), posn |-> n % v.rate, out |-> out]
<1>1. Rated(v)
  BY DEF Sized
<1>2. KeyedState(v, ascon_init, "aead", NonceBytes(npub), k) = Opening(v, npub, k)
      /\ IsState(Opening(v, npub, k))
  BY InitIsState, KeyedIsOpening
<1>3. Ready(v, s)
  BY <1>1, <1>2, PreparedState, PreparedDated DEF Ready
<1>4. AfterAd(v, KeyedState(v, ascon_init, "aead", NonceBytes(npub), k), Ad(0, a)) = s
  BY <1>2 DEF Prepared
<1> HIDE DEF s
<1>5. IsSequence(m) /\ Len(m) = n /\ \A i \in 1 .. n : m[i] = Tampered(v, s, TextData, p)[i]
  BY ArrivedSequence
<1> HIDE DEF m, c
<1>6. /\ IsSequence(c) /\ Len(c) = n + TAG_SIZE /\ TAG_SIZE \in Nat
      /\ SubSeq(c, 1, n) = m /\ SubSeq(c, n + 1, n + TAG_SIZE) = tag
  <2> DEFINE l == TAG_SIZE
  <2>1. Halves(m, tag, n, l)
    BY <1>5 DEF Halves
  <2> HIDE DEF l
  <2>2. CutBack(m, tag, n, l)
    BY ONLY <2>1, CutJoined
  <2> QED BY <2>2 DEF CutBack, l, c
<1>7. ~(Len(c) < TAG_SIZE) /\ Len(c) - TAG_SIZE = n
  BY <1>6
<1>8. DecryptBlocks(v, s, m, 0) = d
  <2>1. \A i \in 1 .. n : m[i] = Tampered(v, s, TextData, p)[0 + i]
    BY <1>5
  <2>2. Adds(0, n, n) /\ 0 \in Nat
    BY DEF Adds
  <2>3. DecryptBlocks(v, Opens(v, s, p, 0), m, 0 % v.rate) = d
    BY <1>3, <1>5, <2>1, <2>2, OpenedPiece
  <2>4. Opens(v, s, p, 0) = s
    BY <1>3, OpensFirst
  <2>5. 0 % v.rate = 0
    BY <1>3, AtFirst DEF Ready
  <2> QED BY <2>3, <2>4, <2>5
<1> HIDE DEF out
<1>9. Decrypt(v, c, Ad(0, a), npub, k) = CheckedPacket(v, d, k, tag)
  BY <1>4, <1>6, <1>7, <1>8 DEF Decrypt
<1>10. CheckedPacket(v, d, k, tag) =
         ascon_aead_check_tag(out, OpenTag(v, s, p, n, k), tag)
  BY DEF CheckedPacket, OpenTag
<1>11. ascon_aead_check_tag(out, OpenTag(v, s, p, n, k), tag).result =
         Judged(OpenTag(v, s, p, n, k) = tag)
  BY DEF ascon_aead_check_tag, Judged
<1> QED BY <1>9, <1>10, <1>11 DEF s, m, c

LEMMA OpenedText ==
  ASSUME NEW v, NEW s, NEW from, NEW n, NEW to,
         Ready(v, s), from \in Nat, n \in Nat, Adds(from, n, to)
  PROVE  Joined(Text(0, from),
                Returned(v, s, Forged(v, s, TextData, 0), Tampered(v, s, TextData, 0), from, n)) =
           Text(0, to)
<1> DEFINE u == Forged(v, s, TextData, 0)
           t == Tampered(v, s, TextData, 0)
           a == Text(0, from)
           b == Returned(v, s, u, t, from, n)
           c == Text(0, to)
           ab == Joined(a, b)
<1>0. Rated(v) /\ IsState(s) /\ AllDated(s) /\ FreshData(TextData)
  BY TextIsFresh DEF Ready
<1>1. to = from + n /\ to \in Nat
  BY DEF Adds
<1>2. IsSequence(a) /\ Len(a) = from /\ \A i \in 1 .. from : a[i] = TextData[i]
  BY TextIsSampled DEF Sampled
<1>3. IsSequence(b) /\ Len(b) = n /\ \A i \in 1 .. n : b[i] = TextData[from + i]
  <2>1. IsSequence(b) /\ Len(b) = n /\ \A i \in 1 .. n : b[i] = Given(v, s, u, t, from + i)
    <3> HIDE DEF u, t
    <3> QED BY ONLY n \in Nat, ReturnedSequence
  <2>2. ASSUME NEW i \in 1 .. n PROVE Given(v, s, u, t, from + i) = TextData[from + i]
    <3> DEFINE j == from + i
    <3>1. j \in Nat \ {0}
      OBVIOUS
    <3> HIDE DEF j
    <3>2. Given(v, s, u, t, j) = TextData[j]
      BY <1>0, <3>1, OpenedByte
    <3> QED BY <3>2 DEF j
  <2> HIDE DEF b, u, t
  <2> QED BY <2>1, <2>2
<1>4. IsSequence(c) /\ Len(c) = to /\ \A i \in 1 .. to : c[i] = TextData[i]
  BY <1>1, TextIsSampled DEF Sampled
<1> HIDE DEF a, b, c
<1>5. /\ IsSequence(ab) /\ Len(ab) = Len(a) + Len(b)
      /\ (\A i \in 1 .. Len(a) : ab[i] = a[i]) /\ \A i \in 1 .. Len(b) : ab[Len(a) + i] = b[i]
  <2>1. IsSequence(a) /\ IsSequence(b)
    BY <1>2, <1>3
  <2> QED BY ONLY <2>1, JoinedItems
<1> HIDE DEF ab
<1>6. ASSUME NEW i \in 1 .. to PROVE ab[i] = c[i]
  <2>1. CASE i <= from
    <3>1. i \in 1 .. from
      BY <1>1, <2>1
    <3> QED BY <1>2, <1>4, <1>5, <3>1
  <2>2. CASE i > from
    <3> DEFINE j == i - from
    <3>1. j \in 1 .. n /\ i = from + j
      BY <1>1, <2>2
    <3> HIDE DEF j
    <3>2. ab[from + j] = b[j] /\ b[j] = TextData[from + j]
      BY <1>2, <1>3, <1>5, <3>1
    <3> QED BY <1>4, <3>1, <3>2
  <2> QED BY <1>1, <2>1, <2>2
<1>7. ab = c
  BY <1>1, <1>2, <1>3, <1>4, <1>5, <1>6, SameSequence
<1> QED BY <1>7 DEF a, b, c, ab, u, t

-----------------------------------------------------------------------------
(* Objects of packets in pieces.                                           *)

Names == {"128", "128a", "80pq"}

IsPiecer(v, x) ==
  /\ x = [state |-> x.state, key |-> x.key, nonce |-> x.nonce, posn |-> x.posn]
  /\ IsState(x.state) /\ FreshBytes(x.key) /\ Len(x.key) = v.key

\* What an object keeps while a packet is taken in pieces.
KeepsKey(x, y) == y.key = x.key /\ y.nonce = x.nonce

LEMMA RecordFunctions ==
  ASSUME NEW a, a \in Names
  PROVE  /\ Record(a) \in Ciphers
         /\ \A npub, k : aead_init(a, npub, k) = Reinit(Record(a), Unset(Record(a)), npub, k)
         /\ \A x, ad : aead_start(a, x, ad) = Started(Record(a), x, ad)
         /\ \A x, in : aead_encrypt_block(a, x, in) =
                         Pieced(x, EncryptBlocks(Record(a), x.state, in, x.posn))
         /\ \A x, in : aead_decrypt_block(a, x, in) =
                         Pieced(x, DecryptBlocks(Record(a), x.state, in, x.posn))
         /\ \A x : aead_encrypt_finalize(a, x) =
                     EncryptFinalized(x, FinalState(Record(a), x))
         /\ \A x, tag : aead_decrypt_finalize(a, x, tag) =
                          DecryptFinalized(x, FinalState(Record(a), x), tag)
         /\ \A m, ad, npub, k : aead_encrypt(a, m, ad, npub, k) =
                                  Encrypt(Record(a), m, ad, npub, k)
         /\ \A c, ad, npub, k : aead_decrypt(a, c, ad, npub, k) =
                                  Decrypt(Record(a), c, ad, npub, k)
<1> USE DEF EncryptFinalize, DecryptFinalize
<1>1. CASE a = "128"
  <2>1. Record(a) = Ascon128
    BY <1>1 DEF Record
  <2> QED BY <1>1, <2>1 DEF Ciphers, aead_init, aead_start, aead_encrypt_block,
             aead_decrypt_block, aead_encrypt_finalize, aead_decrypt_finalize, aead_encrypt,
             aead_decrypt, ascon128_aead_init, ascon128_aead_reinit, ascon128_aead_start,
             ascon128_aead_encrypt_block, ascon128_aead_decrypt_block,
             ascon128_aead_encrypt_finalize, ascon128_aead_decrypt_finalize,
             ascon128_aead_encrypt, ascon128_aead_decrypt
<1>2. CASE a = "128a"
  <2>1. Record(a) = Ascon128a
    BY <1>2 DEF Record
  <2> QED BY <1>2, <2>1 DEF Ciphers, aead_init, aead_start, aead_encrypt_block,
             aead_decrypt_block, aead_encrypt_finalize, aead_decrypt_finalize, aead_encrypt,
             aead_decrypt, ascon128a_aead_init, ascon128a_aead_reinit, ascon128a_aead_start,
             ascon128a_aead_encrypt_block, ascon128a_aead_decrypt_block,
             ascon128a_aead_encrypt_finalize, ascon128a_aead_decrypt_finalize,
             ascon128a_aead_encrypt, ascon128a_aead_decrypt
<1>3. CASE a = "80pq"
  <2>1. Record(a) = Ascon80pq
    BY <1>3 DEF Record
  <2> QED BY <1>3, <2>1 DEF Ciphers, aead_init, aead_start, aead_encrypt_block,
             aead_decrypt_block, aead_encrypt_finalize, aead_decrypt_finalize, aead_encrypt,
             aead_decrypt, ascon80pq_aead_init, ascon80pq_aead_reinit, ascon80pq_aead_start,
             ascon80pq_aead_encrypt_block, ascon80pq_aead_decrypt_block,
             ascon80pq_aead_encrypt_finalize, ascon80pq_aead_decrypt_finalize,
             ascon80pq_aead_encrypt, ascon80pq_aead_decrypt
<1> QED BY <1>1, <1>2, <1>3 DEF Names

LEMMA ZeroesAreFresh ==
  ASSUME NEW n, n \in Nat
  PROVE  FreshBytes(Zeroes(n)) /\ Len(Zeroes(n)) = n
<1> DEFINE z == Zeroes(n)
<1>1. z = [i \in 1 .. n |-> {}]
  BY DEF Zeroes
<1>2. z = [i \in 1 .. n |-> z[i]] /\ \A i \in 1 .. n : z[i] = {}
  BY <1>1
<1> HIDE DEF z
<1>3. IsSequence(z) /\ Len(z) = n
  BY <1>2, FunctionSequence
<1>4. FreshBytes(z)
  BY <1>2, <1>3 DEF FreshBytes, IsFresh
<1> QED BY <1>3, <1>4 DEF z

LEMMA KeyIsFresh ==
  ASSUME NEW n, n \in Nat
  PROVE  FreshBytes(Key(n)) /\ Len(Key(n)) = n
<1> DEFINE z == Key(n)
<1>1. z = [i \in 1 .. n |-> {<<"key", 0, i>>}]
  BY DEF Key
<1>2. z = [i \in 1 .. n |-> z[i]] /\ \A i \in 1 .. n : z[i] = {<<"key", 0, i>>}
  BY <1>1
<1> HIDE DEF z
<1>3. IsSequence(z) /\ Len(z) = n
  BY <1>2, FunctionSequence
<1>4. FreshBytes(z)
  BY <1>2, <1>3 DEF FreshBytes, IsFresh
<1> QED BY <1>3, <1>4 DEF z

LEMMA InitPiecer ==
  ASSUME NEW v, NEW npub, NEW k, Sized(v), k \in {Key(v.key), <<>>}
  PROVE  IsPiecer(v, Reinit(v, Unset(v), npub, k))
<1> DEFINE x == Reinit(v, Unset(v), npub, k)
           z == KeyOrZero(v, k)
           c == NonceOrZero(npub)
<1>1. FreshBytes(z) /\ Len(z) = v.key
  <2>1. v.key \in Nat
    BY DEF Sized
  <2>2. z = Zeroes(v.key) \/ z = Key(v.key)
    BY DEF KeyOrZero
  <2> HIDE DEF z
  <2> QED BY <2>1, <2>2, ZeroesAreFresh, KeyIsFresh
<1>2. x = [state |-> ascon_init, key |-> z, nonce |-> c, posn |-> 0]
  <2> DEFINE y == [state |-> ascon_init, key |-> Zeroes(v.key), nonce |-> <<>>, posn |-> 0]
  <2>1. x = [y EXCEPT !.key = z, !.nonce = c, !.posn = 0]
    BY DEF Reinit, Unset
  <2> HIDE DEF x, z, c
  <2> QED BY <2>1
<1> HIDE DEF x, z, c
<1>3. IsState(x.state) /\ x.key = z
  BY <1>2, InitIsState
<1>4. x = [state |-> x.state, key |-> x.key, nonce |-> x.nonce, posn |-> x.posn]
  BY <1>2
<1> QED BY <1>1, <1>3, <1>4 DEF IsPiecer, x

LEMMA StartedPiecer ==
  ASSUME NEW v, NEW x, NEW n, Sized(v), IsPiecer(v, x), n \in Nat
  PROVE  /\ IsPiecer(v, Started(v, x, Ad(0, n)))
         /\ Started(v, x, Ad(0, n)).state = Prepared(v, x.nonce, n, x.key)
         /\ Started(v, x, Ad(0, n)).posn = 0
         /\ Started(v, x, Ad(0, n)).key = x.key
         /\ Started(v, x, Ad(0, n)).nonce = Increment(x.nonce)
<1> DEFINE y == Started(v, x, Ad(0, n))
           s == Prepared(v, x.nonce, n, x.key)
           c == Increment(x.nonce)
<1>1. Rated(v) /\ IsState(x.state) /\ FreshBytes(x.key) /\ Len(x.key) = v.key
  BY DEF Sized, IsPiecer
<1>2. /\ KeyedState(v, x.state, "aead", NonceBytes(x.nonce), x.key) = Opening(v, x.nonce, x.key)
      /\ IsState(Opening(v, x.nonce, x.key))
  BY <1>1, KeyedIsOpening
<1>3. IsState(s)
  BY <1>1, <1>2, PreparedState
<1>4. y = [x EXCEPT !.state = s, !.posn = 0, !.nonce = c]
  BY <1>2 DEF Started, Prepared, Increment
<1> HIDE DEF y, s, c
<1>5. x = [state |-> x.state, key |-> x.key, nonce |-> x.nonce, posn |-> x.posn]
  BY DEF IsPiecer
<1>6. y = [state |-> s, key |-> x.key, nonce |-> c, posn |-> 0]
  BY <1>4, <1>5
<1>7. IsPiecer(v, y)
  BY <1>1, <1>3, <1>6 DEF IsPiecer
<1> QED BY <1>6, <1>7 DEF y, s, c

LEMMA PiecedPiecer ==
  ASSUME NEW v, NEW x, NEW s, NEW n, NEW o, IsPiecer(v, x), IsState(s)
  PROVE  LET r == Pieced(x, [state |-> s, posn |-> n, out |-> o])
         IN  /\ IsPiecer(v, r.obj) /\ KeepsKey(x, r.obj)
             /\ r.obj.state = s /\ r.obj.posn = n /\ r.out = o
<1> DEFINE r == Pieced(x, [state |-> s, posn |-> n, out |-> o])
<1>1. r.obj = [x EXCEPT !.state = s, !.posn = n] /\ r.out = o
  BY DEF Pieced
<1> HIDE DEF r
<1>2. x = [state |-> x.state, key |-> x.key, nonce |-> x.nonce, posn |-> x.posn]
  BY DEF IsPiecer
<1>3. r.obj = [state |-> s, key |-> x.key, nonce |-> x.nonce, posn |-> n]
  BY <1>1, <1>2
<1>4. IsPiecer(v, r.obj) /\ KeepsKey(x, r.obj) /\ r.obj.state = s /\ r.obj.posn = n
  BY <1>3 DEF IsPiecer, KeepsKey
<1> QED BY <1>1, <1>4 DEF r

LEMMA FinalizedPiecer ==
  ASSUME NEW v, NEW x, NEW tag, IsPiecer(v, x)
  PROVE  LET e == EncryptFinalized(x, FinalState(v, x))
             d == DecryptFinalized(x, FinalState(v, x), tag)
             t == TagOf(Finalized(v, ascon_pad(x.state, x.posn), x.key))
         IN  /\ IsPiecer(v, e.obj) /\ KeepsKey(x, e.obj) /\ e.tag = t
             /\ IsPiecer(v, d.obj) /\ KeepsKey(x, d.obj) /\ d.result = Judged(t = tag)
<1> DEFINE f == FinalState(v, x)
           y == [x EXCEPT !.state = f]
           t == TagOf(Finalized(v, ascon_pad(x.state, x.posn), x.key))
           e == EncryptFinalized(x, f)
           d == DecryptFinalized(x, f, tag)
<1>1. IsState(f)
  <2>1. IsState(x.state)
    BY DEF IsPiecer
  <2>2. IsState(ascon_pad(x.state, x.posn))
    BY <2>1, AddedIsState DEF ascon_pad
  <2> QED BY <2>2, AddedIsState, PermutedIsState DEF FinalState, Finalized
<1>2. t = TagOf(f)
  BY DEF FinalState
<1> HIDE DEF f
<1>3. e.obj = y /\ e.tag = t /\ d.obj = y
  BY <1>2 DEF EncryptFinalized, DecryptFinalized
<1>4. d.result = Judged(t = tag)
  BY <1>2 DEF DecryptFinalized, ascon_aead_check_tag, Judged
<1>5. x = [state |-> x.state, key |-> x.key, nonce |-> x.nonce, posn |-> x.posn]
  BY DEF IsPiecer
<1>6. y = [state |-> f, key |-> x.key, nonce |-> x.nonce, posn |-> x.posn]
  BY <1>5
<1> HIDE DEF y
<1>7. IsPiecer(v, y) /\ KeepsKey(x, y)
  BY <1>1, <1>6 DEF IsPiecer, KeepsKey
<1> HIDE DEF t, e, d
<1>8. /\ IsPiecer(v, e.obj) /\ KeepsKey(x, e.obj) /\ e.tag = t
      /\ IsPiecer(v, d.obj) /\ KeepsKey(x, d.obj) /\ d.result = Judged(t = tag)
  BY <1>3, <1>4, <1>7
<1> QED BY <1>8 DEF t, e, d, f

-----------------------------------------------------------------------------
(* The packet in pieces.                                                   *)

\* The tag is not there yet, right or damaged.
TagIs(v, s, k, p, n, tag, bad) ==
  \/ tag = <<>> /\ (bad <=> p # 0)
  \/ tag = SealTag(v, s, n, k) /\ (bad <=> p # 0)
  \/ tag = Flip(SealTag(v, s, n, k), 1) /\ p = 0 /\ bad

\* Both objects stand where the bytes that went through them leave the sponge.
PacketIs(v, s, k, p, n, tag) ==
  /\ n \in Nat /\ taken \in 0 .. n /\ p \in 0 .. n /\ damaged \in BOOLEAN
  /\ cipher = [text |-> Arrived(v, s, p, n), tag |-> tag]
  /\ tag = <<>> => enc.state = Sealing(v, s, n) /\ enc.posn = n % v.rate
  /\ TagIs(v, s, k, p, n, tag, damaged)
  /\ p = 0 => opened = Text(0, taken)
  /\ verdict = 1 => dec.state = Opens(v, s, p, taken) /\ dec.posn = taken % v.rate
  /\ verdict # 1 => tag # <<>> /\ verdict = Judged(~damaged)

Twins(v) == IsPiecer(v, enc) /\ IsPiecer(v, dec) /\ KeepsKey(enc, dec)

Prepare(v) == Prepared(v, nonces[Len(nonces)], adlen, enc.key)

StreamInv ==
  \/ alg = "none" /\ nonces = <<>> /\ opened = <<>> /\ taken = 0 /\ verdict = 1
  \/ /\ alg \in Names /\ Twins(Record(alg)) /\ IsSequence(nonces)
     /\ \/ nonces = <<>> /\ opened = <<>> /\ taken = 0 /\ verdict = 1
        \/ /\ nonces # <<>> /\ adlen \in Nat
           /\ \E p, n, tag : PacketIs(Record(alg), Prepare(Record(alg)), enc.key, p, n, tag)

LEMMA PreparedReady ==
  ASSUME NEW v, NEW npub, NEW k, NEW a,
         Sized(v), FreshBytes(k), Len(k) = v.key, a \in Nat
  PROVE  Ready(v, Prepared(v, npub, a, k))
<1>1. Rated(v)
  BY DEF Sized
<1>2. IsState(Opening(v, npub, k))
  BY InitIsState, KeyedIsOpening
<1> QED BY <1>1, <1>2, PreparedState, PreparedDated DEF Ready

LEMMA TagVerdict ==
  ASSUME NEW v, NEW s, NEW k, NEW p, NEW n, NEW tag, NEW bad,
         Sized(v), Ready(v, s), FreshBytes(k), Len(k) = v.key, n \in Nat, p \in 0 .. n,
         bad \in BOOLEAN, tag # <<>>, TagIs(v, s, k, p, n, tag, bad)
  PROVE  /\ Judged(OpenTag(v, s, p, n, k) = tag) = Judged(~bad)
         /\ IsSequence(tag) /\ Len(tag) = TAG_SIZE
<1> DEFINE t == SealTag(v, s, n, k)
           u == Flip(t, 1)
           o == OpenTag(v, s, p, n, k)
<1>1. o = t <=> p = 0
  BY TagsAgree
<1>2. /\ IsSequence(t) /\ Len(t) = TAG_SIZE /\ u # t
      /\ IsSequence(u) /\ Len(u) = TAG_SIZE
  BY FlippedTag, TagLength DEF SealTag
<1>3. \/ tag = t /\ (bad <=> p # 0)
      \/ tag = u /\ p = 0 /\ bad
  BY DEF TagIs
<1> HIDE DEF t, u, o
<1>4. (o = tag) <=> ~bad
  BY <1>1, <1>2, <1>3
<1>5. Judged(o = tag) = Judged(~bad)
  BY <1>4 DEF Judged
<1> QED BY <1>2, <1>3, <1>5 DEF t, u, o

\* Nothing has arrived.
LEMMA FirstPiece ==
  ASSUME NEW v, NEW s, NEW k, NEW p, Ready(v, s)
  PROVE  /\ Arrived(v, s, 0, 0) = <<>> /\ Text(0, 0) = <<>>
         /\ Sealing(v, s, 0) = s /\ Opens(v, s, 0, 0) = s /\ 0 % v.rate = 0
<1>1. Rated(v) /\ IsState(s)
  BY DEF Ready
<1>2. Arrived(v, s, 0, 0) = <<>>
  BY ArrivedSequence, LengthZero
<1>3. Text(0, 0) = <<>>
  BY TextIsSampled, LengthZero DEF Sampled
<1>4. Sealing(v, s, 0) = s /\ 0 % v.rate = 0
  BY <1>1, AtFirst DEF Sealing
<1> QED BY <1>2, <1>3, <1>4, OpensFirst

LEMMA StreamStart ==
  ASSUME StreamInv, NEW n \in AdLengths, DoStart(n)
  PROVE  StreamInv'
<1>1. /\ alg' = alg /\ alg # "none" /\ adlen' = n
      /\ enc' = aead_start(alg, enc, Ad(0, n)) /\ dec' = aead_start(alg, dec, Ad(0, n))
      /\ nonces' = Append(nonces, enc.nonce)
      /\ cipher' = [text |-> <<>>, tag |-> <<>>] /\ taken' = 0 /\ opened' = <<>>
      /\ verdict' = 1 /\ damaged' = FALSE
  BY DEF DoStart
<1>2. PICK v : v = Record(alg)
  OBVIOUS
<1>3. PICK k : k = enc.key
  OBVIOUS
<1>4. PICK s : s = Prepared(v, enc.nonce, n, k)
  OBVIOUS
<1>5. alg \in Names /\ Twins(v) /\ IsSequence(nonces) /\ n \in Nat
  BY <1>1, <1>2, CiphersAssumption DEF StreamInv
<1>6. Sized(v) /\ enc' = Started(v, enc, Ad(0, n)) /\ dec' = Started(v, dec, Ad(0, n))
  BY <1>1, <1>2, <1>5, RecordFunctions, CipherSizes
<1>7. IsPiecer(v, enc) /\ IsPiecer(v, dec) /\ dec.key = enc.key /\ dec.nonce = enc.nonce
  BY <1>5 DEF Twins, KeepsKey
<1>8. /\ IsPiecer(v, enc') /\ enc'.state = s /\ enc'.posn = 0
      /\ enc'.key = k /\ enc'.nonce = Increment(enc.nonce)
  BY <1>3, <1>4, <1>5, <1>6, <1>7, StartedPiecer
<1>9. /\ IsPiecer(v, dec') /\ dec'.state = s /\ dec'.posn = 0
      /\ dec'.key = k /\ dec'.nonce = Increment(enc.nonce)
  BY <1>3, <1>4, <1>5, <1>6, <1>7, StartedPiecer
<1>10. IsSequence(nonces') /\ nonces'[Len(nonces')] = enc.nonce /\ nonces' # <<>>
  <2>1. /\ IsSequence(nonces') /\ Len(nonces') = Len(nonces) + 1
        /\ nonces'[Len(nonces) + 1] = enc.nonce
    BY <1>1, <1>5, Appended
  <2>2. Len(nonces) \in Nat
    BY <1>5, SequenceLength
  <2> QED BY <2>1, <2>2, EmptySequence
<1>11. Ready(v, s)
  BY <1>3, <1>4, <1>5, <1>6, <1>7, PreparedReady DEF IsPiecer
<1>12. /\ Arrived(v, s, 0, 0) = <<>> /\ Text(0, 0) = <<>>
       /\ Sealing(v, s, 0) = s /\ Opens(v, s, 0, 0) = s /\ 0 % v.rate = 0
  BY <1>11, FirstPiece
<1>13. PacketIs(v, s, k, 0, 0, <<>>)'
  <2>1. TagIs(v, s, k, 0, 0, <<>>, damaged')
    BY <1>1 DEF TagIs
  <2>2. taken' \in 0 .. 0 /\ 0 \in 0 .. 0 /\ damaged' \in BOOLEAN
    <3>1. 0 \in 0 .. 0 /\ FALSE \in BOOLEAN
      OBVIOUS
    <3>2. taken' = 0 /\ damaged' = FALSE
      BY <1>1
    <3> QED BY ONLY <3>1, <3>2
  <2>3. cipher' = [text |-> Arrived(v, s, 0, 0), tag |-> <<>>] /\ opened' = Text(0, taken')
    BY <1>1, <1>12
  <2>4. /\ enc'.state = Sealing(v, s, 0) /\ enc'.posn = 0 % v.rate
        /\ dec'.state = Opens(v, s, 0, taken') /\ dec'.posn = taken' % v.rate
    BY <1>1, <1>8, <1>9, <1>12
  <2> QED BY <1>1, <2>1, <2>2, <2>3, <2>4 DEF PacketIs
<1>14. Prepare(v)' = s /\ Twins(v)'
  BY <1>1, <1>4, <1>8, <1>9, <1>10 DEF Prepare, Twins, KeepsKey
<1> QED BY <1>1, <1>2, <1>5, <1>8, <1>10, <1>13, <1>14 DEF StreamInv

\* A packet that has begun, with what its objects were keyed with.
Going(v, s, k, p, n, tag) ==
  /\ alg \in Names /\ v = Record(alg) /\ Sized(v) /\ Twins(v)
  /\ k = enc.key /\ FreshBytes(k) /\ Len(k) = v.key
  /\ s = Prepare(v) /\ Ready(v, s) /\ adlen \in Nat
  /\ IsSequence(nonces) /\ nonces # <<>>
  /\ PacketIs(v, s, k, p, n, tag)

LEMMA StreamGoes ==
  ASSUME StreamInv, Busy
  PROVE  \E v, s, k, p, n, tag : Going(v, s, k, p, n, tag)
<1>1. /\ alg \in Names /\ Twins(Record(alg)) /\ IsSequence(nonces)
      /\ nonces # <<>> /\ adlen \in Nat
      /\ \E p, n, tag : PacketIs(Record(alg), Prepare(Record(alg)), enc.key, p, n, tag)
  BY DEF StreamInv, Busy
<1>2. PICK v : v = Record(alg)
  OBVIOUS
<1>3. PICK k : k = enc.key
  OBVIOUS
<1>4. PICK s : s = Prepare(v)
  OBVIOUS
<1>5. PICK p, n, tag : PacketIs(v, s, k, p, n, tag)
  BY <1>1, <1>2, <1>3, <1>4
<1>6. Sized(v)
  BY <1>1, <1>2, RecordFunctions, CipherSizes
<1>7. FreshBytes(k) /\ Len(k) = v.key
  BY <1>1, <1>2, <1>3 DEF Twins, IsPiecer
<1>8. Ready(v, s)
  BY <1>1, <1>3, <1>4, <1>6, <1>7, PreparedReady DEF Prepare
<1> QED BY <1>1, <1>2, <1>3, <1>4, <1>5, <1>6, <1>7, <1>8 DEF Going

LEMMA StreamGoesOn ==
  ASSUME NEW v, NEW s, NEW k, NEW p, NEW n, NEW tag, NEW p2, NEW n2, NEW tag2,
         Going(v, s, k, p, n, tag), UNCHANGED <<alg, nonces, adlen>>,
         IsPiecer(v, enc'), IsPiecer(v, dec'), KeepsKey(enc, enc'), KeepsKey(dec, dec'),
         PacketIs(v, s, k, p2, n2, tag2)'
  PROVE  StreamInv'
<1>1. enc'.key = k /\ enc'.nonce = enc.nonce /\ dec'.key = k /\ dec'.nonce = enc.nonce
  BY DEF Going, Twins, KeepsKey
<1>2. Twins(v)' /\ Prepare(v)' = s
  BY <1>1 DEF Twins, KeepsKey, Prepare, Going
<1> QED BY <1>1, <1>2 DEF StreamInv, Going

\* Part of a sequence.
Fits(from, m, n) == from + m <= n
PieceAt(a, from, m) == SubSeq(a, from + 1, from + m)

LEMMA PieceItems ==
  ASSUME NEW a, NEW from, NEW m, IsSequence(a), from \in Nat, m \in Nat, Fits(from, m, Len(a))
  PROVE  /\ IsSequence(PieceAt(a, from, m)) /\ Len(PieceAt(a, from, m)) = m
         /\ \A i \in 1 .. m : PieceAt(a, from, m)[i] = a[from + i] /\ from + i \in 1 .. Len(a)
<1> DEFINE d == from + 1
           e == from + m
           y == SubSeq(a, d, e)
<1>1. Len(a) \in Nat
  BY SequenceLength
<1>2. d \in 1 .. Len(a) + 1 /\ e \in d - 1 .. Len(a) /\ e - d + 1 = m
  BY <1>1 DEF Fits
<1>3. \A i \in 1 .. m : d + i - 1 = from + i /\ from + i \in 1 .. Len(a)
  BY <1>1 DEF Fits
<1>4. y = PieceAt(a, from, m)
  BY DEF PieceAt
<1> HIDE DEF d, e
<1>5. IsSequence(y) /\ Len(y) = e - d + 1 /\ \A i \in 1 .. e - d + 1 : y[i] = a[d + i - 1]
  BY ONLY IsSequence(a), <1>2, Subsequence
<1> HIDE DEF y
<1> QED BY <1>2, <1>3, <1>4, <1>5

LEMMA SealingState ==
  ASSUME NEW v, NEW s, NEW n, NEW p, Ready(v, s), n \in Nat
  PROVE  IsState(Sealing(v, s, n)) /\ IsState(Opens(v, s, p, n))
<1>1. Rated(v) /\ IsState(s)
  BY DEF Ready
<1>2. n \div v.rate \in Nat
  BY <1>1, Division DEF Rated
<1> QED BY <1>1, <1>2, WithinState DEF Sealing, Opens, At

LEMMA StreamEncrypt ==
  ASSUME StreamInv, NEW m \in Pieces, DoEncrypt(m)
  PROVE  StreamInv'
<1>1. /\ UNCHANGED <<alg, dec, adlen, taken, opened, verdict, damaged, nonces>>
      /\ Busy /\ cipher.tag = <<>> /\ Len(cipher.text) + m <= MaxText
  BY DEF DoEncrypt
<1>2. PICK v, s, k, p, n, tag : Going(v, s, k, p, n, tag)
  BY <1>1, StreamGoes
<1>3. m \in Nat /\ MaxText \in Nat /\ n \in Nat /\ p \in 0 .. n
  BY <1>2, CiphersAssumption DEF Going, PacketIs
<1>4. cipher = [text |-> Arrived(v, s, p, n), tag |-> tag]
  BY <1>2 DEF Going, PacketIs
<1>5. Len(cipher.text) = n /\ tag = <<>> /\ Fits(n, m, MaxText)
  <2>1. cipher.text = Arrived(v, s, p, n) /\ cipher.tag = tag
    BY <1>4
  <2>2. Len(Arrived(v, s, p, n)) = n
    BY <1>3, ArrivedSequence
  <2> QED BY <1>1, <2>1, <2>2 DEF Fits
<1>6. PICK in : in = PieceAt(Text(0, MaxText), n, m)
  OBVIOUS
<1>7. PICK to : to = n + m
  OBVIOUS
<1>8. to \in Nat /\ Adds(n, m, to)
  BY <1>3, <1>7 DEF Adds
<1>9. /\ enc' = aead_encrypt_block(alg, enc, in).obj
      /\ cipher' = [cipher EXCEPT !.text = @ \o aead_encrypt_block(alg, enc, in).out]
  BY <1>5, <1>6 DEF DoEncrypt, PieceAt
<1>10. IsSequence(in) /\ Len(in) = m /\ \A i \in 1 .. m : in[i] = TextData[n + i]
  <2>1. Sampled(Text(0, MaxText), TextData, MaxText)
    BY <1>3, TextIsSampled
  <2> DEFINE t == Text(0, MaxText)
  <2>2. IsSequence(t) /\ Len(t) = MaxText /\ \A i \in 1 .. MaxText : t[i] = TextData[i]
    BY <2>1 DEF Sampled
  <2> HIDE DEF t
  <2>3. Fits(n, m, Len(t))
    BY <1>5, <2>2
  <2>4. /\ IsSequence(PieceAt(t, n, m)) /\ Len(PieceAt(t, n, m)) = m
        /\ \A i \in 1 .. m : PieceAt(t, n, m)[i] = t[n + i] /\ n + i \in 1 .. Len(t)
    BY <1>3, <2>2, <2>3, PieceItems
  <2>5. in = PieceAt(t, n, m)
    BY <1>6 DEF t
  <2> QED BY <2>2, <2>4, <2>5
<1>11. Rated(v) /\ IsState(s) /\ Ready(v, s) /\ IsPiecer(v, enc) /\ IsPiecer(v, dec)
  BY <1>2 DEF Going, Ready, Twins
<1>12. EncryptBlocks(v, Sealing(v, s, n), in, n % v.rate) =
          [state |-> Sealing(v, s, to), posn |-> to % v.rate, out |-> Sealed(v, s, n, m)]
  BY <1>3, <1>8, <1>10, <1>11, SealedPiece
<1>13. enc.state = Sealing(v, s, n) /\ enc.posn = n % v.rate
  BY <1>2, <1>5 DEF Going, PacketIs
<1>14. aead_encrypt_block(alg, enc, in) =
          Pieced(enc, [state |-> Sealing(v, s, to), posn |-> to % v.rate,
                       out |-> Sealed(v, s, n, m)])
  <2>1. aead_encrypt_block(alg, enc, in) =
          Pieced(enc, EncryptBlocks(v, enc.state, in, enc.posn))
    BY <1>2, RecordFunctions DEF Going
  <2> QED BY <1>12, <1>13, <2>1
<1>15. IsState(Sealing(v, s, to))
  BY <1>8, <1>11, SealingState
<1>16. /\ IsPiecer(v, enc') /\ KeepsKey(enc, enc')
       /\ enc'.state = Sealing(v, s, to) /\ enc'.posn = to % v.rate
       /\ aead_encrypt_block(alg, enc, in).out = Sealed(v, s, n, m)
  BY <1>9, <1>11, <1>14, <1>15, PiecedPiecer
<1>17. cipher' = [text |-> Arrived(v, s, p, to), tag |-> <<>>]
  <2>1. cipher' = [text |-> Joined(Arrived(v, s, p, n), Sealed(v, s, n, m)), tag |-> <<>>]
    BY <1>4, <1>5, <1>9, <1>16 DEF Joined
  <2>2. Joined(Arrived(v, s, p, n), Sealed(v, s, n, m)) = Arrived(v, s, p, to)
    BY <1>3, <1>8, <1>11, ArrivedMore
  <2> QED BY <2>1, <2>2
<1>18. taken \in 0 .. to /\ p \in 0 .. to
  <2>1. taken \in 0 .. n
    BY <1>2 DEF Going, PacketIs
  <2> QED BY <1>3, <1>7, <2>1
<1>19. PacketIs(v, s, k, p, to, <<>>)'
  <2>1. PacketIs(v, s, k, p, n, <<>>)
    BY <1>2, <1>5 DEF Going
  <2>2. TagIs(v, s, k, p, to, <<>>, damaged)
    <3>1. TagIs(v, s, k, p, n, <<>>, damaged)
      BY <2>1 DEF PacketIs
    <3>2. <<>> # SealTag(v, s, n, k) /\ <<>> # Flip(SealTag(v, s, n, k), 1)
      BY FlippedTag DEF SealTag
    <3> QED BY <3>1, <3>2 DEF TagIs
  <2> QED BY <1>1, <1>8, <1>16, <1>17, <1>18, <2>1, <2>2 DEF PacketIs
<1>20. IsPiecer(v, dec') /\ KeepsKey(dec, dec')
  BY <1>1, <1>11 DEF KeepsKey
<1> QED BY <1>1, <1>2, <1>16, <1>19, <1>20, StreamGoesOn

LEMMA StreamFinish ==
  ASSUME StreamInv, DoEncryptFinalize
  PROVE  StreamInv'
<1>1. /\ UNCHANGED <<alg, dec, adlen, taken, opened, verdict, damaged, nonces>>
      /\ Busy /\ cipher.tag = <<>>
      /\ enc' = aead_encrypt_finalize(alg, enc).obj
      /\ cipher' = [cipher EXCEPT !.tag = aead_encrypt_finalize(alg, enc).tag]
  BY DEF DoEncryptFinalize
<1>2. PICK v, s, k, p, n, tag : Going(v, s, k, p, n, tag)
  BY <1>1, StreamGoes
<1>3. cipher = [text |-> Arrived(v, s, p, n), tag |-> tag]
  BY <1>2 DEF Going, PacketIs
<1>4. tag = <<>>
  BY <1>1, <1>3
<1>5. enc.state = Sealing(v, s, n) /\ enc.posn = n % v.rate /\ enc.key = k
  BY <1>2, <1>4 DEF Going, PacketIs
<1>6. IsPiecer(v, enc) /\ IsPiecer(v, dec)
  BY <1>2 DEF Going, Twins
<1>7. aead_encrypt_finalize(alg, enc) = EncryptFinalized(enc, FinalState(v, enc))
  BY <1>2, RecordFunctions DEF Going
<1>8. /\ IsPiecer(v, enc') /\ KeepsKey(enc, enc')
      /\ aead_encrypt_finalize(alg, enc).tag =
           TagOf(Finalized(v, ascon_pad(enc.state, enc.posn), enc.key))
  BY <1>1, <1>6, <1>7, FinalizedPiecer
<1>9. PICK t : t = SealTag(v, s, n, k)
  OBVIOUS
<1>10. aead_encrypt_finalize(alg, enc).tag = t
  BY <1>5, <1>8, <1>9 DEF SealTag
<1>11. cipher' = [text |-> Arrived(v, s, p, n), tag |-> t]
  BY <1>1, <1>3, <1>10
<1>12. t # <<>>
  BY <1>9, FlippedTag DEF SealTag
<1>13. PacketIs(v, s, k, p, n, t)'
  <2>1. PacketIs(v, s, k, p, n, <<>>)
    BY <1>2, <1>4 DEF Going
  <2>2. TagIs(v, s, k, p, n, t, damaged)
    <3>1. TagIs(v, s, k, p, n, <<>>, damaged)
      BY <2>1 DEF PacketIs
    <3>2. <<>> # SealTag(v, s, n, k) /\ <<>> # Flip(SealTag(v, s, n, k), 1)
      BY FlippedTag DEF SealTag
    <3> QED BY <1>9, <3>1, <3>2 DEF TagIs
  <2> QED BY <1>1, <1>11, <1>12, <2>1, <2>2 DEF PacketIs
<1>14. IsPiecer(v, dec') /\ KeepsKey(dec, dec')
  BY <1>1, <1>6 DEF KeepsKey
<1> QED BY <1>1, <1>2, <1>8, <1>13, <1>14, StreamGoesOn

LEMMA StreamDamage ==
  ASSUME StreamInv, Damage
  PROVE  StreamInv'
<1>1. /\ UNCHANGED <<alg, enc, dec, adlen, taken, opened, verdict, nonces>>
      /\ Busy /\ ~damaged /\ verdict = 1 /\ damaged' = TRUE
  BY DEF Damage
<1>2. PICK v, s, k, p, n, tag : Going(v, s, k, p, n, tag)
  BY <1>1, StreamGoes
<1>3. PacketIs(v, s, k, p, n, tag) /\ Ready(v, s)
  BY <1>2 DEF Going
<1>4. cipher = [text |-> Arrived(v, s, p, n), tag |-> tag] /\ n \in Nat /\ taken \in 0 .. n
  BY <1>3 DEF PacketIs
<1>5. p = 0
  BY <1>1, <1>3 DEF PacketIs, TagIs
<1>6. /\ IsPiecer(v, enc') /\ KeepsKey(enc, enc')
      /\ IsPiecer(v, dec') /\ KeepsKey(dec, dec')
  BY <1>1, <1>2 DEF Going, Twins, KeepsKey
<1>7. \/ tag = <<>> \/ tag = SealTag(v, s, n, k)
  BY <1>1, <1>3 DEF PacketIs, TagIs
<1>8. ASSUME Len(cipher.text) > taken,
             cipher' = [cipher EXCEPT !.text = Flip(@, Len(@))]
      PROVE  StreamInv'
  <2>1. cipher.text = Arrived(v, s, 0, n) /\ Len(Arrived(v, s, 0, n)) = n
    BY <1>4, <1>5, ArrivedSequence
  <2>2. taken < n /\ n \in Nat \ {0} /\ taken \in Nat
    BY <1>4, <1>8, <2>1
  <2>3. cipher' = [text |-> Flip(Arrived(v, s, 0, n), n), tag |-> tag]
    BY <1>4, <1>5, <1>8, <2>1
  <2>4. Flip(Arrived(v, s, 0, n), n) = Arrived(v, s, n, n)
    BY <1>3, <2>2, ArrivedFlipped
  <2>5. Opens(v, s, n, taken) = Opens(v, s, 0, taken)
    BY <1>3, <2>2, OpensBefore
  <2>6. TagIs(v, s, k, n, n, tag, damaged')
    BY <1>1, <1>7, <2>2 DEF TagIs
  <2>7. cipher' = [text |-> Arrived(v, s, n, n), tag |-> tag] /\ n # 0 /\ n \in 0 .. n
    BY <2>2, <2>3, <2>4
  <2>8. damaged' \in BOOLEAN
    BY <1>1
  <2>9. dec.state = Opens(v, s, n, taken) /\ dec.posn = taken % v.rate
    BY <1>1, <1>3, <1>5, <2>5 DEF PacketIs
  <2>10. PacketIs(v, s, k, n, n, tag)'
    BY <1>1, <1>3, <1>4, <2>6, <2>7, <2>8, <2>9 DEF PacketIs
  <2> QED BY <1>1, <1>2, <1>6, <2>10, StreamGoesOn
<1>9. ASSUME cipher.tag # <<>>, cipher' = [cipher EXCEPT !.tag = Flip(@, 1)]
      PROVE  StreamInv'
  <2>1. PICK t : t = Flip(SealTag(v, s, n, k), 1)
    OBVIOUS
  <2>2. tag = SealTag(v, s, n, k)
    BY <1>4, <1>7, <1>9
  <2>3. cipher' = [text |-> Arrived(v, s, p, n), tag |-> t]
    BY <1>4, <1>9, <2>1, <2>2
  <2>4. TagIs(v, s, k, p, n, t, damaged')
    BY <1>1, <1>5, <2>1 DEF TagIs
  <2>5. t # <<>> /\ tag # <<>>
    BY <2>1, <2>2, FlippedTag DEF SealTag
  <2>6. damaged' \in BOOLEAN
    BY <1>1
  <2>7. PacketIs(v, s, k, p, n, t)'
    BY <1>1, <1>3, <2>3, <2>4, <2>5, <2>6 DEF PacketIs
  <2> QED BY <1>1, <1>2, <1>6, <2>7, StreamGoesOn
<1> QED BY <1>8, <1>9 DEF Damage

LEMMA StreamDecrypt ==
  ASSUME StreamInv, NEW m \in Pieces, DoDecrypt(m)
  PROVE  StreamInv'
<1>1. /\ UNCHANGED <<alg, enc, adlen, cipher, verdict, damaged, nonces>>
      /\ Busy /\ verdict = 1 /\ taken + m <= Len(cipher.text) /\ taken' = taken + m
  BY DEF DoDecrypt
<1>2. PICK v, s, k, p, n, tag : Going(v, s, k, p, n, tag)
  BY <1>1, StreamGoes
<1>3. PacketIs(v, s, k, p, n, tag) /\ Ready(v, s) /\ m \in Nat
  BY <1>2, CiphersAssumption DEF Going
<1>4. cipher = [text |-> Arrived(v, s, p, n), tag |-> tag] /\ n \in Nat /\ taken \in 0 .. n
      /\ p \in 0 .. n /\ p \in Nat
  BY <1>3 DEF PacketIs
<1>5. PICK from : from = taken
  OBVIOUS
<1>6. PICK to : to = from + m
  OBVIOUS
<1>7. PICK a : a = Arrived(v, s, p, n)
  OBVIOUS
<1>8. PICK in : in = PieceAt(a, from, m)
  OBVIOUS
<1>9. IsSequence(a) /\ Len(a) = n /\ \A i \in 1 .. n : a[i] = Tampered(v, s, TextData, p)[i]
  BY <1>4, <1>7, ArrivedSequence
<1>10. cipher.text = a
  BY <1>4, <1>7
<1>11. /\ from \in Nat /\ to \in Nat /\ to \in 0 .. n
       /\ Adds(from, m, to) /\ Fits(from, m, Len(a))
  BY <1>1, <1>3, <1>4, <1>5, <1>6, <1>9, <1>10 DEF Adds, Fits
<1>12. IsSequence(in) /\ Len(in) = m
       /\ \A i \in 1 .. m : in[i] = Tampered(v, s, TextData, p)[from + i]
  <2>1. /\ IsSequence(PieceAt(a, from, m)) /\ Len(PieceAt(a, from, m)) = m
        /\ \A i \in 1 .. m : PieceAt(a, from, m)[i] = a[from + i] /\ from + i \in 1 .. Len(a)
    BY <1>3, <1>9, <1>11, PieceItems
  <2> QED BY <1>8, <1>9, <2>1
<1>13. PICK o : o = Returned(v, s, Forged(v, s, TextData, p), Tampered(v, s, TextData, p), from, m)
  OBVIOUS
<1>14. DecryptBlocks(v, Opens(v, s, p, from), in, from % v.rate) =
          [state |-> Opens(v, s, p, to), posn |-> to % v.rate, out |-> o]
  BY <1>3, <1>4, <1>11, <1>12, <1>13, OpenedPiece
<1>15. IsPiecer(v, enc) /\ IsPiecer(v, dec)
       /\ dec.state = Opens(v, s, p, from) /\ dec.posn = from % v.rate
  BY <1>1, <1>2, <1>3, <1>5 DEF Going, Twins, PacketIs
<1>16. /\ dec' = aead_decrypt_block(alg, dec, in).obj
       /\ opened' = opened \o aead_decrypt_block(alg, dec, in).out
  BY <1>5, <1>8, <1>10 DEF DoDecrypt, PieceAt
<1>17. aead_decrypt_block(alg, dec, in) =
          Pieced(dec, [state |-> Opens(v, s, p, to), posn |-> to % v.rate, out |-> o])
  <2>1. aead_decrypt_block(alg, dec, in) =
          Pieced(dec, DecryptBlocks(v, dec.state, in, dec.posn))
    BY <1>2, RecordFunctions DEF Going
  <2> QED BY <1>14, <1>15, <2>1
<1>18. IsState(Opens(v, s, p, to))
  BY <1>3, <1>11, SealingState
<1>19. /\ IsPiecer(v, dec') /\ KeepsKey(dec, dec')
       /\ dec'.state = Opens(v, s, p, to) /\ dec'.posn = to % v.rate
       /\ aead_decrypt_block(alg, dec, in).out = o
  BY <1>15, <1>16, <1>17, <1>18, PiecedPiecer
<1>20. ASSUME p = 0 PROVE opened' = Text(0, to)
  <2>1. opened = Text(0, from)
    BY <1>3, <1>5, <1>20 DEF PacketIs
  <2>2. opened' = Joined(Text(0, from), o)
    BY <1>16, <1>19, <2>1 DEF Joined
  <2>3. Joined(Text(0, from),
               Returned(v, s, Forged(v, s, TextData, 0), Tampered(v, s, TextData, 0), from, m)) =
          Text(0, to)
    BY <1>3, <1>11, OpenedText
  <2> QED BY <1>13, <1>20, <2>2, <2>3
<1>21. taken' = to
  BY <1>1, <1>5, <1>6
<1>22. PacketIs(v, s, k, p, n, tag)'
  BY <1>1, <1>3, <1>11, <1>19, <1>20, <1>21 DEF PacketIs
<1>23. IsPiecer(v, enc') /\ KeepsKey(enc, enc')
  BY <1>1, <1>15 DEF KeepsKey
<1> QED BY <1>1, <1>2, <1>19, <1>22, <1>23, StreamGoesOn

LEMMA StreamVerdict ==
  ASSUME StreamInv, DoDecryptFinalize
  PROVE  StreamInv'
<1>1. /\ UNCHANGED <<alg, enc, adlen, cipher, taken, opened, damaged, nonces>>
      /\ Busy /\ verdict = 1 /\ cipher.tag # <<>> /\ taken = Len(cipher.text)
      /\ dec' = aead_decrypt_finalize(alg, dec, cipher.tag).obj
      /\ verdict' = aead_decrypt_finalize(alg, dec, cipher.tag).result
  BY DEF DoDecryptFinalize
<1>2. PICK v, s, k, p, n, tag : Going(v, s, k, p, n, tag)
  BY <1>1, StreamGoes
<1>3. PacketIs(v, s, k, p, n, tag) /\ Ready(v, s) /\ Sized(v) /\ FreshBytes(k) /\ Len(k) = v.key
  BY <1>2 DEF Going
<1>4. /\ cipher = [text |-> Arrived(v, s, p, n), tag |-> tag] /\ n \in Nat /\ p \in 0 .. n
      /\ damaged \in BOOLEAN /\ TagIs(v, s, k, p, n, tag, damaged)
  BY <1>3 DEF PacketIs
<1>5. cipher.tag = tag /\ cipher.text = Arrived(v, s, p, n)
  BY <1>4
<1>6. taken = n
  BY <1>1, <1>4, <1>5, ArrivedSequence
<1>7. IsPiecer(v, enc) /\ IsPiecer(v, dec) /\ dec.key = k
  BY <1>2 DEF Going, Twins, KeepsKey
<1>8. dec.state = Opens(v, s, p, n) /\ dec.posn = n % v.rate
  BY <1>1, <1>3, <1>6 DEF PacketIs
<1>9. aead_decrypt_finalize(alg, dec, tag) = DecryptFinalized(dec, FinalState(v, dec), tag)
  BY <1>2, RecordFunctions DEF Going
<1>10. /\ IsPiecer(v, dec') /\ KeepsKey(dec, dec')
       /\ verdict' = Judged(TagOf(Finalized(v, ascon_pad(dec.state, dec.posn), dec.key)) = tag)
  BY <1>1, <1>5, <1>7, <1>9, FinalizedPiecer
<1>11. verdict' = Judged(OpenTag(v, s, p, n, k) = tag)
  BY <1>7, <1>8, <1>10 DEF OpenTag
<1>12. verdict' = Judged(~damaged)
  BY <1>1, <1>3, <1>4, <1>5, <1>11, TagVerdict
<1>13. verdict' # 1
  BY <1>12 DEF Judged
<1>14. PacketIs(v, s, k, p, n, tag)'
  BY <1>1, <1>3, <1>5, <1>12, <1>13 DEF PacketIs
<1>15. IsPiecer(v, enc') /\ KeepsKey(enc, enc')
  BY <1>1, <1>7 DEF KeepsKey
<1> QED BY <1>1, <1>2, <1>10, <1>14, <1>15, StreamGoesOn

LEMMA StreamInvInit == CiphersInit => StreamInv
<1> SUFFICES ASSUME CiphersInit PROVE StreamInv
  OBVIOUS
<1>1. CASE PiecesIdle
  BY <1>1 DEF PiecesIdle, StreamInv
<1>2. CASE PiecesInit
  <2>1. /\ alg \in Names /\ nonces = <<>> /\ opened = <<>> /\ taken = 0 /\ verdict = 1
    BY <1>2, CiphersAssumption DEF PiecesInit, Names
  <2>2. PICK npub, k : /\ k \in {PieceKey, <<>>}
                       /\ enc = aead_init(alg, npub, k) /\ dec = aead_init(alg, npub, k)
    BY <1>2 DEF PiecesInit
  <2>3. PICK v : v = Record(alg)
    OBVIOUS
  <2>4. Sized(v) /\ aead_init(alg, npub, k) = Reinit(v, Unset(v), npub, k)
    BY <2>1, <2>3, RecordFunctions, CipherSizes
  <2>5. IsPiecer(v, Reinit(v, Unset(v), npub, k))
    BY <2>2, <2>3, <2>4, InitPiecer DEF PieceKey
  <2>6. Twins(v)
    BY <2>2, <2>4, <2>5 DEF Twins, KeepsKey
  <2>7. IsSequence(nonces)
    BY <2>1, EmptySequence
  <2> QED BY <2>1, <2>3, <2>6, <2>7 DEF StreamInv
<1> QED BY <1>1, <1>2 DEF CiphersInit

LEMMA StreamRest ==
  ASSUME StreamInv, UNCHANGED pieceVars
  PROVE  StreamInv'
<1>1. /\ alg' = alg /\ enc' = enc /\ dec' = dec /\ adlen' = adlen /\ cipher' = cipher
      /\ taken' = taken /\ opened' = opened /\ verdict' = verdict /\ damaged' = damaged
      /\ nonces' = nonces
  BY DEF pieceVars
<1>2. CASE ~Busy
  <2>1. \/ alg = "none" /\ nonces = <<>> /\ opened = <<>> /\ taken = 0 /\ verdict = 1
        \/ /\ alg \in Names /\ Twins(Record(alg)) /\ IsSequence(nonces)
           /\ nonces = <<>> /\ opened = <<>> /\ taken = 0 /\ verdict = 1
    BY <1>2 DEF StreamInv, Busy
  <2>2. Twins(Record(alg))' <=> Twins(Record(alg))
    BY <1>1 DEF Twins
  <2> QED BY <1>1, <2>1, <2>2 DEF StreamInv
<1>3. CASE Busy
  <2>1. PICK v, s, k, p, n, tag : Going(v, s, k, p, n, tag)
    BY <1>3, StreamGoes
  <2>2. PacketIs(v, s, k, p, n, tag)'
    BY <1>1, <2>1 DEF Going, PacketIs
  <2>3. /\ IsPiecer(v, enc') /\ KeepsKey(enc, enc')
        /\ IsPiecer(v, dec') /\ KeepsKey(dec, dec')
    BY <1>1, <2>1 DEF Going, Twins, KeepsKey
  <2> QED BY <1>1, <2>1, <2>2, <2>3, StreamGoesOn
<1> QED BY <1>2, <1>3

LEMMA StreamInvNext == StreamInv /\ [CiphersNext]_cipherVars => StreamInv'
<1> SUFFICES ASSUME StreamInv, [CiphersNext]_cipherVars PROVE StreamInv'
  OBVIOUS
<1>1. ASSUME NEW n \in AdLengths, DoStart(n) PROVE StreamInv'
  BY <1>1, StreamStart
<1>2. ASSUME NEW n \in Pieces, DoEncrypt(n) PROVE StreamInv'
  BY <1>2, StreamEncrypt
<1>3. ASSUME NEW n \in Pieces, DoDecrypt(n) PROVE StreamInv'
  BY <1>3, StreamDecrypt
<1>4. CASE DoEncryptFinalize
  BY <1>4, StreamFinish
<1>5. CASE DoDecryptFinalize
  BY <1>5, StreamVerdict
<1>6. CASE Damage
  BY <1>6, StreamDamage
<1>7. CASE SessionsNext
  BY <1>7, StreamRest DEF SessionsNext, DoSend, DoReceive, DoReceiveDamaged, Receive
<1>8. CASE UNCHANGED cipherVars
  BY <1>8, StreamRest DEF cipherVars
<1> QED BY <1>1, <1>2, <1>3, <1>4, <1>5, <1>6, <1>7, <1>8 DEF CiphersNext, PiecesNext

\* Both objects stand, after every piece, where the bytes that went through them
\* leave the sponge, the decrypting one with the damaged byte in it if there is
\* one; the tag on its way is the one of the encrypting object, or damaged.
THEOREM StreamInvariant == CiphersSpec => []StreamInv
<1>1. CiphersInit => StreamInv
  BY StreamInvInit
<1>2. StreamInv /\ [CiphersNext]_cipherVars => StreamInv'
  BY StreamInvNext
<1> QED BY <1>1, <1>2, PTL DEF CiphersSpec

\* However an undamaged packet is cut into pieces, the ciphertext so far is the
\* beginning of the reference's packet, and with the tag it is that packet and
\* the one-call function's (ascon128a_aead_encrypt_block and the others).
THEOREM PiecesAreOneShotHolds == CiphersSpec => []PiecesAreOneShot
<1>1. StreamInv => PiecesAreOneShot
  <2> SUFFICES ASSUME StreamInv, Busy, ~damaged PROVE PiecesAreOneShot
    BY DEF PiecesAreOneShot
  <2>1. PICK v, s, k, p, n, tag : Going(v, s, k, p, n, tag)
    BY StreamGoes
  <2>2. PICK npub : npub = nonces[Len(nonces)]
    OBVIOUS
  <2>3. PICK a : a = adlen
    OBVIOUS
  <2>4. /\ Sized(v) /\ FreshBytes(k) /\ Len(k) = v.key /\ Ready(v, s) /\ a \in Nat
        /\ v = Record(alg) /\ k = enc.key /\ s = Prepared(v, npub, a, k) /\ alg \in Names
    BY <2>1, <2>2, <2>3 DEF Going, Prepare
  <2>5. /\ n \in Nat /\ cipher = [text |-> Arrived(v, s, p, n), tag |-> tag]
        /\ TagIs(v, s, k, p, n, tag, damaged)
    BY <2>1 DEF Going, PacketIs
  <2>6. p = 0 /\ (tag = <<>> \/ tag = SealTag(v, s, n, k))
    BY <2>5 DEF TagIs
  <2>7. PICK t : t = SealTag(v, s, n, k)
    OBVIOUS
  <2>8. PICK c : c = Sealed(v, s, 0, n)
    OBVIOUS
  <2>9. c = Arrived(v, s, p, n) /\ IsSequence(c) /\ Len(c) = n
    BY <2>4, <2>5, <2>6, <2>8, ArrivedWhole, ArrivedSequence
  <2>10. IsSequence(t) /\ Len(t) = TAG_SIZE /\ t # <<>>
    BY <2>7, TagLength, FlippedTag DEF SealTag
  <2>11. cipher.text = c /\ cipher.tag = tag /\ Len(cipher.text) = n
    BY <2>5, <2>9
  <2>12. PICK w : w = RefPacket(v, Text(0, n), Ad(0, a), npub, k)
    OBVIOUS
  <2>13. w = Joined(c, t)
    BY <2>4, <2>5, <2>7, <2>8, <2>12, ReferencePacket
  <2>14. aead_encrypt(alg, Text(0, n), Ad(0, a), npub, k) = Joined(c, t)
    <3>1. aead_encrypt(alg, Text(0, n), Ad(0, a), npub, k) =
            Encrypt(v, Text(0, n), Ad(0, a), npub, k)
      BY <2>4, RecordFunctions
    <3> QED BY <2>4, <2>5, <2>7, <2>8, <3>1, EncryptIsPacket
  <2>15. SubSeq(w, 1, n) = c
    <3>1. PICK l : l = TAG_SIZE
      OBVIOUS
    <3>2. Halves(c, t, n, l)
      BY <2>9, <2>10, <3>1 DEF Halves
    <3> QED BY <2>13, <3>2, CutJoined DEF CutBack
  <2>16. Len(Text(0, n)) = n
    BY <2>5, TextIsSampled DEF Sampled
  <2>17. IF cipher.tag = <<>> THEN cipher.text = SubSeq(w, 1, Len(Text(0, n)))
         ELSE /\ cipher.text \o cipher.tag = w
              /\ w = aead_encrypt(alg, Text(0, n), Ad(0, a), npub, k)
    <3>1. CASE tag = <<>>
      BY <2>11, <2>15, <2>16, <3>1
    <3>2. CASE tag # <<>>
      BY <2>6, <2>7, <2>11, <2>13, <2>14, <3>2 DEF Joined
    <3> QED BY <2>11, <3>1, <3>2
  <2> QED BY <2>2, <2>3, <2>4, <2>11, <2>12, <2>17 DEF PiecesAreOneShot
<1> QED BY <1>1, StreamInvariant, PTL

\* The program that decrypts in pieces has the plaintext of an undamaged packet
\* up to where it is, and its last call refuses exactly the damaged packets, as
\* the one-call function does (ascon128a_aead_decrypt_finalize and the others).
THEOREM StreamIsOpenedHolds == CiphersSpec => []StreamIsOpened
<1>1. StreamInv => StreamIsOpened
  <2> SUFFICES ASSUME StreamInv PROVE StreamIsOpened
    OBVIOUS
  <2>1. CASE ~Busy
    <3>1. opened = <<>> /\ taken = 0 /\ verdict = 1
      BY <2>1 DEF StreamInv, Busy
    <3>2. Text(0, 0) = <<>>
      BY TextIsSampled, LengthZero DEF Sampled
    <3> QED BY <3>1, <3>2 DEF StreamIsOpened
  <2>2. CASE Busy
    <3>1. PICK v, s, k, p, n, tag : Going(v, s, k, p, n, tag)
      BY <2>2, StreamGoes
    <3>2. PICK npub : npub = nonces[Len(nonces)]
      OBVIOUS
    <3>3. PICK a : a = adlen
      OBVIOUS
    <3>4. /\ Sized(v) /\ FreshBytes(k) /\ Len(k) = v.key /\ Ready(v, s) /\ a \in Nat
          /\ v = Record(alg) /\ k = dec.key /\ s = Prepared(v, npub, a, k) /\ alg \in Names
      BY <3>1, <3>2, <3>3 DEF Going, Prepare, Twins, KeepsKey
    <3>5. PacketIs(v, s, k, p, n, tag)
      BY <3>1 DEF Going
    <3>6. /\ n \in Nat /\ p \in 0 .. n /\ p \in Nat /\ damaged \in BOOLEAN
          /\ cipher = [text |-> Arrived(v, s, p, n), tag |-> tag]
          /\ TagIs(v, s, k, p, n, tag, damaged)
      BY <3>5 DEF PacketIs
    <3>7. ~damaged => opened = Text(0, taken)
      BY <3>5, <3>6 DEF PacketIs, TagIs
    <3>8. ASSUME verdict # 1
          PROVE  /\ verdict = 0 <=> ~damaged
                 /\ verdict = aead_decrypt(alg, cipher.text \o cipher.tag, Ad(0, a),
                                           npub, k).result
      <4>1. tag # <<>> /\ verdict = Judged(~damaged)
        BY <3>5, <3>8 DEF PacketIs
      <4>2. /\ Judged(OpenTag(v, s, p, n, k) = tag) = Judged(~damaged)
            /\ IsSequence(tag) /\ Len(tag) = TAG_SIZE
        BY <3>4, <3>6, <4>1, TagVerdict
      <4>3. PICK c : c = Joined(Arrived(v, s, p, n), tag)
        OBVIOUS
      <4>4. Decrypt(v, c, Ad(0, a), npub, k).result = Judged(OpenTag(v, s, p, n, k) = tag)
        BY <3>4, <3>6, <4>2, <4>3, DecryptJudges
      <4>5. aead_decrypt(alg, c, Ad(0, a), npub, k) = Decrypt(v, c, Ad(0, a), npub, k)
        BY <3>4, RecordFunctions
      <4>6. cipher.text \o cipher.tag = c
        BY <3>6, <4>3 DEF Joined
      <4>7. verdict = 0 <=> ~damaged
        BY <4>1 DEF Judged
      <4> QED BY <4>1, <4>2, <4>4, <4>5, <4>6, <4>7
    <3> QED BY <3>2, <3>3, <3>4, <3>7, <3>8 DEF StreamIsOpened
  <2> QED BY <2>1, <2>2
<1> QED BY <1>1, StreamInvariant, PTL

=============================================================================
