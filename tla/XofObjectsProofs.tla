-------------------------- MODULE XofObjectsProofs --------------------------
(***************************************************************************)
(* For every word size, every program and every length: the state, the     *)
(* output and the one-shot functions of XofObjects agree with the          *)
(* reference, and different parameters give different states.              *)
(***************************************************************************)
EXTENDS XofObjects, SequenceLemmas

-----------------------------------------------------------------------------
(* Bytes and entries of a phase. *)

LEMMA XorNothing ==
  ASSUME NEW a
  PROVE  Xor(a, {}) = a /\ Xor({}, a) = a
BY DEF Xor

LEMMA XorLater ==
  ASSUME NEW a, NEW s, NEW d
  PROVE  Xor(Xor(Xor(a, {}), s), d) = Xor(Xor(a, d), s)
<1>1. Xor(Xor(a, s), d) = Xor(Xor(a, d), s)
  BY DEF Xor
<1> QED BY <1>1, XorNothing

\* What the phase adds to the list of permutations.
Entry(g, k) == [round |-> PhaseRound(g, k), b |-> PhaseBlock(g, k)]
Entries(g, j) == [k \in 1 .. j |-> Entry(g, k)]

\* The phase has the fields that a phase has.
Phase(g) ==
  /\ g = [v |-> g.v, base |-> g.base, sep |-> g.sep, in |-> g.in, out |-> g.out]
  /\ g.v \in {"xof", "xofa"} /\ IsSequence(g.base) /\ IsSequence(g.in)
  /\ g.sep \in BOOLEAN /\ g.out \in Nat \cup {-1}

Longer(g, data) == [g EXCEPT !.in = @ \o data]
Delivering(g, n) == [g EXCEPT !.out = n]

LEMMA LongerPhase ==
  ASSUME NEW g, Phase(g), NEW data, IsSequence(data)
  PROVE  /\ Phase(Longer(g, data))
         /\ Longer(g, data).v = g.v /\ Longer(g, data).base = g.base
         /\ Longer(g, data).sep = g.sep /\ Longer(g, data).out = g.out
         /\ Longer(g, data).in = g.in \o data
<1>1. IsSequence(g.in \o data)
  BY Concatenated DEF Phase
<1> DEFINE s == g.in \o data
<1>2. IsSequence(s) /\ Longer(g, data) = [g EXCEPT !.in = s]
  BY <1>1 DEF Longer
<1> HIDE DEF s
<1>3. Longer(g, data) = [v |-> g.v, base |-> g.base, sep |-> g.sep, in |-> s, out |-> g.out]
  BY <1>2 DEF Phase
<1>4. /\ Phase(Longer(g, data))
      /\ Longer(g, data).v = g.v /\ Longer(g, data).base = g.base
      /\ Longer(g, data).sep = g.sep /\ Longer(g, data).out = g.out
      /\ Longer(g, data).in = s
  BY <1>2, <1>3 DEF Phase
<1> QED BY <1>4 DEF s

LEMMA DeliveringPhase ==
  ASSUME NEW g, Phase(g), NEW n \in Nat \cup {-1}
  PROVE  /\ Phase(Delivering(g, n))
         /\ Delivering(g, n).v = g.v /\ Delivering(g, n).base = g.base
         /\ Delivering(g, n).sep = g.sep /\ Delivering(g, n).out = n
         /\ Delivering(g, n).in = g.in
<1>1. Delivering(g, n) = [v |-> g.v, base |-> g.base, sep |-> g.sep,
                          in |-> g.in, out |-> n]
  BY DEF Phase, Delivering
<1> QED BY <1>1 DEF Phase

LEMMA NewPhasePhase ==
  ASSUME NEW v \in {"xof", "xofa"}, NEW chain, IsSequence(chain), NEW sep \in BOOLEAN
  PROVE  Phase(NewPhase(v, chain, sep))
BY EmptySequence DEF Phase, NewPhase

LEMMA WordSize ==
  /\ WORD \in Nat \ {0} /\ RATE = WORD /\ RATE \in Nat \ {0}
  /\ STATE_SIZE \in Nat /\ STATE_SIZE = 5 * WORD /\ RATE < STATE_SIZE
BY WordAssumption DEF RATE, STATE_SIZE

LEMMA BlockBytes ==
  ASSUME NEW g, IsSequence(g.base), NEW k \in Nat
  PROVE  PhaseBlock(g, k + 1) =
           [i \in 0 .. STATE_SIZE - 1 |->
              Xor(Xor({<<"p", Len(g.base) + k, i>>},
                      IF i < RATE THEN PhaseByte(g, k * RATE + i + 1) ELSE {}),
                  IF k = 0 /\ g.sep /\ i = STATE_SIZE - 1 THEN SeparatorByte ELSE {})]
<1>1. /\ Len(g.base) + (k + 1) - 1 = Len(g.base) + k
      /\ (k + 1) - 1 = k /\ (k + 1 = 1) <=> (k = 0)
  BY SequenceLength
<1>2. \A i \in 0 .. STATE_SIZE - 1 : Permuted(Len(g.base) + k)[i] = {<<"p", Len(g.base) + k, i>>}
  BY DEF Permuted
<1> DEFINE m == k + 1
<1>3. m = k + 1 /\ m \in Nat
  OBVIOUS
<1> HIDE DEF m
<1>4. PhaseBlock(g, m) =
        [i \in 0 .. STATE_SIZE - 1 |->
           Xor(Xor(Permuted(Len(g.base) + m - 1)[i],
                   IF i < RATE THEN PhaseByte(g, (m - 1) * RATE + i + 1) ELSE {}),
               IF m = 1 /\ g.sep /\ i = STATE_SIZE - 1 THEN SeparatorByte ELSE {})]
  BY DEF PhaseBlock
<1>5. Len(g.base) + m - 1 = Len(g.base) + k /\ m - 1 = k /\ ((m = 1) <=> (k = 0))
  BY <1>1, <1>3
<1>6. PhaseBlock(g, m) =
        [i \in 0 .. STATE_SIZE - 1 |->
           Xor(Xor(Permuted(Len(g.base) + k)[i],
                   IF i < RATE THEN PhaseByte(g, k * RATE + i + 1) ELSE {}),
               IF k = 0 /\ g.sep /\ i = STATE_SIZE - 1 THEN SeparatorByte ELSE {})]
  BY ONLY <1>4, <1>5
<1> QED BY <1>2, <1>3, <1>6

LEMMA EntriesSequence ==
  ASSUME NEW g, NEW j \in Nat
  PROVE  /\ IsSequence(Entries(g, j)) /\ Len(Entries(g, j)) = j
         /\ \A k \in 1 .. j : Entries(g, j)[k] = Entry(g, k)
<1> DEFINE s == Entries(g, j)
<1>1. s = [i \in 1 .. j |-> s[i]] /\ \A k \in 1 .. j : s[k] = Entry(g, k)
  BY DEF Entries
<1> HIDE DEF s
<1>2. IsSequence(s) /\ Len(s) = j
  BY ONLY <1>1, FunctionSequence
<1> QED BY <1>1, <1>2 DEF s

LEMMA OneMoreEntry ==
  ASSUME NEW g, NEW j \in Nat
  PROVE  Append(Entries(g, j), Entry(g, j + 1)) = Entries(g, j + 1)
<1> DEFINE s == Entries(g, j)
           t == Entries(g, j + 1)
           e == Entry(g, j + 1)
           a == Append(s, e)
<1>1. /\ IsSequence(s) /\ Len(s) = j /\ \A k \in 1 .. j : s[k] = Entry(g, k)
      /\ IsSequence(t) /\ Len(t) = j + 1 /\ \A k \in 1 .. j + 1 : t[k] = Entry(g, k)
  BY EntriesSequence
<1> HIDE DEF s, t, e
<1>2. /\ IsSequence(a) /\ Len(a) = Len(s) + 1
      /\ \A i \in 1 .. Len(s) : a[i] = s[i]
      /\ a[Len(s) + 1] = e
  <2>1. IsSequence(s)
    BY <1>1
  <2> QED BY ONLY <2>1, Appended, ZenonT(60)
<1> HIDE DEF a
<1>3. \A i \in 1 .. Len(a) : a[i] = t[i]
  BY <1>1, <1>2 DEF e
<1> QED BY <1>1, <1>2, <1>3, SameSequence DEF s, t, e, a

-----------------------------------------------------------------------------
(* One step of the sponge on the states of a phase. *)

LEMMA OtherBytes ==
  ASSUME NEW c, NEW x, NEW y
  PROVE  [[chain |-> c, b |-> x] EXCEPT !.b = y] = [chain |-> c, b |-> y]
OBVIOUS

\* The bytes bb with data added at an offset.
Added(bb, data, offset) ==
  [i \in 0 .. STATE_SIZE - 1 |->
     IF offset <= i /\ i < offset + Len(data)
     THEN Xor(bb[i], data[i - offset + 1]) ELSE bb[i]]

LEMMA BytesAdded ==
  ASSUME NEW c, NEW bb, bb = [i \in 0 .. STATE_SIZE - 1 |-> bb[i]],
         NEW data, NEW offset
  PROVE  ascon_add_bytes([chain |-> c, b |-> bb], data, offset) =
           [chain |-> c, b |-> Added(bb, data, offset)]
<1> DEFINE s == [chain |-> c, b |-> bb]
           new == Added(bb, data, offset)
<1>1. DOMAIN bb = 0 .. STATE_SIZE - 1
  OBVIOUS
<1>2. [i \in DOMAIN bb |-> IF i \in Touched(offset, Len(data))
                           THEN Xor(bb[i], data[i - offset + 1]) ELSE bb[i]] = new
  BY <1>1 DEF Touched, Added
<1>3. ascon_add_bytes(s, data, offset) =
        [s EXCEPT !.b = [i \in DOMAIN bb |-> IF i \in Touched(offset, Len(data))
                           THEN Xor(bb[i], data[i - offset + 1]) ELSE bb[i]]]
  BY DEF ascon_add_bytes
<1>4. ascon_add_bytes(s, data, offset) = [s EXCEPT !.b = new]
  BY <1>2, <1>3
<1> HIDE DEF new
<1>5. [s EXCEPT !.b = new] = [chain |-> c, b |-> new]
  BY OtherBytes
<1> QED BY <1>4, <1>5 DEF new

LEMMA BlockFunction ==
  ASSUME NEW g, NEW k
  PROVE  PhaseBlock(g, k) = [i \in 0 .. STATE_SIZE - 1 |-> PhaseBlock(g, k)[i]]
BY DEF PhaseBlock

LEMMA StateOfPhase ==
  ASSUME NEW g, NEW j
  PROVE  PhaseState(g, j) = [chain |-> g.base \o Entries(g, j), b |-> PhaseBlock(g, j + 1)]
BY DEF PhaseState, Entries, Entry

LEMMA StateLength ==
  ASSUME NEW g, Phase(g), NEW j \in Nat
  PROVE  /\ IsSequence(PhaseState(g, j).chain)
         /\ Len(PhaseState(g, j).chain) = Len(g.base) + j
         /\ \A k \in 1 .. Len(g.base) : PhaseState(g, j).chain[k] = g.base[k]
         /\ \A k \in 1 .. j : PhaseState(g, j).chain[Len(g.base) + k] = Entry(g, k)
<1> DEFINE s == g.base
           t == Entries(g, j)
           u == s \o t
<1>1. /\ IsSequence(s) /\ IsSequence(t) /\ Len(t) = j
      /\ \A k \in 1 .. j : t[k] = Entry(g, k)
  BY EntriesSequence DEF Phase
<1>2. PhaseState(g, j).chain = u
  BY StateOfPhase
<1> HIDE DEF s, t
<1>3. /\ IsSequence(u) /\ Len(u) = Len(s) + Len(t)
      /\ \A i \in 1 .. Len(s) : u[i] = s[i]
      /\ \A i \in 1 .. Len(t) : u[Len(s) + i] = t[i]
  <2>1. IsSequence(s) /\ IsSequence(t)
    BY <1>1
  <2> QED BY ONLY <2>1, Concatenated, SMTT(30)
<1> HIDE DEF u
<1>4. /\ IsSequence(u) /\ Len(u) = Len(s) + j
      /\ \A k \in 1 .. Len(s) : u[k] = s[k]
      /\ \A k \in 1 .. j : u[Len(s) + k] = Entry(g, k)
  BY <1>1, <1>3
<1> QED BY <1>2, <1>4 DEF s

\* A permutation leads to the next state if nothing was added for it yet.
LEMMA PermuteNext ==
  ASSUME NEW g, Phase(g), NEW k \in Nat,
         NEW round, round = PhaseRound(g, k + 1),
         \A i \in 0 .. RATE - 1 : PhaseByte(g, (k + 1) * RATE + i + 1) = {}
  PROVE  ascon_permute(PhaseState(g, k), round) = PhaseState(g, k + 1)
<1> DEFINE chain == g.base \o Entries(g, k)
           e == Entry(g, k + 1)
           n == k + 1
<1>1. IsSequence(g.base) /\ IsSequence(Entries(g, k)) /\ Len(Entries(g, k)) = k
  BY EntriesSequence DEF Phase
<1>2. IsSequence(chain) /\ Len(chain) = Len(g.base) + k /\ Len(g.base) \in Nat
  BY <1>1, Concatenated, SequenceLength
<1>3. Append(chain, e) = g.base \o Entries(g, k + 1)
  <2>1. Append(chain, e) = g.base \o Append(Entries(g, k), e)
    <3> DEFINE t == Entries(g, k)
               s == g.base
    <3>1. IsSequence(s) /\ IsSequence(t)
      BY <1>1
    <3> HIDE DEF e, s, t
    <3>2. Append(s \o t, e) = s \o Append(t, e)
      BY ONLY <3>1, AppendedAtEnd
    <3> QED BY <3>2 DEF s, t
  <2> QED BY <2>1, OneMoreEntry
<1>4. n \in Nat /\ n # 0
  OBVIOUS
<1>5. PhaseBlock(g, n + 1) = Permuted(Len(g.base) + n)
  <2>1. PhaseBlock(g, n + 1) =
           [i \in 0 .. STATE_SIZE - 1 |->
              Xor(Xor({<<"p", Len(g.base) + n, i>>},
                      IF i < RATE THEN PhaseByte(g, n * RATE + i + 1) ELSE {}),
                  IF n = 0 /\ g.sep /\ i = STATE_SIZE - 1 THEN SeparatorByte ELSE {})]
    <3> HIDE DEF n
    <3> QED BY <1>1, <1>4, BlockBytes
  <2>2. \A i \in 0 .. STATE_SIZE - 1 :
          i < RATE => PhaseByte(g, n * RATE + i + 1) = {}
    BY WordSize
  <2> HIDE DEF n
  <2>3. \A i \in 0 .. STATE_SIZE - 1 :
          Xor(Xor({<<"p", Len(g.base) + n, i>>},
                      IF i < RATE THEN PhaseByte(g, n * RATE + i + 1) ELSE {}),
                  IF n = 0 /\ g.sep /\ i = STATE_SIZE - 1 THEN SeparatorByte ELSE {})
            = {<<"p", Len(g.base) + n, i>>}
    BY <1>4, <2>2, XorNothing
  <2> QED BY <2>1, <2>3 DEF Permuted
<1>6. PhaseState(g, k) = [chain |-> chain, b |-> PhaseBlock(g, n)]
  BY StateOfPhase
<1>7. e = [round |-> round, b |-> PhaseBlock(g, n)]
  BY DEF Entry
<1>8. PhaseState(g, n) = [chain |-> g.base \o Entries(g, n), b |-> PhaseBlock(g, n + 1)]
  <2> HIDE DEF n
  <2> QED BY StateOfPhase
<1>9. ascon_permute(PhaseState(g, k), round) = [chain |-> Append(chain, e), b |-> Permuted(Len(chain) + 1)]
  <2> HIDE DEF chain, e, n
  <2> QED BY <1>6, <1>7 DEF ascon_permute
<1>10. Len(chain) + 1 = Len(g.base) + n
  <2>1. Len(chain) = Len(g.base) + k /\ Len(g.base) \in Nat
    BY <1>2
  <2> DEFINE l == Len(chain)
             m == Len(g.base)
  <2>2. l = m + k /\ m \in Nat
    BY <2>1
  <2> HIDE DEF l, m
  <2>3. l + 1 = m + (k + 1)
    BY <2>2
  <2> QED BY <2>3 DEF l, m
<1> QED BY <1>3, <1>5, <1>8, <1>9, <1>10

LEMMA PlaceInBlock ==
  ASSUME NEW k \in Nat, NEW j \in 0 .. k - 1, NEW i \in 0 .. RATE - 1
  PROVE  j * RATE + i + 1 \in 1 .. k * RATE
<1>1. RATE \in Nat \ {0} /\ j \in Nat /\ j < k
  BY WordSize
<1>2. j * RATE + RATE <= k * RATE
  BY <1>1, ProductOrder
<1>3. j * RATE \in Nat /\ k * RATE \in Nat
  BY <1>1
<1> QED BY <1>1, <1>2, <1>3

\* Two phases that agree on some bytes agree on the blocks these are in.
LEMMA SameBlock ==
  ASSUME NEW g, NEW h, IsSequence(g.base), h.base = g.base, h.sep = g.sep, NEW k \in Nat,
         \A i \in 0 .. RATE - 1 :
            PhaseByte(g, k * RATE + i + 1) = PhaseByte(h, k * RATE + i + 1)
  PROVE  PhaseBlock(g, k + 1) = PhaseBlock(h, k + 1)
<1> DEFINE Block(f) ==
             [i \in 0 .. STATE_SIZE - 1 |->
              Xor(Xor({<<"p", Len(f.base) + k, i>>},
                      IF i < RATE THEN PhaseByte(f, k * RATE + i + 1) ELSE {}),
                  IF k = 0 /\ f.sep /\ i = STATE_SIZE - 1 THEN SeparatorByte ELSE {})]
<1>1. PhaseBlock(g, k + 1) = Block(g) /\ PhaseBlock(h, k + 1) = Block(h)
  BY BlockBytes
<1>2. \A i \in 0 .. STATE_SIZE - 1 : i < RATE => i \in 0 .. RATE - 1
  BY WordSize
<1>3. Block(g) = Block(h)
  BY <1>2
<1> QED BY <1>1, <1>3

LEMMA SameEntries ==
  ASSUME NEW g, NEW h, IsSequence(g.base), h.base = g.base, h.sep = g.sep, NEW k \in Nat,
         \A j \in 0 .. k - 1 : PhaseRound(g, j + 1) = PhaseRound(h, j + 1),
         \A p \in 1 .. k * RATE : PhaseByte(g, p) = PhaseByte(h, p)
  PROVE  Entries(g, k) = Entries(h, k)
<1>1. ASSUME NEW j \in 0 .. k - 1
      PROVE  Entry(g, j + 1) = Entry(h, j + 1)
  <2>1. \A i \in 0 .. RATE - 1 :
          PhaseByte(g, j * RATE + i + 1) = PhaseByte(h, j * RATE + i + 1)
    BY PlaceInBlock
  <2>2. PhaseBlock(g, j + 1) = PhaseBlock(h, j + 1)
    BY <2>1, SameBlock
  <2> QED BY <2>2 DEF Entry
<1>2. ASSUME NEW m \in 1 .. k
      PROVE  Entry(g, m) = Entry(h, m)
  <2>1. m - 1 \in 0 .. k - 1 /\ (m - 1) + 1 = m
    OBVIOUS
  <2> QED BY <1>1, <2>1
<1> QED BY <1>2 DEF Entries

\* The bytes of a phase that takes more input.
LEMMA LongerBytes ==
  ASSUME NEW g, Phase(g), g.out = -1, NEW data, IsSequence(data)
  PROVE  /\ \A p \in 1 .. Len(g.in) : PhaseByte(Longer(g, data), p) = PhaseByte(g, p)
         /\ \A p \in Nat : p > Len(g.in) => PhaseByte(g, p) = {}
         /\ \A j \in 1 .. Len(data) : PhaseByte(Longer(g, data), Len(g.in) + j) = data[j]
         /\ \A p \in Nat : p > Len(g.in) + Len(data) => PhaseByte(Longer(g, data), p) = {}
<1> DEFINE h == Longer(g, data)
           s == g.in
           t == s \o data
<1>1. h.in = t /\ h.out = -1 /\ IsSequence(s)
  BY LongerPhase DEF Phase
<1>2. /\ Len(t) = Len(s) + Len(data) /\ Len(s) \in Nat /\ Len(data) \in Nat
      /\ \A i \in 1 .. Len(s) : t[i] = s[i]
      /\ \A i \in 1 .. Len(data) : t[Len(s) + i] = data[i]
  <2> HIDE DEF s
  <2>1. IsSequence(s) /\ IsSequence(data)
    BY <1>1
  <2> QED BY ONLY <2>1, Concatenated, SequenceLength, SMTT(30)
<1> HIDE DEF h, s, t
<1>3. \A p : PhaseByte(g, p) = IF p <= Len(s) THEN s[p] ELSE {}
  BY DEF PhaseByte, s
<1>4. \A p : PhaseByte(h, p) = IF p <= Len(t) THEN t[p] ELSE {}
  BY <1>1 DEF PhaseByte
<1>5. /\ \A p \in 1 .. Len(s) : PhaseByte(h, p) = PhaseByte(g, p)
      /\ \A p \in Nat : p > Len(s) => PhaseByte(g, p) = {}
      /\ \A j \in 1 .. Len(data) : PhaseByte(h, Len(s) + j) = data[j]
      /\ \A p \in Nat : p > Len(s) + Len(data) => PhaseByte(h, p) = {}
  <2> DEFINE m == Len(s)
             n == Len(data)
  <2>1. /\ Len(t) = m + n /\ m \in Nat /\ n \in Nat
        /\ \A i \in 1 .. m : t[i] = s[i]
        /\ \A i \in 1 .. n : t[m + i] = data[i]
    BY <1>2
  <2>2. /\ \A p : PhaseByte(g, p) = IF p <= m THEN s[p] ELSE {}
        /\ \A p : PhaseByte(h, p) = IF p <= m + n THEN t[p] ELSE {}
    BY <1>3, <1>4, <2>1
  <2> HIDE DEF m, n
  <2>3. \A p \in 1 .. m : PhaseByte(h, p) = PhaseByte(g, p)
    BY ONLY <2>1, <2>2
  <2>4. \A p \in Nat : p > m => PhaseByte(g, p) = {}
    BY ONLY <2>1, <2>2
  <2>5. \A j \in 1 .. n : PhaseByte(h, m + j) = data[j]
    BY ONLY <2>1, <2>2
  <2>6. \A p \in Nat : p > m + n => PhaseByte(h, p) = {}
    BY ONLY <2>1, <2>2
  <2> QED BY <2>3, <2>4, <2>5, <2>6 DEF m, n
<1> QED BY <1>5 DEF h, s

\* In block k + 1 phase h has data at offset c, where g has nothing yet.
Extends(h, g, k, c, data) ==
  \A i \in 0 .. RATE - 1 :
    IF c <= i /\ i < c + Len(data)
    THEN PhaseByte(g, k * RATE + i + 1) = {} /\ PhaseByte(h, k * RATE + i + 1) = data[i - c + 1]
    ELSE PhaseByte(g, k * RATE + i + 1) = PhaseByte(h, k * RATE + i + 1)

\* Up to block k two phases are the same.
SameSoFar(h, g, k) ==
  /\ \A j \in 0 .. k - 1 : PhaseRound(g, j + 1) = PhaseRound(h, j + 1)
  /\ \A p \in 1 .. k * RATE : PhaseByte(g, p) = PhaseByte(h, p)

LEMMA AddedToBlock ==
  ASSUME NEW g, NEW h, Phase(g), h.base = g.base, h.sep = g.sep, NEW k \in Nat, NEW c \in Nat,
         NEW data, Len(data) \in Nat, c + Len(data) <= RATE,
         SameSoFar(h, g, k), Extends(h, g, k, c, data)
  PROVE  ascon_add_bytes(PhaseState(g, k), data, c) = PhaseState(h, k)
<1> DEFINE B(f) == [i \in 0 .. STATE_SIZE - 1 |->
              Xor(Xor({<<"p", Len(f.base) + k, i>>},
                      IF i < RATE THEN PhaseByte(f, k * RATE + i + 1) ELSE {}),
                  IF k = 0 /\ f.sep /\ i = STATE_SIZE - 1 THEN SeparatorByte ELSE {})]
<1>1. IsSequence(g.base) /\ IsSequence(h.base)
  BY DEF Phase
<1>3. RATE \in Nat \ {0}
  BY WordSize
<1>4. Entries(h, k) = Entries(g, k)
  BY <1>1, SameEntries DEF SameSoFar
<1>5. PhaseBlock(g, k + 1) = B(g) /\ PhaseBlock(h, k + 1) = B(h)
  BY <1>1, BlockBytes
<1> DEFINE D == Added(B(g), data, c)
<1>6. ASSUME NEW i \in 0 .. STATE_SIZE - 1
      PROVE  D[i] = B(h)[i]
  <2> DEFINE p == k * RATE + i + 1
             a == {<<"p", Len(g.base) + k, i>>}
             s == IF k = 0 /\ g.sep /\ i = STATE_SIZE - 1 THEN SeparatorByte ELSE {}
  <2>1. /\ B(g)[i] = Xor(Xor(a, IF i < RATE THEN PhaseByte(g, p) ELSE {}), s)
        /\ B(h)[i] = Xor(Xor(a, IF i < RATE THEN PhaseByte(h, p) ELSE {}), s)
        /\ D[i] = IF c <= i /\ i < c + Len(data)
                  THEN Xor(B(g)[i], data[i - c + 1]) ELSE B(g)[i]
    BY DEF Added
  <2>2. i < RATE => i \in 0 .. RATE - 1
    BY <1>3
  <2>3. i < RATE =>
          IF c <= i /\ i < c + Len(data)
          THEN PhaseByte(g, p) = {} /\ PhaseByte(h, p) = data[i - c + 1]
          ELSE PhaseByte(g, p) = PhaseByte(h, p)
    BY <2>2 DEF Extends
  <2> HIDE DEF a, s, p, B, D
  <2>4. CASE c <= i /\ i < c + Len(data)
    <3> DEFINE x == data[i - c + 1]
    <3>1. i < RATE
      BY <1>3, <2>4
    <3>2. PhaseByte(g, p) = {} /\ PhaseByte(h, p) = x
      BY <2>3, <2>4, <3>1
    <3>3. B(g)[i] = Xor(Xor(a, {}), s)
      BY <2>1, <3>1, <3>2
    <3>4. B(h)[i] = Xor(Xor(a, x), s)
      BY <2>1, <3>1, <3>2
    <3>5. D[i] = Xor(B(g)[i], x)
      BY <2>1, <2>4
    <3> HIDE DEF x
    <3>6. Xor(Xor(Xor(a, {}), s), x) = Xor(Xor(a, x), s)
      BY ONLY XorLater
    <3> QED BY ONLY <3>3, <3>4, <3>5, <3>6
  <2>5. CASE ~(c <= i /\ i < c + Len(data))
    <3>1. D[i] = B(g)[i]
      BY <2>1, <2>5
    <3>2. i < RATE => PhaseByte(g, p) = PhaseByte(h, p)
      BY <2>3, <2>5
    <3> QED BY <2>1, <3>1, <3>2
  <2> QED BY <2>4, <2>5
<1>7. D = B(h)
  BY <1>6 DEF Added
<1>8. ascon_add_bytes([chain |-> g.base \o Entries(g, k), b |-> B(g)], data, c) =
        [chain |-> g.base \o Entries(g, k), b |-> D]
  <2> DEFINE bb == B(g)
             e == g.base \o Entries(g, k)
  <2>1. bb = [i \in 0 .. STATE_SIZE - 1 |-> bb[i]]
    OBVIOUS
  <2> HIDE DEF B, e, bb
  <2>2. ascon_add_bytes([chain |-> e, b |-> bb], data, c) = [chain |-> e, b |-> Added(bb, data, c)]
    BY ONLY <2>1, BytesAdded
  <2> QED BY <2>2 DEF bb, e
<1> HIDE DEF B, D
<1>9. PhaseState(g, k) = [chain |-> g.base \o Entries(g, k), b |-> B(g)]
  BY <1>5, StateOfPhase
<1>10. PhaseState(h, k) = [chain |-> g.base \o Entries(g, k), b |-> B(h)]
  BY <1>4, <1>5, StateOfPhase
<1> QED BY <1>7, <1>8, <1>9, <1>10

LEMMA DataAdded ==
  ASSUME NEW g, Phase(g), g.out = -1, NEW k \in Nat, NEW c \in Nat,
         Len(g.in) = k * RATE + c,
         NEW data, IsSequence(data), c + Len(data) <= RATE
  PROVE  ascon_add_bytes(PhaseState(g, k), data, c) = PhaseState(Longer(g, data), k)
<1> DEFINE h == Longer(g, data)
           m == k * RATE
<1>1. /\ Phase(h) /\ h.v = g.v /\ h.base = g.base /\ h.sep = g.sep /\ h.out = -1
  BY LongerPhase
<1>2. /\ \A p \in 1 .. Len(g.in) : PhaseByte(h, p) = PhaseByte(g, p)
      /\ \A p \in Nat : p > Len(g.in) => PhaseByte(g, p) = {}
      /\ \A j \in 1 .. Len(data) : PhaseByte(h, Len(g.in) + j) = data[j]
      /\ \A p \in Nat : p > Len(g.in) + Len(data) => PhaseByte(h, p) = {}
  BY LongerBytes
<1> HIDE DEF h
<1>3. m \in Nat /\ Len(data) \in Nat /\ Len(g.in) = m + c /\ RATE \in Nat \ {0}
  BY WordSize, SequenceLength
<1> HIDE DEF m
<1>4. \A j \in 0 .. k - 1 : PhaseRound(g, j + 1) = PhaseRound(h, j + 1)
  BY <1>1 DEF PhaseRound
<1>5. \A p \in 1 .. m : PhaseByte(g, p) = PhaseByte(h, p)
  BY <1>2, <1>3
<1>6. ASSUME NEW i \in 0 .. RATE - 1
      PROVE  IF c <= i /\ i < c + Len(data)
             THEN PhaseByte(g, m + i + 1) = {} /\ PhaseByte(h, m + i + 1) = data[i - c + 1]
             ELSE PhaseByte(g, m + i + 1) = PhaseByte(h, m + i + 1)
  <2> DEFINE p == m + i + 1
  <2>1. p \in Nat /\ p = m + i + 1
    BY <1>3
  <2> HIDE DEF p
  <2>2. CASE c <= i /\ i < c + Len(data)
    <3>1. p > Len(g.in) /\ i - c + 1 \in 1 .. Len(data) /\ p = Len(g.in) + (i - c + 1)
      BY <1>3, <2>1, <2>2
    <3> QED BY <1>2, <2>1, <2>2, <3>1
  <2>3. CASE i < c
    <3>1. p \in 1 .. Len(g.in) /\ ~(c <= i)
      BY <1>3, <2>1, <2>3
    <3> QED BY <1>2, <2>1, <3>1
  <2>4. CASE i >= c + Len(data)
    <3>1. p > Len(g.in) + Len(data) /\ p > Len(g.in) /\ ~(i < c + Len(data))
      BY <1>3, <2>1, <2>4
    <3> QED BY <1>2, <2>1, <3>1
  <2> QED BY <1>3, <2>2, <2>3, <2>4
<1>7. SameSoFar(h, g, k) /\ Extends(h, g, k, c, data)
  BY <1>4, <1>5, <1>6 DEF SameSoFar, Extends, m
<1> QED BY <1>1, <1>3, <1>7, AddedToBlock DEF h

-----------------------------------------------------------------------------
(* The loops over full blocks, for either variant. *)

AbsorbLoop(state, in, n, round) ==
  LET after[k \in 0 .. n] ==
        IF k = 0 THEN state
        ELSE ascon_permute(ascon_add_bytes(after[k - 1],
                 SubSeq(in, (k - 1) * WORD + 1, k * WORD), 0), round)
  IN  after[n]

LEMMA AbsorbLoops ==
  ASSUME NEW state, NEW in, NEW n
  PROVE  /\ X!BlocksAbsorbed(state, in, n) = AbsorbLoop(state, in, n, 0)
         /\ XA!BlocksAbsorbed(state, in, n) = AbsorbLoop(state, in, n, 4)
BY DEF AbsorbLoop, X!BlocksAbsorbed, XA!BlocksAbsorbed, X!ASCON_XOF_RATE, XA!ASCON_XOF_RATE,
       X!ascon_permute, XA!ascon_permute, X!ascon_add_bytes, XA!ascon_add_bytes,
       X!Permuted, XA!Permuted, X!STATE_SIZE, XA!STATE_SIZE, X!Touched, XA!Touched, X!Xor, XA!Xor,
       ascon_permute, ascon_add_bytes, Permuted, STATE_SIZE, Touched, Xor

\* A function that satisfies the loop's equation gives its result.
LEMMA AbsorbLoopFunction ==
  ASSUME NEW state, NEW in, NEW n \in Nat, NEW round, NEW w,
         w = [k \in 0 .. n |->
                IF k = 0 THEN state
                ELSE ascon_permute(ascon_add_bytes(w[k - 1],
                         SubSeq(in, (k - 1) * WORD + 1, k * WORD), 0), round)]
  PROVE  AbsorbLoop(state, in, n, round) = w[n]
<1> DEFINE Equation(f) ==
             f = [k \in 0 .. n |->
                    IF k = 0 THEN state
                    ELSE ascon_permute(ascon_add_bytes(f[k - 1],
                             SubSeq(in, (k - 1) * WORD + 1, k * WORD), 0), round)]
           f == CHOOSE x : Equation(x)
<1>1. AbsorbLoop(state, in, n, round) = f[n]
  BY DEF AbsorbLoop
<1>2. Equation(w)
  OBVIOUS
<1>3. Equation(f)
  <2> HIDE DEF Equation
  <2> QED BY <1>2
<1> HIDE DEF f
<1> DEFINE Bad == {k \in 0 .. n : f[k] # w[k]}
<1>4. Bad = {}
  <2> SUFFICES ASSUME Bad # {} PROVE FALSE
    OBVIOUS
  <2>1. Bad \in SUBSET Nat
    BY ONLY n \in Nat
  <2>2. PICK k \in Bad : \A y \in Bad : k <= y
    BY <2>1, LeastNumber
  <2>3. k \in 0 .. n /\ f[k] # w[k]
    OBVIOUS
  <2>4. CASE k = 0
    <3>1. f[k] = state /\ w[k] = state
      BY <1>3, <2>3, <2>4
    <3> QED BY <2>3, <3>1
  <2>5. CASE k # 0
    <3>1. k - 1 \in 0 .. n /\ k - 1 \notin Bad
      <4>1. k - 1 \in 0 .. n /\ ~(k <= k - 1)
        BY ONLY <2>3, <2>5, n \in Nat
      <4> HIDE DEF Bad
      <4> QED BY <2>2, <4>1
    <3>2. f[k - 1] = w[k - 1]
      BY <3>1
    <3> DEFINE d == SubSeq(in, (k - 1) * WORD + 1, k * WORD)
    <3>3. f[k] = ascon_permute(ascon_add_bytes(f[k - 1], d, 0), round)
      BY <1>3, <2>3, <2>5
    <3>4. w[k] = ascon_permute(ascon_add_bytes(w[k - 1], d, 0), round)
      BY <1>2, <2>3, <2>5
    <3> QED BY <2>3, <3>2, <3>3, <3>4
  <2> QED BY <2>4, <2>5
<1>5. n \in 0 .. n
  OBVIOUS
<1> QED BY <1>1, <1>4, <1>5

LEMMA LongerNothing ==
  ASSUME NEW g, Phase(g)
  PROVE  Longer(g, <<>>) = g
<1>1. g.in \o <<>> = g.in
  BY ConcatenatedEmpty DEF Phase
<1>2. [g EXCEPT !.in = g.in] = g
  BY DEF Phase
<1> QED BY <1>1, <1>2 DEF Longer

LEMMA LongerTwice ==
  ASSUME NEW g, Phase(g), NEW s, IsSequence(s), NEW t, IsSequence(t)
  PROVE  Longer(Longer(g, s), t) = Longer(g, s \o t)
<1> DEFINE a == Longer(g, s)
           st == s \o t
           b == Longer(g, st)
           c == Longer(a, t)
<1>1. IsSequence(st)
  BY Concatenated
<1>2. /\ Phase(a) /\ a.v = g.v /\ a.base = g.base /\ a.sep = g.sep /\ a.out = g.out
      /\ a.in = g.in \o s
  BY LongerPhase
<1>3. /\ Phase(b) /\ b.v = g.v /\ b.base = g.base /\ b.sep = g.sep /\ b.out = g.out
      /\ b.in = g.in \o st
  <2> HIDE DEF st
  <2> QED BY <1>1, LongerPhase
<1>4. /\ Phase(c) /\ c.v = a.v /\ c.base = a.base /\ c.sep = a.sep /\ c.out = a.out
      /\ c.in = a.in \o t
  <2> HIDE DEF a
  <2> QED BY <1>2, LongerPhase
<1>5. (g.in \o s) \o t = g.in \o (s \o t)
  BY ConcatenatedTwice DEF Phase
<1> HIDE DEF a, b, c
<1>6. c.in = b.in
  BY <1>2, <1>3, <1>4, <1>5
<1>7. b = [v |-> b.v, base |-> b.base, sep |-> b.sep, in |-> b.in, out |-> b.out]
  BY <1>3 DEF Phase
<1>8. c = [v |-> c.v, base |-> c.base, sep |-> c.sep, in |-> c.in, out |-> c.out]
  BY <1>4 DEF Phase
<1>9. c = b
  BY ONLY <1>2, <1>3, <1>4, <1>6, <1>7, <1>8
<1> QED BY <1>9 DEF a, b, c

-----------------------------------------------------------------------------
(* Absorbing. *)

\* A block that becomes full is permuted.
LEMMA FillBlock ==
  ASSUME NEW g, Phase(g), g.out = -1, NEW k \in Nat, NEW c \in Nat,
         Len(g.in) = k * RATE + c,
         NEW data, IsSequence(data), c + Len(data) = RATE
  PROVE  /\ ascon_permute(ascon_add_bytes(PhaseState(g, k), data, c), Inner(g.v))
              = PhaseState(Longer(g, data), k + 1)
         /\ Len(Longer(g, data).in) = (k + 1) * RATE
<1> DEFINE h == Longer(g, data)
           round == Inner(g.v)
<1>1. Phase(h) /\ h.v = g.v /\ h.out = -1 /\ h.in = g.in \o data
  BY LongerPhase
<1>2. Len(h.in) = Len(g.in) + Len(data)
  BY <1>1, Concatenated DEF Phase
<1>3. k * RATE \in Nat /\ (k + 1) * RATE = k * RATE + RATE /\ Len(data) \in Nat
      /\ RATE \in Nat \ {0}
  BY WordSize, SequenceLength
<1>4. Len(h.in) = (k + 1) * RATE
  BY <1>2, <1>3
<1>5. ascon_add_bytes(PhaseState(g, k), data, c) = PhaseState(h, k)
  BY <1>3, DataAdded
<1>6. \A i \in 0 .. RATE - 1 : PhaseByte(h, (k + 1) * RATE + i + 1) = {}
  <2> DEFINE m == (k + 1) * RATE
  <2>1. m \in Nat /\ Len(h.in) = m /\ h.out = -1 /\ RATE \in Nat
    BY <1>1, <1>3, <1>4
  <2> HIDE DEF h, m
  <2>2. \A i \in 0 .. RATE - 1 : PhaseByte(h, m + i + 1) = {}
    BY ONLY <2>1 DEF PhaseByte
  <2> QED BY <2>2 DEF m
<1>7. round = PhaseRound(h, k + 1)
  BY <1>1 DEF PhaseRound
<1> HIDE DEF h, round
<1>8. ascon_permute(PhaseState(h, k), round) = PhaseState(h, k + 1)
  BY ONLY <1>1, <1>6, <1>7, k \in Nat, PermuteNext
<1> QED BY <1>4, <1>5, <1>8 DEF h, round

LEMMA BlocksOfPhase ==
  ASSUME NEW g, Phase(g), g.out = -1, NEW k \in Nat, Len(g.in) = k * RATE,
         NEW in, IsSequence(in), NEW n \in Nat, n * RATE <= Len(in)
  PROVE  AbsorbLoop(PhaseState(g, k), in, n, Inner(g.v))
           = PhaseState(Longer(g, SubSeq(in, 1, n * RATE)), k + n)
<1> DEFINE Taken(j) == Longer(g, SubSeq(in, 1, j * RATE))
           w == [j \in 0 .. n |-> PhaseState(Taken(j), k + j)]
           state == PhaseState(g, k)
           round == Inner(g.v)
<1>1. RATE \in Nat \ {0} /\ RATE = WORD /\ Len(in) \in Nat
  BY WordSize, SequenceLength
<1>2. ASSUME NEW j \in 0 .. n
      PROVE  /\ j * RATE \in Nat /\ j * RATE <= Len(in)
             /\ IsSequence(SubSeq(in, 1, j * RATE)) /\ Len(SubSeq(in, 1, j * RATE)) = j * RATE
  <2>1. j * RATE \in Nat /\ n * RATE \in Nat
    BY <1>1
  <2>2. j * RATE <= n * RATE
    <3>1. CASE j = n
      BY <2>1, <3>1
    <3>2. CASE j < n
      <4>1. j * RATE + RATE <= n * RATE
        BY <1>1, <3>2, ProductOrder
      <4> QED BY <1>1, <2>1, <4>1
    <3> QED BY <3>1, <3>2
  <2>3. j * RATE <= Len(in)
    BY <1>1, <2>1, <2>2
  <2> QED BY <1>1, <2>1, <2>3, Subsequence
<1>3. Taken(0) = g
  <2>1. 0 * RATE = 0
    BY <1>1
  <2>2. SubSeq(in, 1, 0) = <<>>
    BY <1>2, <2>1, LengthZero
  <2> QED BY <2>1, <2>2, LongerNothing
<1>4. ASSUME NEW j \in 0 .. n, j # 0
      PROVE  PhaseState(Taken(j), k + j) =
               ascon_permute(ascon_add_bytes(PhaseState(Taken(j - 1), k + (j - 1)),
                   SubSeq(in, (j - 1) * WORD + 1, j * WORD), 0), round)
  <2> DEFINE i == j - 1
             a == SubSeq(in, 1, i * RATE)
             d == SubSeq(in, i * RATE + 1, j * RATE)
             h == Longer(g, a)
             l == k + i
  <2>1. i \in 0 .. n /\ i \in Nat /\ i + 1 = j /\ l \in Nat /\ l + 1 = k + j
    BY ONLY j \in 0 .. n, j # 0, n \in Nat, k \in Nat
  <2>2. /\ i * RATE \in Nat /\ j * RATE = i * RATE + RATE /\ j * RATE <= Len(in)
        /\ l * RATE = k * RATE + i * RATE /\ k * RATE \in Nat
    BY <1>1, <1>2, <2>1
  <2>3. IsSequence(a) /\ Len(a) = i * RATE
    BY <1>2, <2>1
  <2>4. IsSequence(d) /\ Len(d) = RATE
    <3> DEFINE m == i * RATE
    <3>1. m \in Nat /\ m + 1 \in 1 .. Len(in) + 1 /\ m + RATE \in (m + 1) - 1 .. Len(in)
          /\ j * RATE = m + RATE /\ (m + RATE) - (m + 1) + 1 = RATE
      BY <1>1, <2>2
    <3> HIDE DEF m
    <3>2. IsSequence(SubSeq(in, m + 1, m + RATE)) /\ Len(SubSeq(in, m + 1, m + RATE)) = RATE
      BY <3>1, Subsequence
    <3> QED BY <3>1, <3>2 DEF m
  <2>5. a \o d = SubSeq(in, 1, j * RATE)
    <3>1. i * RATE <= j * RATE /\ j * RATE \in Nat
      BY <1>1, <2>2
    <3> QED BY <2>2, <3>1, CutTwice
  <2> HIDE DEF a, d, i, l
  <2>6. Longer(h, d) = Longer(g, a \o d)
    BY <2>3, <2>4, LongerTwice
  <2>7. Phase(h) /\ h.out = -1 /\ h.v = g.v /\ Len(h.in) = l * RATE + 0
    <3>1. Phase(h) /\ h.out = -1 /\ h.v = g.v /\ h.in = g.in \o a
      BY <2>3, LongerPhase
    <3>2. Len(g.in \o a) = Len(g.in) + Len(a)
      BY <2>3, Concatenated DEF Phase
    <3> QED BY <2>2, <2>3, <3>1, <3>2
  <2> HIDE DEF h
  <2>8. ascon_permute(ascon_add_bytes(PhaseState(h, l), d, 0), Inner(h.v)) = PhaseState(Longer(h, d), l + 1)
    <3>1. 0 \in Nat /\ 0 + Len(d) = RATE
      BY <1>1, <2>4
    <3> QED BY ONLY <2>1, <2>4, <2>7, <3>1, FillBlock
  <2>9. PhaseState(Taken(j), k + j) = PhaseState(Longer(h, d), l + 1)
    BY <2>1, <2>5, <2>6
  <2>10. PhaseState(Taken(j - 1), k + (j - 1)) = PhaseState(h, l)
    BY DEF h, a, i, l
  <2>11. SubSeq(in, (j - 1) * WORD + 1, j * WORD) = d
    BY <1>1 DEF d, i
  <2> QED BY <2>7, <2>8, <2>9, <2>10, <2>11
<1> HIDE DEF Taken
<1>5. w = [j \in 0 .. n |->
             IF j = 0 THEN state
             ELSE ascon_permute(ascon_add_bytes(w[j - 1],
                      SubSeq(in, (j - 1) * WORD + 1, j * WORD), 0), round)]
  <2>1. ASSUME NEW j \in 0 .. n
        PROVE  PhaseState(Taken(j), k + j) =
                 IF j = 0 THEN state
                 ELSE ascon_permute(ascon_add_bytes(w[j - 1],
                      SubSeq(in, (j - 1) * WORD + 1, j * WORD), 0), round)
    <3>1. CASE j = 0
      BY <1>3, <3>1
    <3>2. CASE j # 0
      <4>1. j - 1 \in 0 .. n
        BY <3>2
      <4>2. w[j - 1] = PhaseState(Taken(j - 1), k + (j - 1))
        BY <4>1
      <4> QED BY <1>4, <3>2, <4>2
    <3> QED BY <3>1, <3>2
  <2> QED BY <2>1
<1>6. w[n] = PhaseState(Taken(n), k + n)
  OBVIOUS
<1> HIDE DEF w, state, round
<1>7. AbsorbLoop(state, in, n, round) = w[n]
  BY ONLY <1>5, n \in Nat, AbsorbLoopFunction
<1> QED BY <1>6, <1>7 DEF Taken, state, round

-----------------------------------------------------------------------------
(* Whole calls of absorb. *)

\* The object that is in phase g.
Object(g) ==
  [state |-> CurrentState(g),
   count |-> IF g.out < 0 THEN Len(g.in) % RATE ELSE g.out % RATE,
   mode  |-> IF g.out < 0 THEN 0 ELSE 1]

\* The code of either variant, with the rounds inside a phase as a parameter.
AlignedAbsorb(x, in, round) ==
  LET blocks == Len(in) \div WORD
      rest   == SubSeq(in, blocks * WORD + 1, Len(in))
  IN  [x EXCEPT !.state = ascon_add_bytes(AbsorbLoop(x.state, in, blocks, round), rest, 0),
                !.count = Len(rest)]

BackToAbsorb(x) ==
  IF x.mode = 0 THEN x
  ELSE [state |-> ascon_permute(x.state, 0), count |-> 0, mode |-> 0]

AbsorbCall(obj, in, round) ==
  LET x    == BackToAbsorb(obj)
      room == WORD - x.count
  IN  IF x.count = 0 THEN AlignedAbsorb(x, in, round)
      ELSE IF room > Len(in)
      THEN [x EXCEPT !.state = ascon_add_bytes(@, in, x.count),
                     !.count = @ + Len(in)]
      ELSE AlignedAbsorb(
              [x EXCEPT !.state = ascon_permute(
                            ascon_add_bytes(@, SubSeq(in, 1, room), x.count), round),
                        !.count = 0],
              SubSeq(in, room + 1, Len(in)), round)

LEMMA AbsorbCalls ==
  ASSUME NEW x, NEW in
  PROVE  /\ X!ascon_xof_absorb(x, in) = AbsorbCall(x, in, 0)
         /\ XA!ascon_xofa_absorb(x, in) = AbsorbCall(x, in, 4)
BY DEF AbsorbCall, AlignedAbsorb, BackToAbsorb, AbsorbLoop,
       X!ascon_xof_absorb, XA!ascon_xofa_absorb, X!AbsorbAligned, XA!AbsorbAligned,
       X!EnterAbsorb, XA!EnterAbsorb,
       X!BlocksAbsorbed, XA!BlocksAbsorbed, X!ASCON_XOF_RATE, XA!ASCON_XOF_RATE,
       X!ascon_permute, XA!ascon_permute, X!ascon_add_bytes, XA!ascon_add_bytes,
       X!Permuted, XA!Permuted, X!STATE_SIZE, XA!STATE_SIZE, X!Touched, XA!Touched, X!Xor, XA!Xor,
       ascon_permute, ascon_add_bytes, Permuted, STATE_SIZE, Touched, Xor

LEMMA PhaseObject ==
  ASSUME NEW g, Phase(g), g.out = -1, NEW k \in Nat, NEW c \in 0 .. RATE - 1,
         Len(g.in) = k * RATE + c
  PROVE  /\ Object(g) = [state |-> PhaseState(g, k), count |-> c, mode |-> 0]
         /\ FullBlocks(g) = k
<1>1. RATE \in Nat \ {0}
  BY WordSize
<1>2. (k * RATE + c) \div RATE = k /\ (k * RATE + c) % RATE = c
  BY <1>1, DivisionUnique
<1>3. FullBlocks(g) = k /\ Len(g.in) % RATE = c
  BY <1>2 DEF FullBlocks
<1>4. PhasePermutes(g) = k
  BY <1>3 DEF PhasePermutes
<1>5. g.out < 0
  OBVIOUS
<1> QED BY <1>3, <1>4, <1>5 DEF Object, CurrentState

Changed(x, t, n) == [x EXCEPT !.state = t, !.count = n]

LEMMA OtherObject ==
  ASSUME NEW s, NEW c, NEW m, NEW t, NEW n
  PROVE  Changed([state |-> s, count |-> c, mode |-> m], t, n)
           = [state |-> t, count |-> n, mode |-> m]
<1> DEFINE x == [state |-> s, count |-> c, mode |-> m]
           z == [state |-> t, count |-> n, mode |-> m]
           y == [x EXCEPT !.state = t, !.count = n]
<1>1. DOMAIN x = {"state", "count", "mode"} /\ DOMAIN z = {"state", "count", "mode"}
  OBVIOUS
<1>2. y = [i \in DOMAIN x |-> IF i = "count" THEN n ELSE IF i = "state" THEN t ELSE x[i]]
  OBVIOUS
<1>3. \A i \in {"state", "count", "mode"} : y[i] = z[i]
  BY <1>1, <1>2
<1> QED BY <1>1, <1>2, <1>3 DEF Changed

LEMMA AbsorbsAligned ==
  ASSUME NEW g, Phase(g), g.out = -1, NEW k \in Nat, Len(g.in) = k * RATE,
         NEW in, IsSequence(in)
  PROVE  AlignedAbsorb([state |-> PhaseState(g, k), count |-> 0, mode |-> 0], in, Inner(g.v))
           = Object(Longer(g, in))
<1> DEFINE q == Len(in) \div RATE
           r == Len(in) % RATE
           m == q * RATE
           a == SubSeq(in, 1, m)
           rest == SubSeq(in, m + 1, Len(in))
           h == Longer(g, a)
           l == k + q
           new == Longer(g, in)
           x == [state |-> PhaseState(g, k), count |-> 0, mode |-> 0]
           round == Inner(g.v)
<1>1. RATE \in Nat \ {0} /\ RATE = WORD /\ Len(in) \in Nat /\ k * RATE \in Nat
  BY WordSize, SequenceLength
<1>2. q \in Nat /\ r \in 0 .. RATE - 1 /\ Len(in) = m + r /\ m \in Nat /\ l \in Nat
      /\ l * RATE = k * RATE + m
  <2>1. q \in Nat /\ r \in 0 .. RATE - 1 /\ Len(in) = q * RATE + r
    BY <1>1, Division
  <2> HIDE DEF q, r
  <2> QED BY <1>1, <2>1
<1>3. m = q * RATE
  OBVIOUS
<1> HIDE DEF q, r, m
<1>4. IsSequence(a) /\ Len(a) = m /\ IsSequence(rest) /\ Len(rest) = r /\ a \o rest = in
  <2>1. IsSequence(a) /\ Len(a) = m
    BY <1>1, <1>2, Subsequence
  <2>2. IsSequence(rest) /\ Len(rest) = r
    BY <1>1, <1>2, Subsequence
  <2>3. a \o rest = in
    <3>1. m \in 0 .. Len(in)
      BY <1>1, <1>2
    <3> QED BY ONLY <3>1, IsSequence(in), Cut
  <2> QED BY <2>1, <2>2, <2>3
<1> HIDE DEF l
<1>5. AbsorbLoop(PhaseState(g, k), in, q, round) = PhaseState(h, l)
  BY <1>1, <1>2, <1>3, BlocksOfPhase DEF l
<1> HIDE DEF a, rest
<1>6. Phase(h) /\ h.out = -1 /\ h.v = g.v /\ Len(h.in) = l * RATE
  <2>1. Phase(h) /\ h.out = -1 /\ h.v = g.v /\ h.in = g.in \o a
    BY <1>4, LongerPhase
  <2>2. Len(g.in \o a) = Len(g.in) + Len(a)
    BY <1>4, Concatenated DEF Phase
  <2> QED BY <1>2, <1>4, <2>1, <2>2
<1>7. Longer(h, rest) = new
  <2>1. Longer(Longer(g, a), rest) = Longer(g, a \o rest)
    <3>1. IsSequence(a) /\ IsSequence(rest)
      BY <1>4
    <3> QED BY ONLY <3>1, Phase(g), LongerTwice
  <2> QED BY <1>4, <2>1
<1> HIDE DEF h
<1>8. ascon_add_bytes(PhaseState(h, l), rest, 0) = PhaseState(new, l)
  <2>1. 0 \in Nat /\ Len(h.in) = l * RATE + 0 /\ 0 + Len(rest) <= RATE
    BY <1>1, <1>2, <1>4, <1>6
  <2>2. ascon_add_bytes(PhaseState(h, l), rest, 0) = PhaseState(Longer(h, rest), l)
    BY ONLY <1>2, <1>4, <1>6, <2>1, DataAdded
  <2> QED BY <1>7, <2>2
<1>9. Object(new) = [state |-> PhaseState(new, l), count |-> r, mode |-> 0]
  <2>1. Phase(new) /\ new.out = -1 /\ new.in = g.in \o in
    BY LongerPhase
  <2>2. Len(g.in \o in) = Len(g.in) + Len(in)
    BY Concatenated DEF Phase
  <2>3. Len(new.in) = l * RATE + r
    BY <1>1, <1>2, <2>1, <2>2
  <2> HIDE DEF new
  <2> QED BY ONLY <1>2, <2>1, <2>3, PhaseObject
<1>10. AlignedAbsorb(x, in, round) =
         [x EXCEPT !.state = ascon_add_bytes(AbsorbLoop(x.state, in, q, round), rest, 0),
                   !.count = Len(rest)]
  BY <1>1, <1>3 DEF AlignedAbsorb, q, rest
<1>11. x.state = PhaseState(g, k)
  OBVIOUS
<1>12. AlignedAbsorb(x, in, round) =
         [x EXCEPT !.state = PhaseState(new, l), !.count = r]
  <2> HIDE DEF x, round, new
  <2> QED BY <1>4, <1>5, <1>8, <1>10, <1>11
<1> HIDE DEF new
<1>13. [x EXCEPT !.state = PhaseState(new, l), !.count = r]
          = [state |-> PhaseState(new, l), count |-> r, mode |-> 0]
  <2>1. Changed(x, PhaseState(new, l), r)
          = [state |-> PhaseState(new, l), count |-> r, mode |-> 0]
    BY OtherObject
  <2> HIDE DEF x
  <2> QED BY <2>1 DEF Changed
<1> QED BY <1>9, <1>12, <1>13 DEF new

LEMMA AbsorbsInput ==
  ASSUME NEW g, Phase(g), g.out = -1, NEW in, IsSequence(in)
  PROVE  AbsorbCall(Object(g), in, Inner(g.v)) = Object(Longer(g, in))
<1> DEFINE k == Len(g.in) \div RATE
           c == Len(g.in) % RATE
           s == PhaseState(g, k)
           x == [state |-> s, count |-> c, mode |-> 0]
           room == WORD - c
           round == Inner(g.v)
           new == Longer(g, in)
<1>1. RATE \in Nat \ {0} /\ RATE = WORD /\ Len(in) \in Nat /\ Len(g.in) \in Nat
  BY WordSize, SequenceLength DEF Phase
<1>2. k \in Nat /\ c \in 0 .. RATE - 1 /\ Len(g.in) = k * RATE + c /\ k * RATE \in Nat
  <2>1. k \in Nat /\ c \in 0 .. RATE - 1 /\ Len(g.in) = k * RATE + c
    BY <1>1, Division
  <2> HIDE DEF k, c
  <2> QED BY <1>1, <2>1
<1> HIDE DEF k, c
<1>3. Object(g) = x
  BY <1>2, PhaseObject
<1>4. BackToAbsorb(x) = x
  BY DEF BackToAbsorb
<1>5. x.count = c /\ x.state = s
  OBVIOUS
<1>6. Phase(new) /\ new.out = -1 /\ Len(new.in) = Len(g.in) + Len(in) /\ new.v = g.v
  <2>1. Phase(new) /\ new.out = -1 /\ new.in = g.in \o in /\ new.v = g.v
    BY LongerPhase
  <2>2. Len(g.in \o in) = Len(g.in) + Len(in)
    BY Concatenated DEF Phase
  <2> QED BY <2>1, <2>2
<1>7. CASE c = 0
  <2>1. AbsorbCall(x, in, round) = AlignedAbsorb(x, in, round)
    BY <1>4, <1>5, <1>7 DEF AbsorbCall
  <2>2. AlignedAbsorb([state |-> PhaseState(g, k), count |-> 0, mode |-> 0], in, round) = Object(new)
    <3>1. Len(g.in) = k * RATE
      BY <1>2, <1>7
    <3> QED BY <1>2, <3>1, AbsorbsAligned
  <2> QED BY <1>3, <1>7, <2>1, <2>2
<1>8. CASE c # 0 /\ room > Len(in)
  <2>1. AbsorbCall(x, in, round) =
          [x EXCEPT !.state = ascon_add_bytes(@, in, x.count), !.count = @ + Len(in)]
    <3> HIDE DEF x
    <3> QED BY <1>4, <1>5, <1>8 DEF AbsorbCall
  <2>2. ascon_add_bytes(s, in, c) = PhaseState(new, k)
    BY <1>1, <1>2, <1>8, DataAdded
  <2> HIDE DEF s, new, round
  <2>3. [x EXCEPT !.state = ascon_add_bytes(@, in, x.count), !.count = @ + Len(in)]
          = [state |-> PhaseState(new, k), count |-> c + Len(in), mode |-> 0]
    <3>1. [x EXCEPT !.state = ascon_add_bytes(@, in, x.count), !.count = @ + Len(in)]
            = Changed(x, PhaseState(new, k), c + Len(in))
      <4>1. ascon_add_bytes(x.state, in, x.count) = PhaseState(new, k) /\ x.count + Len(in) = c + Len(in)
        BY <1>5, <2>2
      <4> HIDE DEF x
      <4> QED BY <4>1 DEF Changed
    <3> QED BY <3>1, OtherObject
  <2>4. Object(new) = [state |-> PhaseState(new, k), count |-> c + Len(in), mode |-> 0]
    <3>1. c + Len(in) \in 0 .. RATE - 1 /\ Len(new.in) = k * RATE + (c + Len(in))
      BY <1>1, <1>2, <1>6, <1>8
    <3> QED BY ONLY <1>2, <1>6, <3>1, PhaseObject
  <2> QED BY <1>3, <2>1, <2>3, <2>4 DEF new, round
<1>9. CASE c # 0 /\ ~(room > Len(in))
  <2> DEFINE a == SubSeq(in, 1, room)
             t == SubSeq(in, room + 1, Len(in))
             h == Longer(g, a)
             y == [state |-> PhaseState(h, k + 1), count |-> 0, mode |-> 0]
  <2>1. AbsorbCall(x, in, round) =
          AlignedAbsorb([x EXCEPT !.state = ascon_permute(ascon_add_bytes(@, a, x.count), round),
                                  !.count = 0], t, round)
    <3> HIDE DEF x
    <3> QED BY <1>4, <1>5, <1>9 DEF AbsorbCall
  <2>2. room \in 0 .. Len(in) /\ c + room = RATE
    BY <1>1, <1>2, <1>9
  <2> HIDE DEF room
  <2>3. IsSequence(a) /\ Len(a) = room /\ IsSequence(t) /\ a \o t = in
    <3>1. IsSequence(a) /\ Len(a) = room
      BY <1>1, <2>2, Subsequence
    <3>2. IsSequence(t)
      BY <1>1, <2>2, Subsequence
    <3>3. a \o t = in
      BY <1>1, <2>2, Cut
    <3> QED BY <3>1, <3>2, <3>3
  <2> HIDE DEF a, t
  <2>4. /\ ascon_permute(ascon_add_bytes(s, a, c), round) = PhaseState(h, k + 1)
        /\ Len(h.in) = (k + 1) * RATE
    <3>1. c \in Nat /\ c + Len(a) = RATE
      BY <1>2, <2>2, <2>3
    <3> QED BY ONLY <1>2, <2>3, <3>1, Phase(g), g.out = -1, FillBlock, ZenonT(60)
  <2>5. [x EXCEPT !.state = ascon_permute(ascon_add_bytes(@, a, x.count), round), !.count = 0] = y
    <3>1. [x EXCEPT !.state = ascon_permute(ascon_add_bytes(@, a, x.count), round), !.count = 0]
            = Changed(x, PhaseState(h, k + 1), 0)
      <4>1. ascon_permute(ascon_add_bytes(x.state, a, x.count), round) = PhaseState(h, k + 1)
        BY <1>5, <2>4
      <4> HIDE DEF x
      <4> QED BY <4>1 DEF Changed
    <3> QED BY <3>1, OtherObject
  <2>6. Phase(h) /\ h.out = -1 /\ h.v = g.v
    BY <2>3, LongerPhase
  <2>7. Longer(h, t) = new
    <3>1. Longer(Longer(g, a), t) = Longer(g, a \o t)
      <4>1. IsSequence(a) /\ IsSequence(t)
        BY <2>3
      <4> QED BY ONLY <4>1, Phase(g), LongerTwice
    <3> QED BY <2>3, <3>1
  <2> HIDE DEF h
  <2>8. AlignedAbsorb(y, t, Inner(h.v)) = Object(Longer(h, t))
    <3>1. k + 1 \in Nat
      BY <1>2
    <3> QED BY ONLY <2>3, <2>4, <2>6, <3>1, AbsorbsAligned
  <2> QED BY <1>3, <2>1, <2>5, <2>6, <2>7, <2>8
<1> QED BY <1>7, <1>8, <1>9

LEMMA PermutesNatural ==
  ASSUME NEW g, Phase(g)
  PROVE  PhasePermutes(g) \in Nat /\ FullBlocks(g) \in Nat
<1>1. RATE \in Nat \ {0} /\ Len(g.in) \in Nat
  BY WordSize, SequenceLength DEF Phase
<1>2. FullBlocks(g) \in Nat
  BY <1>1, Division DEF FullBlocks
<1>3. CASE g.out < 0
  BY <1>2, <1>3 DEF PhasePermutes
<1>4. CASE ~(g.out < 0)
  <2>1. g.out \in Nat
    BY <1>4 DEF Phase
  <2>2. g.out \div RATE \in Nat
    BY <1>1, <2>1, Division
  <2>3. CeilDiv(g.out, RATE) \in Nat
    <3>1. g.out + RATE - 1 \in Nat
      BY <1>1, <2>1
    <3> QED BY <1>1, <3>1, Division DEF CeilDiv
  <2> HIDE DEF FullBlocks, CeilDiv
  <2>4. PhasePermutes(g) = FullBlocks(g) + (IF Eager(g.v) THEN 1 + g.out \div RATE ELSE CeilDiv(g.out, RATE))
    BY <1>4 DEF PhasePermutes
  <2> QED BY <1>2, <2>2, <2>3, <2>4
<1> QED BY <1>2, <1>3, <1>4

LEMMA FirstBlock ==
  ASSUME NEW v \in {"xof", "xofa"}, NEW chain, IsSequence(chain), NEW sep \in BOOLEAN
  PROVE  PhaseState(NewPhase(v, chain, sep), 0) =
           [chain |-> chain,
            b |-> IF sep THEN Added(Permuted(Len(chain)), <<SeparatorByte>>, STATE_SIZE - 1)
                  ELSE Permuted(Len(chain))]
<1> DEFINE r == NewPhase(v, chain, sep)
           last == STATE_SIZE - 1
           one == <<SeparatorByte>>
           P == Permuted(Len(chain))
           new == IF sep THEN Added(P, one, last) ELSE P
<1>1. /\ Phase(r) /\ r.base = chain /\ r.sep = sep /\ r.in = <<>> /\ r.out = -1
  BY NewPhasePhase DEF NewPhase
<1>2. STATE_SIZE \in Nat /\ RATE \in Nat \ {0} /\ RATE < STATE_SIZE /\ RATE <= last
  BY WordSize
<1>3. Len(one) = 1 /\ one[1] = SeparatorByte
  BY SingleSequence
<1>4. P = [i \in 0 .. STATE_SIZE - 1 |-> {<<"p", Len(chain), i>>}]
  BY DEF Permuted
<1> HIDE DEF r, one
<1>5. Entries(r, 0) = <<>>
  BY EntriesSequence, LengthZero
<1>6. r.base \o Entries(r, 0) = chain
  BY <1>1, <1>5, ConcatenatedEmpty
<1>7. \A p \in Nat \ {0} : PhaseByte(r, p) = {}
  BY <1>1, EmptySequence DEF PhaseByte
<1> DEFINE k == 0
<1>20. k \in Nat /\ k = 0
  OBVIOUS
<1> HIDE DEF k
<1>8. PhaseBlock(r, 1) =
        [i \in 0 .. STATE_SIZE - 1 |->
           Xor(Xor({<<"p", Len(r.base) + k, i>>}, IF i < RATE THEN PhaseByte(r, k * RATE + i + 1) ELSE {}),
               IF k = 0 /\ r.sep /\ i = STATE_SIZE - 1 THEN SeparatorByte ELSE {})]
  <2>1. IsSequence(r.base)
    BY <1>1
  <2>2. PhaseBlock(r, k + 1) =
        [i \in 0 .. STATE_SIZE - 1 |->
           Xor(Xor({<<"p", Len(r.base) + k, i>>}, IF i < RATE THEN PhaseByte(r, k * RATE + i + 1) ELSE {}),
               IF k = 0 /\ r.sep /\ i = STATE_SIZE - 1 THEN SeparatorByte ELSE {})]
    BY ONLY <1>20, <2>1, BlockBytes
  <2>3. k + 1 = 1
    BY <1>20
  <2> QED BY <2>2, <2>3
<1>9. ASSUME NEW i \in 0 .. STATE_SIZE - 1
      PROVE  PhaseBlock(r, 1)[i] = new[i]
  <2> DEFINE a == {<<"p", Len(chain), i>>}
  <2>1. Len(r.base) + k = Len(chain) /\ k * RATE + i + 1 \in Nat \ {0}
    BY <1>1, <1>2, <1>20, SequenceLength
  <2>2. PhaseBlock(r, 1)[i] = Xor(Xor(a, {}), IF sep /\ i = last THEN SeparatorByte ELSE {})
    BY <1>1, <1>7, <1>8, <1>20, <2>1
  <2>3. PhaseBlock(r, 1)[i] = Xor(a, IF sep /\ i = last THEN SeparatorByte ELSE {})
    BY <2>2, XorNothing
  <2>4. P[i] = a
    BY <1>4
  <2> HIDE DEF P, a
  <2>5. CASE ~sep
    <3>1. PhaseBlock(r, 1)[i] = a
      BY <2>3, <2>5, XorNothing
    <3> QED BY <2>4, <2>5, <3>1
  <2>6. CASE sep /\ i # last
    <3>1. PhaseBlock(r, 1)[i] = a
      BY <2>3, <2>6, XorNothing
    <3>2. Added(P, one, last)[i] = P[i]
      BY <1>2, <1>3, <2>6 DEF Added
    <3> QED BY <2>4, <2>6, <3>1, <3>2
  <2>7. CASE sep /\ i = last
    <3>1. PhaseBlock(r, 1)[i] = Xor(a, SeparatorByte)
      BY <2>3, <2>7
    <3>2. Added(P, one, last)[i] = Xor(P[i], SeparatorByte)
      <4>1. last <= i /\ i < last + Len(one) /\ i - last + 1 = 1
        BY <1>2, <1>3, <2>7
      <4> QED BY <1>3, <4>1 DEF Added
    <3> QED BY <2>4, <2>7, <3>1, <3>2
  <2> QED BY <2>5, <2>6, <2>7
<1>10. new = [i \in 0 .. STATE_SIZE - 1 |-> new[i]]
  BY <1>4 DEF Added
<1>11. PhaseBlock(r, 1) = [i \in 0 .. STATE_SIZE - 1 |-> PhaseBlock(r, 1)[i]]
  BY BlockFunction
<1> HIDE DEF new
<1>12. PhaseBlock(r, 1) = new
  BY ONLY <1>9, <1>10, <1>11
<1>13. PhaseState(r, 0) = [chain |-> r.base \o Entries(r, 0), b |-> PhaseBlock(r, 0 + 1)]
  BY StateOfPhase
<1>14. PhaseState(r, 0) = [chain |-> chain, b |-> new]
  <2>1. 0 + 1 = 1
    OBVIOUS
  <2> QED BY <1>6, <1>12, <1>13, <2>1
<1> QED BY <1>14 DEF new, r, one

\* A permuted state, or one with a separator, starts a phase.
LEMMA PhaseStarts ==
  ASSUME NEW v \in {"xof", "xofa"}, NEW s, IsSequence(s.chain), NEW round
  PROVE  LET chain == Append(s.chain, [round |-> round, b |-> s.b])
         IN  /\ IsSequence(chain) /\ Len(chain) = Len(s.chain) + 1
             /\ ascon_permute(s, round) = PhaseState(NewPhase(v, chain, FALSE), 0)
             /\ ascon_separator(ascon_permute(s, round)) = PhaseState(NewPhase(v, chain, TRUE), 0)
<1> DEFINE e == [round |-> round, b |-> s.b]
           old == s.chain
           chain == Append(old, e)
           P == Permuted(Len(chain))
           one == <<SeparatorByte>>
           last == STATE_SIZE - 1
<1>1. IsSequence(chain) /\ Len(chain) = Len(old) + 1
  <2> HIDE DEF e, old
  <2>1. IsSequence(old)
    BY DEF old
  <2> QED BY ONLY <2>1, Appended
<1>2. ascon_permute(s, round) = [chain |-> chain, b |-> P]
  BY <1>1 DEF ascon_permute
<1>3. P = [i \in 0 .. STATE_SIZE - 1 |-> P[i]]
  BY DEF Permuted
<1> HIDE DEF e, old, chain, P
<1>4. ascon_separator([chain |-> chain, b |-> P]) = [chain |-> chain, b |-> Added(P, one, last)]
  <2>1. ascon_separator([chain |-> chain, b |-> P]) = ascon_add_bytes([chain |-> chain, b |-> P], one, last)
    BY DEF ascon_separator
  <2> HIDE DEF one, last
  <2>2. ascon_add_bytes([chain |-> chain, b |-> P], one, last) = [chain |-> chain, b |-> Added(P, one, last)]
    BY ONLY <1>3, BytesAdded
  <2> QED BY <2>1, <2>2
<1>5. PhaseState(NewPhase(v, chain, FALSE), 0) = [chain |-> chain, b |-> P]
  <2>1. FALSE \in BOOLEAN
    OBVIOUS
  <2> QED BY <1>1, <2>1, FirstBlock DEF P
<1>6. PhaseState(NewPhase(v, chain, TRUE), 0) = [chain |-> chain, b |-> Added(P, one, last)]
  <2>1. TRUE \in BOOLEAN
    OBVIOUS
  <2> QED BY <1>1, <2>1, FirstBlock DEF P
<1> QED BY <1>1, <1>2, <1>4, <1>5, <1>6 DEF chain, e, old

LEMMA NewObject ==
  ASSUME NEW v \in {"xof", "xofa"}, NEW chain, IsSequence(chain), NEW sep \in BOOLEAN
  PROVE  LET r == NewPhase(v, chain, sep)
         IN  /\ Object(r) = [state |-> PhaseState(r, 0), count |-> 0, mode |-> 0]
             /\ Phase(r) /\ r.v = v /\ r.base = chain /\ r.sep = sep
             /\ r.in = <<>> /\ r.out = -1
<1> DEFINE r == NewPhase(v, chain, sep)
<1>1. Phase(r) /\ r.v = v /\ r.base = chain /\ r.sep = sep /\ r.in = <<>> /\ r.out = -1
  BY NewPhasePhase DEF NewPhase
<1>2. 0 \in 0 .. RATE - 1 /\ Len(r.in) = 0 * RATE + 0
  BY <1>1, WordSize, EmptySequence
<1> HIDE DEF r
<1>3. Object(r) = [state |-> PhaseState(r, 0), count |-> 0, mode |-> 0]
  BY <1>1, <1>2, PhaseObject
<1> QED BY <1>1, <1>3 DEF r

LEMMA ReabsorbingPhase ==
  ASSUME NEW g, Phase(g)
  PROVE  /\ Phase(Reabsorbing(g)) /\ Reabsorbing(g).out = -1 /\ Reabsorbing(g).v = g.v
         /\ BackToAbsorb(Object(g)) = Object(Reabsorbing(g))
<1>1. CASE g.out < 0
  BY <1>1 DEF Phase, Reabsorbing, BackToAbsorb, Object
<1>2. CASE ~(g.out < 0)
  <2> DEFINE s == CurrentState(g)
             chain == Append(s.chain, [round |-> 0, b |-> s.b])
             r == NewPhase(g.v, chain, FALSE)
  <2>1. g.v \in {"xof", "xofa"} /\ IsSequence(s.chain)
    BY PermutesNatural, StateLength DEF Phase, CurrentState
  <2>2. Reabsorbing(g) = r
    BY <1>2 DEF Reabsorbing
  <2> HIDE DEF s
  <2>3. IsSequence(chain) /\ ascon_permute(s, 0) = PhaseState(r, 0)
    BY <2>1, PhaseStarts, ZenonT(60)
  <2> HIDE DEF chain
  <2>4. Object(r) = [state |-> PhaseState(r, 0), count |-> 0, mode |-> 0] /\ Phase(r) /\ r.v = g.v /\ r.out = -1
    <3> DEFINE v == g.v
               sep == FALSE
    <3>1. v \in {"xof", "xofa"} /\ sep \in BOOLEAN /\ IsSequence(chain)
      BY <2>1, <2>3
    <3> HIDE DEF v, sep
    <3>2. LET n == NewPhase(v, chain, sep)
          IN  /\ Object(n) = [state |-> PhaseState(n, 0), count |-> 0, mode |-> 0]
              /\ Phase(n) /\ n.v = v /\ n.out = -1
      BY ONLY <3>1, NewObject
    <3> QED BY <3>2 DEF v, sep
  <2>5. BackToAbsorb(Object(g)) = [state |-> ascon_permute(s, 0), count |-> 0, mode |-> 0]
    BY <1>2 DEF BackToAbsorb, Object, s
  <2> QED BY <2>2, <2>3, <2>4, <2>5
<1> QED BY <1>1, <1>2

LEMMA Absorbs ==
  ASSUME NEW g, Phase(g), NEW in, IsSequence(in)
  PROVE  AbsorbCall(Object(g), in, Inner(g.v)) = Object(Longer(Reabsorbing(g), in))
<1> DEFINE x == Object(g)
           y == BackToAbsorb(x)
           r == Reabsorbing(g)
           round == Inner(g.v)
<1>1. Phase(r) /\ r.out = -1 /\ r.v = g.v /\ y = Object(r)
  BY ReabsorbingPhase
<1>2. BackToAbsorb(y) = y
  BY DEF BackToAbsorb
<1> HIDE DEF x, y, r
<1>3. AbsorbCall(y, in, round) = AbsorbCall(x, in, round)
  BY <1>2 DEF AbsorbCall, y
<1>4. AbsorbCall(Object(r), in, Inner(r.v)) = Object(Longer(r, in))
  BY <1>1, AbsorbsInput
<1> QED BY <1>1, <1>3, <1>4 DEF x, r

-----------------------------------------------------------------------------
(* Padding, and output. *)

LEMMA Padded ==
  ASSUME NEW g, Phase(g), g.out = -1, NEW k \in Nat, NEW c \in 0 .. RATE - 1,
         Len(g.in) = k * RATE + c
  PROVE  ascon_pad(PhaseState(g, k), c) = PhaseState(Delivering(g, 0), k)
<1> DEFINE h == Delivering(g, 0)
           m == k * RATE
           one == <<PadByte>>
<1>1. Phase(h) /\ h.v = g.v /\ h.base = g.base /\ h.sep = g.sep /\ h.out = 0 /\ h.in = g.in
  BY DeliveringPhase
<1>2. m \in Nat /\ Len(g.in) = m + c /\ RATE \in Nat \ {0} /\ c \in Nat
  BY WordSize
<1>3. Len(one) = 1 /\ one[1] = PadByte
  BY SingleSequence
<1>4. FullBlocks(g) = k /\ FullBlocks(h) = k
  <2>1. FullBlocks(g) = k
    BY PhaseObject
  <2> HIDE DEF h
  <2> QED BY <1>1, <2>1 DEF FullBlocks
<1> HIDE DEF h, m, one
<1>5. \A j \in 0 .. k - 1 : PhaseRound(g, j + 1) = PhaseRound(h, j + 1)
  BY <1>1, <1>4 DEF PhaseRound
<1>6. \A p \in Nat : /\ p # m + c + 1 => PhaseByte(g, p) = PhaseByte(h, p)
                     /\ p = m + c + 1 => PhaseByte(g, p) = {} /\ PhaseByte(h, p) = PadByte
  BY <1>1, <1>2 DEF PhaseByte
<1>7. \A p \in 1 .. m : PhaseByte(g, p) = PhaseByte(h, p)
  BY <1>2, <1>6
<1>8. ASSUME NEW i \in 0 .. RATE - 1
      PROVE  IF c <= i /\ i < c + Len(one)
             THEN PhaseByte(g, m + i + 1) = {} /\ PhaseByte(h, m + i + 1) = one[i - c + 1]
             ELSE PhaseByte(g, m + i + 1) = PhaseByte(h, m + i + 1)
  <2>1. CASE i = c
    <3>1. c <= i /\ i < c + Len(one) /\ i - c + 1 = 1 /\ m + i + 1 \in Nat /\ m + i + 1 = m + c + 1
      BY <1>2, <1>3, <2>1
    <3> QED BY <1>3, <1>6, <3>1
  <2>2. CASE i # c
    <3>1. ~(c <= i /\ i < c + Len(one)) /\ m + i + 1 \in Nat /\ m + i + 1 # m + c + 1
      BY <1>2, <1>3, <2>2
    <3> QED BY <1>6, <3>1
  <2> QED BY <2>1, <2>2
<1>9. ascon_add_bytes(PhaseState(g, k), one, c) = PhaseState(h, k)
  <2>1. Len(one) \in Nat /\ c + Len(one) <= RATE
    BY <1>2, <1>3
  <2>2. SameSoFar(h, g, k) /\ Extends(h, g, k, c, one)
    BY <1>5, <1>7, <1>8 DEF SameSoFar, Extends, m
  <2> QED BY <1>1, <1>2, <2>1, <2>2, AddedToBlock
<1> QED BY <1>9 DEF ascon_pad, h, one

\* Once output was asked for, how much of it does not change the states.
LEMMA StillDelivering ==
  ASSUME NEW g, Phase(g), g.out >= 0, NEW n \in Nat, NEW j \in Nat
  PROVE  /\ FullBlocks(Delivering(g, n)) = FullBlocks(g)
         /\ PhaseBlock(Delivering(g, n), j + 1) = PhaseBlock(g, j + 1)
         /\ PhaseState(Delivering(g, n), j) = PhaseState(g, j)
<1> DEFINE h == Delivering(g, n)
<1>1. Phase(h) /\ h.v = g.v /\ h.base = g.base /\ h.sep = g.sep /\ h.out = n /\ h.in = g.in
      /\ IsSequence(g.base) /\ IsSequence(h.base)
  BY DeliveringPhase DEF Phase
<1> HIDE DEF h
<1>2. FullBlocks(h) = FullBlocks(g)
  BY <1>1 DEF FullBlocks
<1>3. \A p : PhaseByte(h, p) = PhaseByte(g, p)
  BY <1>1 DEF PhaseByte
<1>4. \A k : PhaseRound(h, k) = PhaseRound(g, k)
  BY <1>1, <1>2 DEF PhaseRound
<1>5. PhaseBlock(h, j + 1) = PhaseBlock(g, j + 1)
  <2>1. \A i \in 0 .. RATE - 1 : PhaseByte(h, j * RATE + i + 1) = PhaseByte(g, j * RATE + i + 1)
    BY <1>3
  <2> QED BY <1>1, <2>1, SameBlock
<1>6. Entries(h, j) = Entries(g, j)
  <2>1. \A p \in 1 .. j * RATE : PhaseByte(h, p) = PhaseByte(g, p)
    BY <1>3
  <2>2. \A i \in 0 .. j - 1 : PhaseRound(h, i + 1) = PhaseRound(g, i + 1)
    BY <1>4
  <2> QED BY <1>1, <2>1, <2>2, SameEntries
<1>7. PhaseState(h, j) = PhaseState(g, j)
  BY <1>1, <1>5, <1>6, StateOfPhase
<1> QED BY <1>2, <1>5, <1>7 DEF h

\* The state of a phase j permutations after its input was padded.
At(g, j) == PhaseState(g, FullBlocks(g) + j)

\* n bytes of output from a place on.
Stream(g, from, n) == [j \in 1 .. n |-> StreamByte(g, from + j)]

LEMMA SqueezePermutes ==
  ASSUME NEW g, Phase(g), g.out >= 0, NEW j \in Nat,
         NEW round, round = IF j = 0 THEN 0 ELSE Inner(g.v)
  PROVE  ascon_permute(At(g, j), round) = At(g, j + 1)
<1> DEFINE p == FullBlocks(g)
           k == p + j
           m == (k + 1) * RATE
<1>1. p \in Nat /\ k \in Nat /\ k + 1 = p + j + 1 /\ k = p + j
  <2>1. p \in Nat
    BY PermutesNatural
  <2> HIDE DEF p
  <2> QED BY <2>1
<1>2. RATE \in Nat \ {0} /\ Len(g.in) \in Nat
  BY WordSize, SequenceLength DEF Phase
<1>3. Len(g.in) < m /\ m \in Nat
  <2>1. /\ p = Len(g.in) \div RATE
        /\ Len(g.in) % RATE \in 0 .. RATE - 1
        /\ Len(g.in) = (Len(g.in) \div RATE) * RATE + (Len(g.in) % RATE)
    BY <1>2, Division DEF FullBlocks
  <2> DEFINE r == Len(g.in) % RATE
  <2>2. Len(g.in) = p * RATE + r /\ r \in 0 .. RATE - 1
    BY <2>1
  <2> HIDE DEF p, r
  <2>3. m = p * RATE + j * RATE + RATE /\ p * RATE \in Nat /\ j * RATE \in Nat
    BY <1>1, <1>2
  <2> QED BY <1>2, <2>2, <2>3
<1>4. round = PhaseRound(g, k + 1)
  <2> HIDE DEF p
  <2>1. k + 1 = p + 1 <=> j = 0
    BY <1>1
  <2> QED BY <2>1 DEF PhaseRound, p
<1> HIDE DEF k, m
<1>5. \A i \in 0 .. RATE - 1 : PhaseByte(g, m + i + 1) = {}
  BY <1>2, <1>3 DEF PhaseByte
<1>6. ascon_permute(PhaseState(g, k), round) = PhaseState(g, k + 1)
  BY <1>1, <1>4, <1>5, PermuteNext DEF m
<1> QED BY <1>1, <1>6 DEF At

LEMMA StreamInBlock ==
  ASSUME NEW g, Phase(g), g.out >= 0, NEW a \in Nat, NEW r \in 0 .. RATE - 1
  PROVE  StreamByte(g, a * RATE + r + 1) = At(g, a + 1).b[r]
<1> DEFINE q == a * RATE + r
           p == FullBlocks(g)
<1>1. RATE \in Nat \ {0} /\ p \in Nat
  BY WordSize, PermutesNatural
<1>2. q \div RATE = a /\ q % RATE = r /\ q \in Nat
  BY <1>1, DivisionUnique
<1>3. q = a * RATE + r
  OBVIOUS
<1> HIDE DEF q, p
<1> DEFINE k == q + 1
<1>4. k - 1 = q
  BY <1>2
<1> HIDE DEF k
<1>5. StreamByte(g, k) = PhaseBlock(g, FullBlocks(g) + ((k - 1) \div RATE) + 2)[(k - 1) % RATE]
  BY ONLY DEF StreamByte
<1>6. StreamByte(g, q + 1) = PhaseBlock(g, p + a + 2)[r]
  <2>1. (k - 1) \div RATE = a /\ (k - 1) % RATE = r
    BY <1>2, <1>4
  <2> QED BY ONLY <1>5, <2>1 DEF p, k
<1>7. At(g, a + 1).b = PhaseBlock(g, p + (a + 1) + 1)
  BY StateOfPhase DEF At, p
<1>8. p + (a + 1) + 1 = p + a + 2
  BY <1>1
<1> QED BY <1>3, <1>6, <1>7, <1>8

LEMMA ExtractedStream ==
  ASSUME NEW g, Phase(g), g.out >= 0, NEW a \in Nat, NEW c \in Nat, NEW n \in Nat, c + n <= RATE
  PROVE  ascon_extract_bytes(At(g, a + 1), c, n) = Stream(g, a * RATE + c, n)
<1> DEFINE m == a * RATE
           s == At(g, a + 1)
<1>1. m \in Nat /\ RATE \in Nat
  BY WordSize
<1> HIDE DEF s
<1>2. ASSUME NEW j \in 1 .. n
      PROVE  s.b[c + j - 1] = StreamByte(g, m + c + j)
  <2> DEFINE r == c + j - 1
  <2>1. r \in 0 .. RATE - 1 /\ m + r + 1 = m + c + j
    BY <1>1
  <2> HIDE DEF r
  <2>2. StreamByte(g, m + r + 1) = s.b[r]
    BY <2>1, StreamInBlock DEF s
  <2> QED BY <2>1, <2>2 DEF r
<1> QED BY <1>2 DEF ascon_extract_bytes, Stream, s

LEMMA StreamSequence ==
  ASSUME NEW g, NEW f \in Nat, NEW n \in Nat
  PROVE  /\ IsSequence(Stream(g, f, n)) /\ Len(Stream(g, f, n)) = n
         /\ \A i \in 1 .. n : Stream(g, f, n)[i] = StreamByte(g, f + i)
<1> DEFINE s == Stream(g, f, n)
<1>1. s = [i \in 1 .. n |-> s[i]] /\ \A i \in 1 .. n : s[i] = StreamByte(g, f + i)
  BY DEF Stream
<1> HIDE DEF s
<1>2. IsSequence(s) /\ Len(s) = n
  BY ONLY <1>1, n \in Nat, FunctionSequence
<1> QED BY <1>1, <1>2 DEF s

LEMMA StreamJoined ==
  ASSUME NEW g, NEW f \in Nat, NEW m \in Nat, NEW n \in Nat
  PROVE  Stream(g, f, m) \o Stream(g, f + m, n) = Stream(g, f, m + n)
<1> DEFINE a == Stream(g, f, m)
           e == f + m
           l == m + n
           b == Stream(g, e, n)
           c == Stream(g, f, l)
           ab == a \o b
<1>1. e = f + m /\ l = m + n /\ e \in Nat /\ l \in Nat
  OBVIOUS
<1> HIDE DEF e, l
<1>2. /\ IsSequence(a) /\ Len(a) = m
      /\ \A i \in 1 .. m : a[i] = StreamByte(g, f + i)
  BY StreamSequence
<1>3. /\ IsSequence(b) /\ Len(b) = n
      /\ \A i \in 1 .. n : b[i] = StreamByte(g, e + i)
  BY <1>1, StreamSequence
<1>4. /\ IsSequence(c) /\ Len(c) = l
      /\ \A i \in 1 .. l : c[i] = StreamByte(g, f + i)
  BY <1>1, StreamSequence
<1> HIDE DEF a, b, c
<1>5. /\ IsSequence(ab) /\ Len(ab) = Len(a) + Len(b)
      /\ \A i \in 1 .. Len(a) : ab[i] = a[i]
      /\ \A i \in 1 .. Len(b) : ab[Len(a) + i] = b[i]
  <2>1. IsSequence(a) /\ IsSequence(b)
    BY <1>2, <1>3
  <2> QED BY ONLY <2>1, Concatenated, SMTT(30)
<1> HIDE DEF ab
<1>6. ASSUME NEW i \in 1 .. l PROVE ab[i] = c[i]
  <2>1. CASE i <= m
    BY <1>1, <1>2, <1>4, <1>5, <2>1
  <2>2. CASE i > m
    <3>1. i - m \in 1 .. n /\ m + (i - m) = i /\ e + (i - m) = f + i
      BY <1>1, <2>2
    <3>2. ab[m + (i - m)] = b[i - m]
      BY <1>2, <1>3, <1>5, <3>1
    <3> QED BY <1>3, <1>4, <3>1, <3>2
  <2> QED BY <1>1, <2>1, <2>2
<1>7. Len(ab) = l
  BY <1>1, <1>2, <1>3, <1>5
<1>8. ab = c
  BY <1>4, <1>5, <1>6, <1>7, SameSequence
<1> QED BY <1>8 DEF a, b, c, ab, e, l

-----------------------------------------------------------------------------
(* The loops over full blocks of output. *)

\* One permutation before each block.
LazyStep(r) ==
  [state |-> ascon_permute(r.state, 0),
   out   |-> r.out \o ascon_extract_bytes(ascon_permute(r.state, 0), 0, WORD)]

LazyLoop(s, n) ==
  LET after[k \in 0 .. n] ==
        IF k = 0 THEN [state |-> s, out |-> <<>>]
        ELSE LET r     == after[k - 1]
                 state == ascon_permute(r.state, 0)
             IN  [state |-> state,
                  out   |-> r.out \o ascon_extract_bytes(state, 0, WORD)]
  IN  after[n]

LEMMA LazyLoopFunction ==
  ASSUME NEW s, NEW n \in Nat, NEW w,
         w = [k \in 0 .. n |->
                IF k = 0 THEN [state |-> s, out |-> <<>>]
                ELSE LazyStep(w[k - 1])]
  PROVE  LazyLoop(s, n) = w[n]
<1> DEFINE Equation(f) ==
             f = [k \in 0 .. n |->
                    IF k = 0 THEN [state |-> s, out |-> <<>>]
                    ELSE LazyStep(f[k - 1])]
           f == CHOOSE x : Equation(x)
<1>1. LazyLoop(s, n) = f[n]
  BY DEF LazyLoop, LazyStep
<1>2. Equation(w)
  OBVIOUS
<1>3. Equation(f)
  <2> HIDE DEF Equation
  <2> QED BY <1>2
<1> HIDE DEF f
<1> DEFINE Bad == {k \in 0 .. n : f[k] # w[k]}
<1>4. Bad = {}
  <2> SUFFICES ASSUME Bad # {} PROVE FALSE
    OBVIOUS
  <2>1. Bad \in SUBSET Nat
    BY ONLY n \in Nat
  <2>2. PICK k \in Bad : \A y \in Bad : k <= y
    BY <2>1, LeastNumber
  <2>3. k \in 0 .. n /\ f[k] # w[k]
    OBVIOUS
  <2>4. CASE k = 0
    <3>1. f[k] = [state |-> s, out |-> <<>>]
      BY <1>3, <2>3, <2>4
    <3>2. w[k] = [state |-> s, out |-> <<>>]
      BY <1>2, <2>3, <2>4
    <3> QED BY <2>3, <3>1, <3>2
  <2>5. CASE k # 0
    <3>1. k - 1 \in 0 .. n /\ k - 1 \notin Bad
      <4>1. k - 1 \in 0 .. n /\ ~(k <= k - 1)
        BY ONLY <2>3, <2>5, n \in Nat
      <4> HIDE DEF Bad
      <4> QED BY <2>2, <4>1
    <3>2. f[k - 1] = w[k - 1]
      BY <3>1
    <3>3. f[k] = LazyStep(f[k - 1])
      BY <1>3, <2>3, <2>5
    <3>4. w[k] = LazyStep(w[k - 1])
      BY <1>2, <2>3, <2>5
    <3> QED BY <2>3, <3>2, <3>3, <3>4
  <2> QED BY <2>4, <2>5
<1>5. n \in 0 .. n
  OBVIOUS
<1> QED BY <1>1, <1>4, <1>5

\* One permutation after each block.
EagerStep(r) ==
  [state |-> ascon_permute(r.state, 4),
   out   |-> r.out \o ascon_extract_bytes(r.state, 0, WORD)]

EagerLoop(s, n) ==
  LET after[k \in 0 .. n] ==
        IF k = 0 THEN [state |-> s, out |-> <<>>]
        ELSE LET r == after[k - 1]
             IN  [state |-> ascon_permute(r.state, 4),
                  out   |-> r.out \o ascon_extract_bytes(r.state, 0, WORD)]
  IN  after[n]

LEMMA EagerLoopFunction ==
  ASSUME NEW s, NEW n \in Nat, NEW w,
         w = [k \in 0 .. n |->
                IF k = 0 THEN [state |-> s, out |-> <<>>]
                ELSE EagerStep(w[k - 1])]
  PROVE  EagerLoop(s, n) = w[n]
<1> DEFINE Equation(f) ==
             f = [k \in 0 .. n |->
                    IF k = 0 THEN [state |-> s, out |-> <<>>]
                    ELSE EagerStep(f[k - 1])]
           f == CHOOSE x : Equation(x)
<1>1. EagerLoop(s, n) = f[n]
  BY DEF EagerLoop, EagerStep
<1>2. Equation(w)
  OBVIOUS
<1>3. Equation(f)
  <2> HIDE DEF Equation
  <2> QED BY <1>2
<1> HIDE DEF f
<1> DEFINE Bad == {k \in 0 .. n : f[k] # w[k]}
<1>4. Bad = {}
  <2> SUFFICES ASSUME Bad # {} PROVE FALSE
    OBVIOUS
  <2>1. Bad \in SUBSET Nat
    BY ONLY n \in Nat
  <2>2. PICK k \in Bad : \A y \in Bad : k <= y
    BY <2>1, LeastNumber
  <2>3. k \in 0 .. n /\ f[k] # w[k]
    OBVIOUS
  <2>4. CASE k = 0
    <3>1. f[k] = [state |-> s, out |-> <<>>]
      BY <1>3, <2>3, <2>4
    <3>2. w[k] = [state |-> s, out |-> <<>>]
      BY <1>2, <2>3, <2>4
    <3> QED BY <2>3, <3>1, <3>2
  <2>5. CASE k # 0
    <3>1. k - 1 \in 0 .. n /\ k - 1 \notin Bad
      <4>1. k - 1 \in 0 .. n /\ ~(k <= k - 1)
        BY ONLY <2>3, <2>5, n \in Nat
      <4> HIDE DEF Bad
      <4> QED BY <2>2, <4>1
    <3>2. f[k - 1] = w[k - 1]
      BY <3>1
    <3>3. f[k] = EagerStep(f[k - 1])
      BY <1>3, <2>3, <2>5
    <3>4. w[k] = EagerStep(w[k - 1])
      BY <1>2, <2>3, <2>5
    <3> QED BY <2>3, <3>2, <3>3, <3>4
  <2> QED BY <2>4, <2>5
<1>5. n \in 0 .. n
  OBVIOUS
<1> QED BY <1>1, <1>4, <1>5

LEMMA SqueezeLoops ==
  ASSUME NEW s, NEW n
  PROVE  /\ X!BlocksSqueezed(s, n) = LazyLoop(s, n)
         /\ XA!BlocksSqueezed(s, n) = EagerLoop(s, n)
BY DEF LazyLoop, EagerLoop, X!BlocksSqueezed, XA!BlocksSqueezed,
       X!ASCON_XOF_RATE, XA!ASCON_XOF_RATE,
       X!ascon_permute, XA!ascon_permute, X!ascon_extract_bytes, XA!ascon_extract_bytes,
       X!Permuted, XA!Permuted, X!STATE_SIZE, XA!STATE_SIZE,
       ascon_permute, ascon_extract_bytes, Permuted, STATE_SIZE

LEMMA LazyBlocks ==
  ASSUME NEW g, Phase(g), g.out >= 0, g.v = "xof", NEW a \in Nat, NEW n \in Nat
  PROVE  LazyLoop(At(g, a), n) = [state |-> At(g, a + n), out |-> Stream(g, a * RATE, n * RATE)]
<1> DEFINE m == a * RATE
           R(j) == [state |-> At(g, a + j), out |-> Stream(g, m, j * RATE)]
           w == [j \in 0 .. n |-> R(j)]
           s == At(g, a)
<1>1. RATE \in Nat \ {0} /\ RATE = WORD /\ m \in Nat /\ m = a * RATE
  BY WordSize
<1> HIDE DEF m
<1>2. R(0) = [state |-> s, out |-> <<>>]
  <2>1. Stream(g, m, 0) = <<>>
    BY <1>1, StreamSequence, LengthZero
  <2>2. 0 * RATE = 0 /\ a + 0 = a
    BY <1>1
  <2> QED BY <2>1, <2>2
<1>3. ASSUME NEW j \in 0 .. n, j # 0
      PROVE  R(j) = LazyStep(R(j - 1))
  <2> DEFINE i == j - 1
             l == a + i
             f == i * RATE
             st == At(g, l)
             new == At(g, l + 1)
             d == ascon_extract_bytes(new, 0, RATE)
  <2>1. i \in Nat /\ l \in Nat /\ l + 1 = a + j /\ i + 1 = j
    BY ONLY j \in 0 .. n, j # 0, n \in Nat, a \in Nat
  <2>2. f \in Nat /\ j * RATE = f + RATE /\ m + f = (a + i) * RATE + 0
    BY <1>1, <2>1
  <2>3. ascon_permute(st, 0) = new
    <3> DEFINE round == 0
    <3>1. round = IF l = 0 THEN 0 ELSE Inner(g.v)
      BY <2>1 DEF Inner
    <3> HIDE DEF l, round
    <3>2. ascon_permute(At(g, l), round) = At(g, l + 1)
      BY <2>1, <3>1, SqueezePermutes
    <3> QED BY <3>2 DEF round
  <2>4. d = Stream(g, m + f, RATE)
    <3> DEFINE b == a + i
    <3>1. b \in Nat /\ 0 \in Nat /\ RATE \in Nat /\ 0 + RATE <= RATE /\ l + 1 = b + 1
      BY <1>1, <2>1
    <3> HIDE DEF b
    <3>2. ascon_extract_bytes(At(g, b + 1), 0, RATE) = Stream(g, b * RATE + 0, RATE)
      BY <3>1, ExtractedStream
    <3>3. b * RATE + 0 = m + f
      BY <2>2 DEF b
    <3> QED BY <3>1, <3>2, <3>3
  <2> HIDE DEF f
  <2>5. Stream(g, m, f) \o Stream(g, m + f, RATE) = Stream(g, m, f + RATE)
    <3>1. m \in Nat /\ f \in Nat /\ RATE \in Nat
      BY <1>1, <2>2
    <3> QED BY ONLY <3>1, StreamJoined, ZenonT(60)
  <2>6. R(j - 1) = [state |-> st, out |-> Stream(g, m, f)]
    BY DEF f
  <2>7. R(j) = [state |-> new, out |-> Stream(g, m, f + RATE)]
    BY <2>1, <2>2
  <2> HIDE DEF R, st, new
  <2>8. LazyStep(R(j - 1)) = [state |-> new, out |-> Stream(g, m, f) \o d]
    <3> DEFINE r == R(j - 1)
    <3>1. r.state = st /\ r.out = Stream(g, m, f) /\ WORD = RATE
      BY <1>1, <2>6
    <3> HIDE DEF r
    <3>2. LazyStep(r) = [state |-> new, out |-> Stream(g, m, f) \o d]
      BY ONLY <2>3, <3>1 DEF LazyStep
    <3> QED BY <3>2 DEF r
  <2> QED BY <2>4, <2>5, <2>7, <2>8
<1> HIDE DEF R
<1>4. w = [j \in 0 .. n |->
             IF j = 0 THEN [state |-> s, out |-> <<>>] ELSE LazyStep(w[j - 1])]
  <2>1. ASSUME NEW j \in 0 .. n
        PROVE  R(j) = IF j = 0 THEN [state |-> s, out |-> <<>>] ELSE LazyStep(w[j - 1])
    <3>1. CASE j = 0
      BY <1>2, <3>1
    <3>2. CASE j # 0
      <4>1. j - 1 \in 0 .. n
        BY <3>2
      <4>2. w[j - 1] = R(j - 1)
        BY <4>1
      <4> QED BY <1>3, <3>2, <4>2
    <3> QED BY <3>1, <3>2
  <2> QED BY <2>1
<1>5. w[n] = R(n)
  OBVIOUS
<1> HIDE DEF w, s
<1>6. LazyLoop(s, n) = w[n]
  BY ONLY <1>4, n \in Nat, LazyLoopFunction
<1> QED BY <1>5, <1>6 DEF R, s, m

LEMMA EagerBlocks ==
  ASSUME NEW g, Phase(g), g.out >= 0, g.v = "xofa", NEW a \in Nat, NEW n \in Nat
  PROVE  EagerLoop(At(g, (a + 1)), n) = [state |-> At(g, (a + 1) + n), out |-> Stream(g, a * RATE, n * RATE)]
<1> DEFINE m == a * RATE
           R(j) == [state |-> At(g, (a + 1) + j), out |-> Stream(g, m, j * RATE)]
           w == [j \in 0 .. n |-> R(j)]
           s == At(g, (a + 1))
<1>1. RATE \in Nat \ {0} /\ RATE = WORD /\ m \in Nat /\ m = a * RATE
  BY WordSize
<1> HIDE DEF m
<1>2. R(0) = [state |-> s, out |-> <<>>]
  <2>1. Stream(g, m, 0) = <<>>
    BY <1>1, StreamSequence, LengthZero
  <2>2. 0 * RATE = 0 /\ (a + 1) + 0 = (a + 1)
    BY <1>1
  <2> QED BY <2>1, <2>2
<1>3. ASSUME NEW j \in 0 .. n, j # 0
      PROVE  R(j) = EagerStep(R(j - 1))
  <2> DEFINE i == j - 1
             l == (a + 1) + i
             f == i * RATE
             st == At(g, l)
             new == At(g, l + 1)
             d == ascon_extract_bytes(st, 0, RATE)
  <2>1. i \in Nat /\ l \in Nat /\ l + 1 = (a + 1) + j /\ i + 1 = j
    BY ONLY j \in 0 .. n, j # 0, n \in Nat, a \in Nat
  <2>2. f \in Nat /\ j * RATE = f + RATE /\ m + f = (a + i) * RATE + 0
    BY <1>1, <2>1
  <2>3. ascon_permute(st, 4) = new
    <3> DEFINE round == 4
    <3>1. round = IF l = 0 THEN 0 ELSE Inner(g.v)
      BY <2>1 DEF Inner
    <3> HIDE DEF l, round
    <3>2. ascon_permute(At(g, l), round) = At(g, l + 1)
      BY <2>1, <3>1, SqueezePermutes
    <3> QED BY <3>2 DEF round
  <2>4. d = Stream(g, m + f, RATE)
    <3> DEFINE b == a + i
    <3>1. b \in Nat /\ 0 \in Nat /\ RATE \in Nat /\ 0 + RATE <= RATE /\ l = b + 1
      BY <1>1, <2>1
    <3> HIDE DEF b
    <3>2. ascon_extract_bytes(At(g, b + 1), 0, RATE) = Stream(g, b * RATE + 0, RATE)
      BY <3>1, ExtractedStream
    <3>3. b * RATE + 0 = m + f
      BY <2>2 DEF b
    <3> QED BY <3>1, <3>2, <3>3
  <2> HIDE DEF f
  <2>5. Stream(g, m, f) \o Stream(g, m + f, RATE) = Stream(g, m, f + RATE)
    <3>1. m \in Nat /\ f \in Nat /\ RATE \in Nat
      BY <1>1, <2>2
    <3> QED BY ONLY <3>1, StreamJoined, ZenonT(60)
  <2>6. R(j - 1) = [state |-> st, out |-> Stream(g, m, f)]
    BY DEF f
  <2>7. R(j) = [state |-> new, out |-> Stream(g, m, f + RATE)]
    BY <2>1, <2>2
  <2> HIDE DEF R, st, new
  <2>8. EagerStep(R(j - 1)) = [state |-> new, out |-> Stream(g, m, f) \o d]
    <3> DEFINE r == R(j - 1)
    <3>1. r.state = st /\ r.out = Stream(g, m, f) /\ WORD = RATE
      BY <1>1, <2>6
    <3> HIDE DEF r
    <3>2. EagerStep(r) = [state |-> new, out |-> Stream(g, m, f) \o d]
      BY ONLY <2>3, <3>1 DEF EagerStep
    <3> QED BY <3>2 DEF r
  <2> QED BY <2>4, <2>5, <2>7, <2>8
<1> HIDE DEF R
<1>4. w = [j \in 0 .. n |->
             IF j = 0 THEN [state |-> s, out |-> <<>>] ELSE EagerStep(w[j - 1])]
  <2>1. ASSUME NEW j \in 0 .. n
        PROVE  R(j) = IF j = 0 THEN [state |-> s, out |-> <<>>] ELSE EagerStep(w[j - 1])
    <3>1. CASE j = 0
      BY <1>2, <3>1
    <3>2. CASE j # 0
      <4>1. j - 1 \in 0 .. n
        BY <3>2
      <4>2. w[j - 1] = R(j - 1)
        BY <4>1
      <4> QED BY <1>3, <3>2, <4>2
    <3> QED BY <3>1, <3>2
  <2> QED BY <2>1
<1>5. w[n] = R(n)
  OBVIOUS
<1> HIDE DEF w, s
<1>6. EagerLoop(s, n) = w[n]
  BY ONLY <1>4, n \in Nat, EagerLoopFunction
<1> QED BY <1>5, <1>6 DEF R, s, m

-----------------------------------------------------------------------------
(* Whole calls of squeeze. *)

LazyAligned(x, outlen) ==
  LET blocks == outlen \div WORD
      rest   == outlen % WORD
      full   == LazyLoop(x.state, blocks)
      last   == ascon_permute(full.state, 0)
  IN  IF rest = 0 THEN [obj |-> [x EXCEPT !.state = full.state], out |-> full.out]
      ELSE [obj |-> [x EXCEPT !.state = last, !.count = rest],
            out |-> full.out \o ascon_extract_bytes(last, 0, rest)]

LazyEnter(x) ==
  IF x.mode = 1 THEN x
  ELSE [state |-> ascon_pad(x.state, x.count), count |-> 0, mode |-> 1]

LazyCall(obj, outlen) ==
  LET x    == LazyEnter(obj)
      left == WORD - x.count
      then == LazyAligned([x EXCEPT !.count = 0], outlen - left)
  IN  IF x.count = 0 THEN LazyAligned(x, outlen)
      ELSE IF left > outlen
      THEN [obj |-> [x EXCEPT !.count = @ + outlen],
            out |-> ascon_extract_bytes(x.state, x.count, outlen)]
      ELSE [obj |-> then.obj,
            out |-> ascon_extract_bytes(x.state, x.count, left) \o then.out]

EagerAligned(x, outlen) ==
  LET blocks == outlen \div WORD
      rest   == outlen % WORD
      full   == EagerLoop(x.state, blocks)
  IN  [obj |-> [x EXCEPT !.state = full.state, !.count = rest],
       out |-> full.out \o ascon_extract_bytes(full.state, 0, rest)]

EagerEnter(x) ==
  IF x.mode = 1 THEN x
  ELSE [state |-> ascon_permute(ascon_pad(x.state, x.count), 0), count |-> 0, mode |-> 1]

EagerCall(obj, outlen) ==
  LET x    == EagerEnter(obj)
      left == WORD - x.count
      then == EagerAligned([x EXCEPT !.state = ascon_permute(@, 4), !.count = 0], outlen - left)
  IN  IF x.count = 0 THEN EagerAligned(x, outlen)
      ELSE IF left > outlen
      THEN [obj |-> [x EXCEPT !.count = @ + outlen],
            out |-> ascon_extract_bytes(x.state, x.count, outlen)]
      ELSE [obj |-> then.obj,
            out |-> ascon_extract_bytes(x.state, x.count, left) \o then.out]

LEMMA SqueezeCalls ==
  ASSUME NEW x, NEW n
  PROVE  /\ X!ascon_xof_squeeze(x, n) = LazyCall(x, n)
         /\ XA!ascon_xofa_squeeze(x, n) = EagerCall(x, n)
BY DEF LazyCall, EagerCall, LazyEnter, EagerEnter, LazyAligned, EagerAligned, LazyLoop, EagerLoop,
       X!ascon_xof_squeeze, XA!ascon_xofa_squeeze, X!EnterSqueeze, XA!EnterSqueeze,
       X!SqueezeAligned, XA!SqueezeAligned, X!BlocksSqueezed, XA!BlocksSqueezed,
       X!ASCON_XOF_RATE, XA!ASCON_XOF_RATE, X!ascon_pad, XA!ascon_pad, ascon_pad,
       X!PadByte, XA!PadByte, PadByte,
       X!ascon_permute, XA!ascon_permute, X!ascon_extract_bytes, XA!ascon_extract_bytes,
       X!ascon_add_bytes, XA!ascon_add_bytes, X!Touched, XA!Touched, X!Xor, XA!Xor,
       X!Permuted, XA!Permuted, X!STATE_SIZE, XA!STATE_SIZE,
       ascon_permute, ascon_extract_bytes, ascon_add_bytes, Touched, Xor, Permuted, STATE_SIZE

LEMMA DeliveringObject ==
  ASSUME NEW g, Phase(g), NEW a \in Nat, NEW c \in 0 .. RATE - 1, g.out = a * RATE + c
  PROVE  Object(g) = [state |-> At(g, IF g.v = "xofa" \/ c # 0 THEN a + 1 ELSE a),
                      count |-> c, mode |-> 1]
<1> DEFINE n == a * RATE + c
           p == FullBlocks(g)
           l == IF g.v = "xofa" \/ c # 0 THEN a + 1 ELSE a
<1>1. RATE \in Nat \ {0} /\ a * RATE \in Nat /\ p \in Nat
  BY WordSize, PermutesNatural
<1>2. n \div RATE = a /\ n % RATE = c /\ n \in Nat
  BY <1>1, DivisionUnique
<1>3. CeilDiv(n, RATE) = IF c # 0 THEN a + 1 ELSE a
  <2> DEFINE b == a + 1
  <2>1. CASE c = 0
    <3>1. n + RATE - 1 = a * RATE + (RATE - 1) /\ RATE - 1 \in 0 .. RATE - 1
      BY <1>1, <2>1
    <3>2. (a * RATE + (RATE - 1)) \div RATE = a
      BY <1>1, <3>1, DivisionUnique
    <3> QED BY <2>1, <3>1, <3>2 DEF CeilDiv
  <2>2. CASE c # 0
    <3>1. n + RATE - 1 = b * RATE + (c - 1) /\ c - 1 \in 0 .. RATE - 1 /\ b \in Nat
      BY <1>1, <2>2
    <3> HIDE DEF b
    <3>2. (b * RATE + (c - 1)) \div RATE = b
      BY <1>1, <3>1, DivisionUnique
    <3> HIDE DEF n
    <3> QED BY <2>2, <3>1, <3>2 DEF CeilDiv, b
  <2> QED BY <2>1, <2>2
<1>4. g.out = n /\ ~(g.out < 0)
  BY <1>2
<1> HIDE DEF n, p
<1>5. PhasePermutes(g) = p + (IF Eager(g.v) THEN 1 + n \div RATE ELSE CeilDiv(n, RATE))
  BY <1>4 DEF PhasePermutes, p
<1>6. PhasePermutes(g) = p + l
  <2>1. 1 + n \div RATE = a + 1
    BY <1>2
  <2> QED BY <1>1, <1>3, <1>5, <2>1 DEF Eager
<1>7. CurrentState(g) = At(g, l)
  BY <1>6 DEF CurrentState, At, p
<1> HIDE DEF l
<1>8. Object(g) = [state |-> At(g, l), count |-> c, mode |-> 1]
  BY <1>2, <1>4, <1>7 DEF Object
<1> QED BY <1>8 DEF l

\* The phase once output was asked for, and how much of it came out.
Answering(g) == IF g.out < 0 THEN Delivering(g, 0) ELSE g

LEMMA AnsweringPhase ==
  ASSUME NEW g, Phase(g)
  PROVE  /\ Phase(Answering(g)) /\ Answering(g).out \in Nat /\ Answering(g).v = g.v
         /\ Answering(g).out = IF g.out < 0 THEN 0 ELSE g.out
         /\ \A n \in Nat : Delivering(Answering(g), n) = Delivering(g, n)
<1>1. CASE g.out < 0
  <2> DEFINE d == Delivering(g, 0)
  <2>1. Phase(d) /\ d.v = g.v /\ d.out = 0
    BY DeliveringPhase
  <2>2. Answering(g) = d
    BY <1>1 DEF Answering
  <2>3. \A n \in Nat : Delivering(d, n) = Delivering(g, n)
    BY DEF Delivering
  <2> HIDE DEF d
  <2> QED BY <1>1, <2>1, <2>2, <2>3
<1>2. CASE ~(g.out < 0)
  BY <1>2 DEF Answering, Phase
<1> QED BY <1>1, <1>2

LEMMA EnterSqueezes ==
  ASSUME NEW g, Phase(g)
  PROVE  /\ g.v = "xof" => LazyEnter(Object(g)) = Object(Answering(g))
         /\ g.v = "xofa" => EagerEnter(Object(g)) = Object(Answering(g))
<1>1. CASE ~(g.out < 0)
  BY <1>1 DEF Answering, LazyEnter, EagerEnter, Object
<1>2. CASE g.out < 0
  <2> DEFINE k == Len(g.in) \div RATE
             c == Len(g.in) % RATE
             d == Delivering(g, 0)
             s == PhaseState(g, k)
  <2>1. RATE \in Nat \ {0} /\ Len(g.in) \in Nat /\ g.out = -1
    BY <1>2, WordSize, SequenceLength DEF Phase
  <2>2. k \in Nat /\ c \in 0 .. RATE - 1 /\ Len(g.in) = k * RATE + c
    BY <2>1, Division
  <2> HIDE DEF k, c
  <2>3. Object(g) = [state |-> s, count |-> c, mode |-> 0] /\ FullBlocks(g) = k
    BY <2>1, <2>2, PhaseObject
  <2>4. ascon_pad(s, c) = PhaseState(d, k)
    BY <2>1, <2>2, Padded
  <2>5. Phase(d) /\ d.v = g.v /\ d.out = 0 /\ d.in = g.in
    BY DeliveringPhase
  <2>6. Answering(g) = d
    BY <1>2 DEF Answering
  <2> HIDE DEF d, s
  <2>7. FullBlocks(d) = k
    BY <2>3, <2>5 DEF FullBlocks
  <2>8. PhaseState(d, k) = At(d, 0)
    <3>1. k + 0 = k
      BY <2>2
    <3> QED BY <2>7, <3>1 DEF At
  <2>9. ascon_permute(At(d, 0), 0) = At(d, 1)
    <3> DEFINE j == 0
               round == 0
    <3>1. j \in Nat /\ round = (IF j = 0 THEN 0 ELSE Inner(d.v)) /\ d.out >= 0 /\ j + 1 = 1
      BY <2>5
    <3> HIDE DEF j, round
    <3>2. ascon_permute(At(d, j), round) = At(d, j + 1)
      BY <2>5, <3>1, SqueezePermutes
    <3> QED BY <3>1, <3>2 DEF j, round
  <2>10. Object(d) = [state |-> At(d, IF d.v = "xofa" THEN 1 ELSE 0), count |-> 0, mode |-> 1]
    <3> DEFINE a == 0
               e == 0
    <3>1. a \in Nat /\ e \in 0 .. RATE - 1 /\ d.out = a * RATE + e /\ e = 0 /\ a = 0
      BY <2>1, <2>5
    <3> HIDE DEF a, e
    <3>2. Object(d) = [state |-> At(d, IF d.v = "xofa" \/ e # 0 THEN a + 1 ELSE a), count |-> e, mode |-> 1]
      BY <2>5, <3>1, DeliveringObject
    <3> QED BY <3>1, <3>2
  <2>11. CASE g.v = "xof"
    <3>1. LazyEnter(Object(g)) = [state |-> ascon_pad(s, c), count |-> 0, mode |-> 1]
      BY <2>3 DEF LazyEnter
    <3> QED BY <2>4, <2>5, <2>6, <2>8, <2>10, <2>11, <3>1
  <2>12. CASE g.v = "xofa"
    <3>1. EagerEnter(Object(g)) = [state |-> ascon_permute(ascon_pad(s, c), 0), count |-> 0, mode |-> 1]
      BY <2>3 DEF EagerEnter
    <3> QED BY <2>4, <2>5, <2>6, <2>8, <2>9, <2>10, <2>12, <3>1
  <2> QED BY <2>11, <2>12
<1> QED BY <1>1, <1>2

\* Phase g and the same phase with more output are in the same states.
LEMMA MoreOutput ==
  ASSUME NEW g, Phase(g), g.out >= 0, NEW n \in Nat
  PROVE  LET h == Delivering(g, n)
         IN  /\ Phase(h) /\ h.v = g.v /\ h.out = n
             /\ \A j \in Nat : At(h, j) = At(g, j)
             /\ \A f \in Nat, m \in Nat : Stream(h, f, m) = Stream(g, f, m)
<1> DEFINE h == Delivering(g, n)
<1>1. Phase(h) /\ h.v = g.v /\ h.out = n
  BY DeliveringPhase
<1>2. FullBlocks(h) = FullBlocks(g) /\ FullBlocks(g) \in Nat
  BY StillDelivering, PermutesNatural
<1>3. ASSUME NEW j \in Nat PROVE At(h, j) = At(g, j)
  <2>1. FullBlocks(g) + j \in Nat
    BY <1>2
  <2>2. PhaseState(h, FullBlocks(g) + j) = PhaseState(g, FullBlocks(g) + j)
    BY <2>1, StillDelivering
  <2> HIDE DEF h
  <2> QED BY <1>2, <2>2 DEF At
<1> HIDE DEF h
<1>4. ASSUME NEW k \in Nat \ {0} PROVE StreamByte(h, k) = StreamByte(g, k)
  <2> DEFINE q == (k - 1) \div RATE
             r == (k - 1) % RATE
  <2>1. k - 1 \in Nat /\ RATE \in Nat \ {0}
    BY WordSize
  <2>2. q \in Nat /\ r \in 0 .. RATE - 1 /\ k - 1 = q * RATE + r
    BY <2>1, Division
  <2> HIDE DEF q, r
  <2>3. k = q * RATE + r + 1
    BY <2>1, <2>2
  <2>4. StreamByte(g, q * RATE + r + 1) = At(g, q + 1).b[r]
    BY <2>2, StreamInBlock
  <2>5. StreamByte(h, q * RATE + r + 1) = At(h, q + 1).b[r]
    BY <1>1, <2>2, StreamInBlock
  <2> QED BY <1>3, <2>2, <2>3, <2>4, <2>5
<1>5. ASSUME NEW f \in Nat, NEW m \in Nat PROVE Stream(h, f, m) = Stream(g, f, m)
  <2>1. \A j \in 1 .. m : f + j \in Nat \ {0}
    OBVIOUS
  <2>2. \A j \in 1 .. m : StreamByte(h, f + j) = StreamByte(g, f + j)
    BY <1>4, <2>1
  <2> QED BY <2>2 DEF Stream
<1> QED BY <1>1, <1>3, <1>5 DEF h

LEMMA NewCount ==
  ASSUME NEW s, NEW c, NEW m, NEW n
  PROVE  [[state |-> s, count |-> c, mode |-> m] EXCEPT !.count = n]
           = [state |-> s, count |-> n, mode |-> m]
OBVIOUS

LEMMA NewState ==
  ASSUME NEW s, NEW c, NEW m, NEW t
  PROVE  [[state |-> s, count |-> c, mode |-> m] EXCEPT !.state = t]
           = [state |-> t, count |-> c, mode |-> m]
OBVIOUS

LEMMA LazyRest ==
  ASSUME NEW g, Phase(g), g.out >= 0, g.v = "xof", NEW a \in Nat, NEW n \in Nat
  PROVE  LazyAligned([state |-> At(g, a), count |-> 0, mode |-> 1], n) =
           [obj |-> Object(Delivering(g, a * RATE + n)), out |-> Stream(g, a * RATE, n)]
<1> DEFINE q == n \div RATE
           r == n % RATE
           m == a * RATE
           l == a + q
           h == Delivering(g, m + n)
           s == At(g, a)
           full == At(g, a + q)
           x == [state |-> s, count |-> 0, mode |-> 1]
           most == Stream(g, m, q * RATE)
<1>1. RATE \in Nat \ {0} /\ RATE = WORD /\ m \in Nat
  BY WordSize
<1>2. q \in Nat /\ r \in 0 .. RATE - 1 /\ n = q * RATE + r
  BY <1>1, Division
<1>3. q = n \div WORD /\ r = n % WORD /\ m = a * RATE
  BY <1>1
<1> HIDE DEF q, r
<1>4. l \in Nat /\ q * RATE \in Nat /\ m + n = l * RATE + r /\ m + q * RATE = l * RATE
      /\ r \in Nat
  BY <1>1, <1>2
<1>5. LazyLoop(s, q) = [state |-> full, out |-> most]
  BY <1>2, LazyBlocks
<1> HIDE DEF m
<1>6. /\ Phase(h) /\ h.v = g.v /\ h.out = m + n
      /\ \A j \in Nat : At(h, j) = At(g, j)
  <2> DEFINE e == m + n
  <2>1. e \in Nat
    BY <1>1
  <2> HIDE DEF e
  <2>2. LET f == Delivering(g, e)
        IN  /\ Phase(f) /\ f.v = g.v /\ f.out = e
            /\ \A j \in Nat : At(f, j) = At(g, j)
    BY <2>1, MoreOutput
  <2> QED BY <2>2 DEF e
<1> HIDE DEF h
<1>7. Object(h) = [state |-> At(h, IF h.v = "xofa" \/ r # 0 THEN l + 1 ELSE l), count |-> r, mode |-> 1]
  <2>1. h.out = l * RATE + r
    BY <1>4, <1>6
  <2> HIDE DEF l
  <2> QED BY <1>2, <1>4, <1>6, <2>1, DeliveringObject
<1>8. Stream(g, m, n) = most \o Stream(g, l * RATE, r)
  <2> DEFINE f == q * RATE
  <2>1. f \in Nat /\ n = f + r /\ m + f = l * RATE
    BY <1>2, <1>4
  <2> HIDE DEF f, l
  <2>2. Stream(g, m, f) \o Stream(g, m + f, r) = Stream(g, m, f + r)
    <3>1. m \in Nat /\ f \in Nat /\ r \in Nat
      BY <1>1, <1>4, <2>1
    <3> QED BY ONLY <3>1, StreamJoined, ZenonT(60)
  <2> QED BY <2>1, <2>2 DEF f
<1>9. x.state = s
  OBVIOUS
<1>10. CASE r = 0
  <2>1. LazyAligned(x, n) = [obj |-> [x EXCEPT !.state = full], out |-> most]
    <3> HIDE DEF x, s, full, most
    <3> QED BY <1>3, <1>5, <1>9, <1>10 DEF LazyAligned
  <2>2. [x EXCEPT !.state = full] = [state |-> full, count |-> 0, mode |-> 1]
    BY NewState
  <2>3. full = At(h, l)
    BY <1>4, <1>6
  <2>4. most = Stream(g, m, n)
    <3>1. n = q * RATE
      BY <1>2, <1>4, <1>10
    <3> QED BY <3>1
  <2> HIDE DEF full, most, s
  <2>5. Object(h) = [state |-> full, count |-> 0, mode |-> 1]
    BY <1>6, <1>7, <1>10, <2>3
  <2>6. LazyAligned(x, n) = [obj |-> Object(h), out |-> Stream(g, m, n)]
    BY <2>1, <2>2, <2>4, <2>5
  <2> QED BY <2>6 DEF h, m, s
<1>11. CASE r # 0
  <2> DEFINE last == At(g, l + 1)
  <2>1. ascon_permute(full, 0) = last
    <3> DEFINE round == 0
    <3>1. round = IF l = 0 THEN 0 ELSE Inner(g.v)
      BY DEF Inner
    <3> HIDE DEF round
    <3>2. ascon_permute(At(g, l), round) = At(g, l + 1)
      BY <1>4, <3>1, SqueezePermutes
    <3> QED BY <3>2 DEF round
  <2>2. ascon_extract_bytes(last, 0, r) = Stream(g, l * RATE, r)
    <3>1. 0 \in Nat /\ 0 + r <= RATE /\ l * RATE + 0 = l * RATE
      BY <1>1, <1>2, <1>4
    <3> HIDE DEF l
    <3>2. ascon_extract_bytes(At(g, l + 1), 0, r) = Stream(g, l * RATE + 0, r)
      BY ONLY <1>4, <3>1, Phase(g), g.out >= 0, ExtractedStream
    <3> QED BY <3>1, <3>2
  <2>3. last = At(h, l + 1)
    BY <1>4, <1>6
  <2> HIDE DEF full, most, s, last
  <2>4. LazyAligned(x, n) = [obj |-> [x EXCEPT !.state = last, !.count = r],
                             out |-> most \o Stream(g, l * RATE, r)]
    <3> DEFINE f == LazyLoop(x.state, q)
    <3>1. f.state = full /\ f.out = most
      BY <1>5, <1>9
    <3> HIDE DEF x, f
    <3>2. LazyAligned(x, n) = [obj |-> [x EXCEPT !.state = ascon_permute(f.state, 0), !.count = r],
                   out |-> f.out \o ascon_extract_bytes(ascon_permute(f.state, 0), 0, r)]
      BY ONLY <1>3, <1>11 DEF LazyAligned, f
    <3>3. ascon_permute(f.state, 0) = last
      BY <2>1, <3>1
    <3> QED BY <2>2, <3>1, <3>2, <3>3
  <2>5. [x EXCEPT !.state = last, !.count = r] = [state |-> last, count |-> r, mode |-> 1]
    <3>1. Changed(x, last, r) = [state |-> last, count |-> r, mode |-> 1]
      BY OtherObject
    <3> HIDE DEF x
    <3> QED BY <3>1 DEF Changed
  <2>6. Object(h) = [state |-> last, count |-> r, mode |-> 1]
    BY <1>7, <1>11, <2>3
  <2>7. LazyAligned(x, n) = [obj |-> Object(h), out |-> Stream(g, m, n)]
    BY <1>8, <2>4, <2>5, <2>6
  <2> QED BY <2>7 DEF h, m, s
<1> QED BY <1>10, <1>11

LEMMA EagerRest ==
  ASSUME NEW g, Phase(g), g.out >= 0, g.v = "xofa", NEW a \in Nat, NEW n \in Nat
  PROVE  EagerAligned([state |-> At(g, (a + 1)), count |-> 0, mode |-> 1], n) =
           [obj |-> Object(Delivering(g, a * RATE + n)), out |-> Stream(g, a * RATE, n)]
<1> DEFINE q == n \div RATE
           r == n % RATE
           m == a * RATE
           l == a + q
           h == Delivering(g, m + n)
           s == At(g, (a + 1))
           full == At(g, (a + 1) + q)
           x == [state |-> s, count |-> 0, mode |-> 1]
           most == Stream(g, m, q * RATE)
<1>1. RATE \in Nat \ {0} /\ RATE = WORD /\ m \in Nat
  BY WordSize
<1>2. q \in Nat /\ r \in 0 .. RATE - 1 /\ n = q * RATE + r
  BY <1>1, Division
<1>3. q = n \div WORD /\ r = n % WORD /\ m = a * RATE
  BY <1>1
<1> HIDE DEF q, r
<1>4. l \in Nat /\ q * RATE \in Nat /\ m + n = l * RATE + r /\ m + q * RATE = l * RATE
      /\ r \in Nat
  BY <1>1, <1>2
<1>5. EagerLoop(s, q) = [state |-> full, out |-> most]
  BY <1>2, EagerBlocks
<1> HIDE DEF m
<1>6. /\ Phase(h) /\ h.v = g.v /\ h.out = m + n
      /\ \A j \in Nat : At(h, j) = At(g, j)
  <2> DEFINE e == m + n
  <2>1. e \in Nat
    BY <1>1
  <2> HIDE DEF e
  <2>2. LET f == Delivering(g, e)
        IN  /\ Phase(f) /\ f.v = g.v /\ f.out = e
            /\ \A j \in Nat : At(f, j) = At(g, j)
    BY <2>1, MoreOutput
  <2> QED BY <2>2 DEF e
<1> HIDE DEF h
<1>7. Object(h) = [state |-> At(h, IF h.v = "xofa" \/ r # 0 THEN l + 1 ELSE l), count |-> r, mode |-> 1]
  <2>1. h.out = l * RATE + r
    BY <1>4, <1>6
  <2> HIDE DEF l
  <2> QED BY <1>2, <1>4, <1>6, <2>1, DeliveringObject
<1>8. Stream(g, m, n) = most \o Stream(g, l * RATE, r)
  <2> DEFINE f == q * RATE
  <2>1. f \in Nat /\ n = f + r /\ m + f = l * RATE
    BY <1>2, <1>4
  <2> HIDE DEF f, l
  <2>2. Stream(g, m, f) \o Stream(g, m + f, r) = Stream(g, m, f + r)
    <3>1. m \in Nat /\ f \in Nat /\ r \in Nat
      BY <1>1, <1>4, <2>1
    <3> QED BY ONLY <3>1, StreamJoined, ZenonT(60)
  <2> QED BY <2>1, <2>2 DEF f
<1>9. x.state = s
  OBVIOUS
<1>10. ascon_extract_bytes(full, 0, r) = Stream(g, l * RATE, r)
  <2>1. 0 \in Nat /\ 0 + r <= RATE /\ l * RATE + 0 = l * RATE /\ (a + 1) + q = l + 1
    BY <1>1, <1>2, <1>4
  <2>2. full = At(g, l + 1)
    BY <2>1
  <2> HIDE DEF l
  <2>3. ascon_extract_bytes(At(g, l + 1), 0, r) = Stream(g, l * RATE + 0, r)
    BY ONLY <1>4, <2>1, Phase(g), g.out >= 0, ExtractedStream
  <2> QED BY <2>1, <2>2, <2>3
<1>11. full = At(h, l + 1)
  <2>1. (a + 1) + q = l + 1 /\ l + 1 \in Nat
    BY <1>2, <1>4
  <2> QED BY <1>6, <2>1
<1> HIDE DEF full, most, s
<1>12. EagerAligned(x, n) = [obj |-> [x EXCEPT !.state = full, !.count = r],
                             out |-> most \o Stream(g, l * RATE, r)]
  <2> DEFINE f == EagerLoop(x.state, q)
  <2>1. f.state = full /\ f.out = most
    BY <1>5, <1>9
  <2> HIDE DEF x, f
  <2>2. EagerAligned(x, n) = [obj |-> [x EXCEPT !.state = f.state, !.count = r],
                              out |-> f.out \o ascon_extract_bytes(f.state, 0, r)]
    BY ONLY <1>3 DEF EagerAligned, f
  <2> QED BY <1>10, <2>1, <2>2
<1>13. [x EXCEPT !.state = full, !.count = r] = [state |-> full, count |-> r, mode |-> 1]
  <2>1. Changed(x, full, r) = [state |-> full, count |-> r, mode |-> 1]
    BY OtherObject
  <2> HIDE DEF x
  <2> QED BY <2>1 DEF Changed
<1>14. Object(h) = [state |-> full, count |-> r, mode |-> 1]
  BY <1>6, <1>7, <1>11
<1>15. EagerAligned(x, n) = [obj |-> Object(h), out |-> Stream(g, m, n)]
  BY <1>8, <1>12, <1>13, <1>14
<1> QED BY <1>15 DEF h, m, s

LEMMA LazySqueezes ==
  ASSUME NEW g, Phase(g), g.v = "xof", NEW n \in Nat
  PROVE  LET d == Answering(g)
         IN  LazyCall(Object(g), n) =
               [obj |-> Object(Delivering(d, d.out + n)), out |-> Stream(d, d.out, n)]
<1> DEFINE d == Answering(g)
           a == d.out \div RATE
           c == d.out % RATE
           m == a * RATE
           x == LazyEnter(Object(g))
           h == Delivering(d, d.out + n)
           left == WORD - c
           b == a + 1
<1>1. RATE \in Nat \ {0} /\ RATE = WORD
  BY WordSize
<1>2. Phase(d) /\ d.out \in Nat /\ d.v = "xof" /\ d.out >= 0
  BY AnsweringPhase
<1>3. x = Object(d)
  BY EnterSqueezes
<1> HIDE DEF d, x
<1>4. a \in Nat /\ c \in 0 .. RATE - 1 /\ d.out = m + c
  BY <1>1, <1>2, Division
<1>5. m = a * RATE
  OBVIOUS
<1> HIDE DEF a, c
<1>6. m \in Nat /\ b \in Nat /\ b * RATE = m + RATE
  BY <1>1, <1>4
<1>7. x = [state |-> At(d, IF d.v = "xofa" \/ c # 0 THEN a + 1 ELSE a), count |-> c, mode |-> 1]
  BY <1>2, <1>3, <1>4, DeliveringObject
<1> HIDE DEF m
<1>8. x.count = c
  BY <1>7
<1>9. CASE c = 0
  <2>1. LazyCall(Object(g), n) = LazyAligned(x, n)
    BY <1>8, <1>9 DEF LazyCall, x
  <2>2. d.out = m /\ x = [state |-> At(d, a), count |-> 0, mode |-> 1]
    BY <1>2, <1>4, <1>6, <1>7, <1>9
  <2>3. LazyAligned([state |-> At(d, a), count |-> 0, mode |-> 1], n) =
           [obj |-> Object(Delivering(d, a * RATE + n)), out |-> Stream(d, a * RATE, n)]
    BY ONLY <1>2, <1>4, n \in Nat, LazyRest
  <2> QED BY <1>5, <2>1, <2>2, <2>3 DEF d
<1>10. CASE c # 0 /\ left > n
  <2> DEFINE s == At(d, b)
             e == c + n
  <2>1. x = [state |-> s, count |-> c, mode |-> 1]
    BY <1>7, <1>10
  <2>2. LazyCall(Object(g), n) = [obj |-> [x EXCEPT !.count = @ + n],
                                out |-> ascon_extract_bytes(x.state, c, n)]
    BY <1>8, <1>10 DEF LazyCall, x
  <2>3. e \in 0 .. RATE - 1 /\ c \in Nat /\ c + n <= RATE /\ e # 0 /\ d.out + n = m + e
    BY <1>1, <1>4, <1>6, <1>10
  <2>4. ascon_extract_bytes(s, c, n) = Stream(d, d.out, n)
    <3>1. ascon_extract_bytes(At(d, a + 1), c, n) = Stream(d, a * RATE + c, n)
      BY <1>2, <1>4, <2>3, ExtractedStream
    <3> QED BY <1>4, <1>5, <3>1
  <2> HIDE DEF e, b, h
  <2>5. Object(h) = [state |-> s, count |-> e, mode |-> 1]
    <3> DEFINE f == d.out + n
    <3>1. f \in Nat /\ f = a * RATE + e
      BY <1>2, <1>5, <2>3
    <3> HIDE DEF f
    <3>2. LET k == Delivering(d, f)
          IN  Phase(k) /\ k.v = d.v /\ k.out = f /\ \A j \in Nat : At(k, j) = At(d, j)
      BY <1>2, <3>1, MoreOutput
    <3>3. Phase(h) /\ h.v = d.v /\ h.out = f /\ \A j \in Nat : At(h, j) = At(d, j)
      BY <3>2 DEF h, f
    <3>4. h.out = a * RATE + e
      BY <3>1, <3>3
    <3>5. Object(h) = [state |-> At(h, IF h.v = "xofa" \/ e # 0 THEN a + 1 ELSE a), count |-> e, mode |-> 1]
      BY ONLY <1>4, <2>3, <3>3, <3>4, DeliveringObject
    <3> QED BY <1>6, <2>3, <3>3, <3>5 DEF b
  <2>6. [x EXCEPT !.count = @ + n] = [state |-> s, count |-> e, mode |-> 1]
    <3>1. [x EXCEPT !.count = @ + n] = [x EXCEPT !.count = e]
      BY <1>8 DEF e
    <3> HIDE DEF s
    <3>2. [[state |-> s, count |-> c, mode |-> 1] EXCEPT !.count = e] = [state |-> s, count |-> e, mode |-> 1]
      BY NewCount
    <3> QED BY <2>1, <3>1, <3>2
  <2>7. x.state = s
    BY <2>1
  <2> QED BY <2>2, <2>4, <2>5, <2>6, <2>7 DEF h, d
<1>11. CASE c # 0 /\ ~(left > n)
  <2> DEFINE s == At(d, b)
             y == [state |-> s, count |-> 0, mode |-> 1]
             t == n - left
             then == LazyAligned(y, t)
  <2>1. x = [state |-> s, count |-> c, mode |-> 1]
    BY <1>7, <1>11
  <2>2. left \in Nat /\ t \in Nat /\ c \in Nat /\ c + left = RATE /\ d.out + left = b * RATE
        /\ b * RATE + t = d.out + n /\ left + t = n
    BY <1>1, <1>2, <1>4, <1>6, <1>11
  <2>3. [x EXCEPT !.count = 0] = y
    <3> HIDE DEF s
    <3>1. [[state |-> s, count |-> c, mode |-> 1] EXCEPT !.count = 0] = [state |-> s, count |-> 0, mode |-> 1]
      BY NewCount
    <3> QED BY <2>1, <3>1
  <2>4. LazyCall(Object(g), n) = [obj |-> then.obj,
                                out |-> ascon_extract_bytes(x.state, c, left) \o then.out]
    <3> DEFINE z == [x EXCEPT !.count = 0]
    <3>1. LazyCall(Object(g), n) =
             [obj |-> LazyAligned(z, n - (WORD - x.count)).obj,
              out |-> ascon_extract_bytes(x.state, x.count, WORD - x.count) \o LazyAligned(z, n - (WORD - x.count)).out]
      BY <1>8, <1>11 DEF LazyCall, x
    <3>2. z = y
      BY <2>3
    <3> HIDE DEF y, z
    <3> QED BY <1>8, <3>1, <3>2
  <2>5. ascon_extract_bytes(s, c, left) = Stream(d, d.out, left)
    <3>1. c + left <= RATE
      BY <1>1, <2>2
    <3> HIDE DEF left
    <3>2. ascon_extract_bytes(At(d, a + 1), c, left) = Stream(d, a * RATE + c, left)
      BY <1>2, <1>4, <2>2, <3>1, ExtractedStream
    <3> QED BY <1>4, <1>5, <3>2
  <2> HIDE DEF b, t, left
  <2>6. then = [obj |-> Object(Delivering(d, b * RATE + t)), out |-> Stream(d, b * RATE, t)]
    BY ONLY <1>2, <1>6, <2>2, LazyRest
  <2>7. Stream(d, d.out, left) \o Stream(d, d.out + left, t) = Stream(d, d.out, left + t)
    <3>1. d.out \in Nat /\ left \in Nat /\ t \in Nat
      BY <1>2, <2>2
    <3> QED BY ONLY <3>1, StreamJoined
  <2>8. then.obj = Object(h) /\ then.out = Stream(d, d.out + left, t)
    BY <2>2, <2>6
  <2>9. x.state = s
    BY <2>1
  <2> HIDE DEF then, h, s
  <2>10. LazyCall(Object(g), n) = [obj |-> Object(h), out |-> Stream(d, d.out, n)]
    BY <2>2, <2>4, <2>5, <2>7, <2>8, <2>9
  <2> QED BY <2>10 DEF h, d
<1> QED BY <1>1, <1>4, <1>9, <1>10, <1>11

LEMMA EagerSqueezes ==
  ASSUME NEW g, Phase(g), g.v = "xofa", NEW n \in Nat
  PROVE  LET d == Answering(g)
         IN  EagerCall(Object(g), n) =
               [obj |-> Object(Delivering(d, d.out + n)), out |-> Stream(d, d.out, n)]
<1> DEFINE d == Answering(g)
           a == d.out \div RATE
           c == d.out % RATE
           m == a * RATE
           x == EagerEnter(Object(g))
           h == Delivering(d, d.out + n)
           left == WORD - c
           b == a + 1
<1>1. RATE \in Nat \ {0} /\ RATE = WORD
  BY WordSize
<1>2. Phase(d) /\ d.out \in Nat /\ d.v = "xofa" /\ d.out >= 0
  BY AnsweringPhase
<1>3. x = Object(d)
  BY EnterSqueezes
<1> HIDE DEF d, x
<1>4. a \in Nat /\ c \in 0 .. RATE - 1 /\ d.out = m + c
  BY <1>1, <1>2, Division
<1>5. m = a * RATE
  OBVIOUS
<1> HIDE DEF a, c
<1>6. m \in Nat /\ b \in Nat /\ b * RATE = m + RATE
  BY <1>1, <1>4
<1>7. x = [state |-> At(d, IF d.v = "xofa" \/ c # 0 THEN a + 1 ELSE a), count |-> c, mode |-> 1]
  BY <1>2, <1>3, <1>4, DeliveringObject
<1> HIDE DEF m
<1>8. x.count = c
  BY <1>7
<1>9. CASE c = 0
  <2>1. EagerCall(Object(g), n) = EagerAligned(x, n)
    BY <1>8, <1>9 DEF EagerCall, x
  <2>2. d.out = m /\ x = [state |-> At(d, (a + 1)), count |-> 0, mode |-> 1]
    BY <1>2, <1>4, <1>6, <1>7, <1>9
  <2>3. EagerAligned([state |-> At(d, (a + 1)), count |-> 0, mode |-> 1], n) =
           [obj |-> Object(Delivering(d, a * RATE + n)), out |-> Stream(d, a * RATE, n)]
    BY ONLY <1>2, <1>4, n \in Nat, EagerRest
  <2> QED BY <1>5, <2>1, <2>2, <2>3 DEF d
<1>10. CASE c # 0 /\ left > n
  <2> DEFINE s == At(d, b)
             e == c + n
  <2>1. x = [state |-> s, count |-> c, mode |-> 1]
    BY <1>7, <1>10
  <2>2. EagerCall(Object(g), n) = [obj |-> [x EXCEPT !.count = @ + n],
                                out |-> ascon_extract_bytes(x.state, c, n)]
    BY <1>8, <1>10 DEF EagerCall, x
  <2>3. e \in 0 .. RATE - 1 /\ c \in Nat /\ c + n <= RATE /\ e # 0 /\ d.out + n = m + e
    BY <1>1, <1>4, <1>6, <1>10
  <2>4. ascon_extract_bytes(s, c, n) = Stream(d, d.out, n)
    <3>1. ascon_extract_bytes(At(d, a + 1), c, n) = Stream(d, a * RATE + c, n)
      BY <1>2, <1>4, <2>3, ExtractedStream
    <3> QED BY <1>4, <1>5, <3>1
  <2> HIDE DEF e, b, h
  <2>5. Object(h) = [state |-> s, count |-> e, mode |-> 1]
    <3> DEFINE f == d.out + n
    <3>1. f \in Nat /\ f = a * RATE + e
      BY <1>2, <1>5, <2>3
    <3> HIDE DEF f
    <3>2. LET k == Delivering(d, f)
          IN  Phase(k) /\ k.v = d.v /\ k.out = f /\ \A j \in Nat : At(k, j) = At(d, j)
      BY <1>2, <3>1, MoreOutput
    <3>3. Phase(h) /\ h.v = d.v /\ h.out = f /\ \A j \in Nat : At(h, j) = At(d, j)
      BY <3>2 DEF h, f
    <3>4. h.out = a * RATE + e
      BY <3>1, <3>3
    <3>5. Object(h) = [state |-> At(h, IF h.v = "xofa" \/ e # 0 THEN a + 1 ELSE a), count |-> e, mode |-> 1]
      BY ONLY <1>4, <2>3, <3>3, <3>4, DeliveringObject
    <3> QED BY <1>6, <2>3, <3>3, <3>5 DEF b
  <2>6. [x EXCEPT !.count = @ + n] = [state |-> s, count |-> e, mode |-> 1]
    <3>1. [x EXCEPT !.count = @ + n] = [x EXCEPT !.count = e]
      BY <1>8 DEF e
    <3> HIDE DEF s
    <3>2. [[state |-> s, count |-> c, mode |-> 1] EXCEPT !.count = e] = [state |-> s, count |-> e, mode |-> 1]
      BY NewCount
    <3> QED BY <2>1, <3>1, <3>2
  <2>7. x.state = s
    BY <2>1
  <2> QED BY <2>2, <2>4, <2>5, <2>6, <2>7 DEF h, d
<1>11. CASE c # 0 /\ ~(left > n)
  <2> DEFINE s == At(d, b)
             y == [state |-> At(d, (b + 1)), count |-> 0, mode |-> 1]
             t == n - left
             then == EagerAligned(y, t)
  <2>1. x = [state |-> s, count |-> c, mode |-> 1]
    BY <1>7, <1>11
  <2>2. left \in Nat /\ t \in Nat /\ c \in Nat /\ c + left = RATE /\ d.out + left = b * RATE
        /\ b * RATE + t = d.out + n /\ left + t = n
    BY <1>1, <1>2, <1>4, <1>6, <1>11
  <2>3. [x EXCEPT !.state = ascon_permute(@, 4), !.count = 0] = y
    <3> DEFINE round == 4
    <3>1. round = IF b = 0 THEN 0 ELSE Inner(d.v)
      BY <1>2, <1>4 DEF Inner
    <3> HIDE DEF round, b
    <3>2. ascon_permute(At(d, b), round) = At(d, b + 1)
      BY <1>2, <1>6, <3>1, SqueezePermutes
    <3>3. ascon_permute(x.state, 4) = At(d, b + 1)
      BY <2>1, <3>2 DEF round
    <3> HIDE DEF s
    <3>4. Changed([state |-> s, count |-> c, mode |-> 1], At(d, b + 1), 0) = [state |-> At(d, b + 1), count |-> 0, mode |-> 1]
      BY OtherObject
    <3>5. [x EXCEPT !.state = ascon_permute(@, 4), !.count = 0] = Changed(x, At(d, b + 1), 0)
      BY <3>3 DEF Changed
    <3> QED BY <2>1, <3>4, <3>5
  <2>4. EagerCall(Object(g), n) = [obj |-> then.obj,
                                out |-> ascon_extract_bytes(x.state, c, left) \o then.out]
    <3> DEFINE z == [x EXCEPT !.state = ascon_permute(@, 4), !.count = 0]
    <3>1. EagerCall(Object(g), n) =
             [obj |-> EagerAligned(z, n - (WORD - x.count)).obj,
              out |-> ascon_extract_bytes(x.state, x.count, WORD - x.count) \o EagerAligned(z, n - (WORD - x.count)).out]
      BY <1>8, <1>11 DEF EagerCall, x
    <3>2. z = y
      BY <2>3
    <3> HIDE DEF y, z
    <3> QED BY <1>8, <3>1, <3>2
  <2>5. ascon_extract_bytes(s, c, left) = Stream(d, d.out, left)
    <3>1. c + left <= RATE
      BY <1>1, <2>2
    <3> HIDE DEF left
    <3>2. ascon_extract_bytes(At(d, a + 1), c, left) = Stream(d, a * RATE + c, left)
      BY <1>2, <1>4, <2>2, <3>1, ExtractedStream
    <3> QED BY <1>4, <1>5, <3>2
  <2> HIDE DEF b, t, left
  <2>6. then = [obj |-> Object(Delivering(d, b * RATE + t)), out |-> Stream(d, b * RATE, t)]
    BY ONLY <1>2, <1>6, <2>2, EagerRest
  <2>7. Stream(d, d.out, left) \o Stream(d, d.out + left, t) = Stream(d, d.out, left + t)
    <3>1. d.out \in Nat /\ left \in Nat /\ t \in Nat
      BY <1>2, <2>2
    <3> QED BY ONLY <3>1, StreamJoined
  <2>8. then.obj = Object(h) /\ then.out = Stream(d, d.out + left, t)
    BY <2>2, <2>6
  <2>9. x.state = s
    BY <2>1
  <2> HIDE DEF then, h, s
  <2>10. EagerCall(Object(g), n) = [obj |-> Object(h), out |-> Stream(d, d.out, n)]
    BY <2>2, <2>4, <2>5, <2>7, <2>8, <2>9
  <2> QED BY <2>10 DEF h, d
<1> QED BY <1>1, <1>4, <1>9, <1>10, <1>11

-----------------------------------------------------------------------------
(* Padding with zeroes, and customization strings. *)

PadCall(x, round) ==
  IF x.mode = 1 THEN AbsorbCall(x, <<>>, round)
  ELSE IF x.count # 0
  THEN [x EXCEPT !.state = ascon_permute(@, round), !.count = 0]
  ELSE x

CustomCall(x, custom, round) ==
  LET a == AbsorbCall(x, custom, round) IN
  IF custom = <<>> THEN x
  ELSE [a EXCEPT !.state = ascon_separator(ascon_permute(ascon_pad(@, a.count), round)),
                 !.count = 0]

LEMMA PadCalls ==
  ASSUME NEW x
  PROVE  X!ascon_xof_pad(x) = PadCall(x, 0) /\ XA!ascon_xofa_pad(x) = PadCall(x, 4)
<1>1. X!ascon_permute(x.state, 0) = ascon_permute(x.state, 0)
  BY DEF X!ascon_permute, ascon_permute, X!Permuted, Permuted, X!STATE_SIZE, STATE_SIZE
<1>2. XA!ascon_permute(x.state, 4) = ascon_permute(x.state, 4)
  BY DEF XA!ascon_permute, ascon_permute, XA!Permuted, Permuted, XA!STATE_SIZE, STATE_SIZE
<1>3. /\ X!ascon_xof_absorb(x, <<>>) = AbsorbCall(x, <<>>, 0)
      /\ XA!ascon_xofa_absorb(x, <<>>) = AbsorbCall(x, <<>>, 4)
  BY AbsorbCalls
<1> QED BY <1>1, <1>2, <1>3 DEF PadCall, X!ascon_xof_pad, XA!ascon_xofa_pad

LEMMA CustomCalls ==
  ASSUME NEW x, NEW custom
  PROVE  /\ X!ascon_xof_absorb_custom(x, custom) = CustomCall(x, custom, 0)
         /\ XA!ascon_xofa_absorb_custom(x, custom) = CustomCall(x, custom, 4)
<1>1. /\ X!ascon_xof_absorb(x, custom) = AbsorbCall(x, custom, 0)
      /\ XA!ascon_xofa_absorb(x, custom) = AbsorbCall(x, custom, 4)
  BY AbsorbCalls
<1>2. \A s, c : /\ X!ascon_separator(X!ascon_permute(X!ascon_pad(s, c), 0))
                     = ascon_separator(ascon_permute(ascon_pad(s, c), 0))
                /\ XA!ascon_separator(XA!ascon_permute(XA!ascon_pad(s, c), 4))
                     = ascon_separator(ascon_permute(ascon_pad(s, c), 4))
  BY DEF X!ascon_separator, XA!ascon_separator, X!ascon_pad, XA!ascon_pad, ascon_pad,
       X!PadByte, XA!PadByte, PadByte, X!SeparatorByte, XA!SeparatorByte, SeparatorByte,
       X!ascon_permute, XA!ascon_permute, X!ascon_add_bytes, XA!ascon_add_bytes,
       X!Touched, XA!Touched, X!Xor, XA!Xor, X!Permuted, XA!Permuted, X!STATE_SIZE, XA!STATE_SIZE,
       ascon_separator, ascon_permute, ascon_add_bytes, Touched, Xor, Permuted, STATE_SIZE
<1> QED BY <1>1, <1>2 DEF CustomCall, X!ascon_xof_absorb_custom, XA!ascon_xofa_absorb_custom

\* What is missing to the next multiple.
LEMMA Missing ==
  ASSUME NEW d \in Nat \ {0}, NEW k \in Nat, NEW c \in 0 .. d - 1
  PROVE  (-(k * d + c)) % d = IF c = 0 THEN 0 ELSE d - c
<1> DEFINE n == -(k * d + c)
           q == n \div d
           r == n % d
           e == -(q + k)
<1>1. k * d \in Nat /\ n \in Int
  OBVIOUS
<1>2. q \in Int /\ r \in 0 .. d - 1 /\ n = q * d + r
  BY <1>1
<1>3. n = -(k * d + c)
  OBVIOUS
<1> HIDE DEF n, q, r
<1>4. e \in Int /\ e * d = -(q * d) - (k * d) /\ q * d \in Int
  BY <1>2
<1>5. r + c = e * d
  BY <1>1, <1>2, <1>3, <1>4
<1> HIDE DEF e
<1>6. CASE e <= 0
  <2>1. e * d <= 0
    <3>1. (-e) * d \in Nat /\ (-e) * d = -(e * d) /\ e * d \in Int
      BY <1>4, <1>6
    <3> QED BY <3>1
  <2>2. r = 0 /\ c = 0
    BY <1>2, <1>5, <2>1
  <2> QED BY <2>2 DEF r, n
<1>7. CASE e = 1
  <2>1. e * d = d
    BY <1>7
  <2>2. r = d - c /\ c # 0
    BY <1>2, <1>5, <2>1
  <2> QED BY <2>2 DEF r, n
<1>8. CASE e >= 2
  <2>1. e - 2 \in Nat /\ (e - 2) * d \in Nat /\ e * d = (e - 2) * d + d + d
    BY <1>4, <1>8
  <2> QED BY <1>2, <1>5, <2>1
<1> QED BY <1>4, <1>6, <1>7, <1>8

\* Adding zeroes changes nothing.
LEMMA ZeroesAdded ==
  ASSUME NEW g, NEW k, NEW n \in Nat, NEW c \in Nat
  PROVE  ascon_add_bytes(PhaseState(g, k), [i \in 1 .. n |-> {}], c) = PhaseState(g, k)
<1> DEFINE z == [i \in 1 .. n |-> {}]
           bb == PhaseBlock(g, k + 1)
           e == g.base \o Entries(g, k)
<1>1. PhaseState(g, k) = [chain |-> e, b |-> bb]
  BY StateOfPhase
<1>2. bb = [i \in 0 .. STATE_SIZE - 1 |-> bb[i]]
  BY BlockFunction
<1>3. Len(z) = n /\ \A i \in 1 .. n : z[i] = {}
  <2>1. z = [i \in 1 .. n |-> z[i]]
    OBVIOUS
  <2>2. \A i \in 1 .. n : z[i] = {}
    OBVIOUS
  <2> HIDE DEF z
  <2>3. Len(z) = n
    BY ONLY <2>1, n \in Nat, FunctionSequence
  <2> QED BY <2>2, <2>3
<1> HIDE DEF z, bb, e
<1>4. ascon_add_bytes([chain |-> e, b |-> bb], z, c) = [chain |-> e, b |-> Added(bb, z, c)]
  BY ONLY <1>2, BytesAdded
<1>5. ASSUME NEW i \in 0 .. STATE_SIZE - 1
      PROVE  Added(bb, z, c)[i] = bb[i]
  <2>1. CASE c <= i /\ i < c + n
    <3>1. i - c + 1 \in 1 .. n
      BY WordSize, <2>1
    <3>2. Added(bb, z, c)[i] = Xor(bb[i], z[i - c + 1])
      BY <1>3, <2>1 DEF Added
    <3> QED BY <1>3, <3>1, <3>2, XorNothing
  <2>2. CASE ~(c <= i /\ i < c + n)
    BY <1>3, <2>2 DEF Added
  <2> QED BY <2>1, <2>2
<1>6. Added(bb, z, c) = [i \in 0 .. STATE_SIZE - 1 |-> Added(bb, z, c)[i]]
  BY DEF Added
<1>7. Added(bb, z, c) = bb
  BY ONLY <1>2, <1>5, <1>6
<1> QED BY <1>1, <1>4, <1>7 DEF z

Zeroed(g) == [g EXCEPT !.in = ZeroPadded(@)]

LEMMA Pads ==
  ASSUME NEW g, Phase(g)
  PROVE  /\ PadCall(Object(g), Inner(g.v)) = Object(Zeroed(Reabsorbing(g)))
         /\ Phase(Zeroed(Reabsorbing(g))) /\ Zeroed(Reabsorbing(g)).v = g.v
         /\ Zeroed(Reabsorbing(g)).out = -1
<1> DEFINE r == Reabsorbing(g)
           k == Len(r.in) \div RATE
           c == Len(r.in) % RATE
           m == (-Len(r.in)) % RATE
           z == [i \in 1 .. m |-> {}]
           h == Longer(r, z)
           round == Inner(g.v)
<1>1. Phase(r) /\ r.out = -1 /\ r.v = g.v /\ BackToAbsorb(Object(g)) = Object(r)
  BY ReabsorbingPhase
<1> HIDE DEF r
<1>2. RATE \in Nat \ {0} /\ Len(r.in) \in Nat
  BY <1>1, WordSize, SequenceLength DEF Phase
<1>3. k \in Nat /\ c \in 0 .. RATE - 1 /\ Len(r.in) = k * RATE + c
  BY <1>2, Division
<1> HIDE DEF k, c
<1>4. m = IF c = 0 THEN 0 ELSE RATE - c
  <2>1. (-(k * RATE + c)) % RATE = IF c = 0 THEN 0 ELSE RATE - c
    BY <1>2, <1>3, Missing
  <2>2. m = (-(k * RATE + c)) % RATE
    BY <1>3
  <2> HIDE DEF m
  <2> QED BY ONLY <2>1, <2>2
<1>5. Zeroed(r) = h
  BY DEF Zeroed, ZeroPadded, Longer
<1> HIDE DEF m
<1>6. m \in Nat
  BY <1>2, <1>3, <1>4
<1>7. IsSequence(z) /\ Len(z) = m
  <2>1. z = [i \in 1 .. m |-> z[i]]
    OBVIOUS
  <2> HIDE DEF z
  <2> QED BY ONLY <1>6, <2>1, FunctionSequence
<1>8. Phase(h) /\ h.v = g.v /\ h.out = -1
  <2> HIDE DEF z
  <2> QED BY <1>1, <1>7, LongerPhase
<1>9. Object(r) = [state |-> PhaseState(r, k), count |-> c, mode |-> 0]
  BY <1>1, <1>3, PhaseObject
<1>10. PadCall(Object(g), round) = Object(h)
  <2>1. CASE g.out >= 0
    <3>1. r.in = <<>>
      <4>1. ~(g.out < 0)
        BY <2>1 DEF Phase
      <4> QED BY <4>1 DEF r, Reabsorbing, NewPhase
    <3>2. m = 0
      <4>1. Len(r.in) = 0
        BY <3>1, EmptySequence
      <4>2. k * RATE \in Nat
        BY <1>2, <1>3
      <4>3. c = 0
        BY <1>3, <4>1, <4>2
      <4> QED BY <1>4, <4>3
    <3>3. z = <<>>
      <4> HIDE DEF z
      <4> QED BY <1>7, <3>2, LengthZero
    <3>4. PadCall(Object(g), round) = AbsorbCall(Object(g), <<>>, round)
      <4>1. Object(g).mode = 1
        BY <2>1 DEF Object, Phase
      <4> QED BY <4>1 DEF PadCall
    <3>5. AbsorbCall(Object(g), <<>>, round) = Object(Longer(Reabsorbing(g), <<>>))
      <4> DEFINE e == <<>>
      <4>1. IsSequence(e)
        BY EmptySequence
      <4> HIDE DEF e
      <4>2. AbsorbCall(Object(g), e, Inner(g.v)) = Object(Longer(Reabsorbing(g), e))
        BY <4>1, Absorbs
      <4> QED BY <4>2 DEF e
    <3> QED BY <3>3, <3>4, <3>5 DEF r
  <2>2. CASE g.out < 0
    <3>1. r = g
      BY <2>2 DEF r, Reabsorbing
    <3>2. CASE c = 0
      <4>1. z = <<>>
        <5> HIDE DEF z
        <5> QED BY <1>4, <1>7, <3>2, LengthZero
      <4>2. h = r
        BY <1>1, <4>1, LongerNothing
      <4>3. PadCall(Object(r), round) = Object(r)
        BY <1>9, <3>2 DEF PadCall
      <4> QED BY <3>1, <4>2, <4>3
    <3>3. CASE c # 0
      <4> DEFINE s == PhaseState(r, k)
                 n == k + 1
                 x == [state |-> s, count |-> c, mode |-> 0]
      <4>1. c \in Nat /\ c + Len(z) = RATE /\ n \in Nat
        BY <1>2, <1>3, <1>4, <1>7, <3>3
      <4>2. ascon_add_bytes(s, z, c) = s
        BY <1>6, <4>1, ZeroesAdded
      <4> HIDE DEF z
      <4>3. /\ ascon_permute(ascon_add_bytes(s, z, c), Inner(r.v)) = PhaseState(h, n)
            /\ Len(h.in) = n * RATE
        BY <1>1, <1>3, <1>7, <4>1, FillBlock
      <4> HIDE DEF h, n
      <4>4. Object(h) = [state |-> PhaseState(h, n), count |-> 0, mode |-> 0]
        <5> DEFINE e == 0
        <5>1. e \in 0 .. RATE - 1 /\ Len(h.in) = n * RATE + e
          BY <1>2, <4>1, <4>3
        <5> HIDE DEF e
        <5>2. Object(h) = [state |-> PhaseState(h, n), count |-> e, mode |-> 0]
          BY <1>8, <4>1, <5>1, PhaseObject
        <5> QED BY <5>2 DEF e
      <4>5. PadCall(x, round) = Changed(x, ascon_permute(s, round), 0)
        <5>1. x.mode = 0 /\ x.count = c /\ x.state = s
          OBVIOUS
        <5> HIDE DEF x
        <5> QED BY <3>3, <5>1 DEF PadCall, Changed
      <4>6. ascon_permute(s, round) = PhaseState(h, n)
        BY <1>1, <4>2, <4>3
      <4> HIDE DEF s
      <4>7. Changed(x, PhaseState(h, n), 0) = [state |-> PhaseState(h, n), count |-> 0, mode |-> 0]
        BY OtherObject
      <4> QED BY <1>9, <3>1, <4>4, <4>5, <4>6, <4>7 DEF s
    <3> QED BY <3>2, <3>3
  <2> QED BY <2>1, <2>2 DEF Phase
<1> QED BY <1>5, <1>8, <1>10 DEF r

LEMMA SeparatedPhase ==
  ASSUME NEW g, Phase(g), g.out = -1
  PROVE  LET last == PhaseState(Delivering(g, 0), FullBlocks(g))
         IN  /\ Separated(g) = NewPhase(g.v, Append(last.chain, [round |-> Inner(g.v), b |-> last.b]), TRUE)
             /\ IsSequence(last.chain)
             /\ IsSequence(Append(last.chain, [round |-> Inner(g.v), b |-> last.b]))
             /\ Phase(Separated(g)) /\ Separated(g).v = g.v /\ Separated(g).out = -1
<1> DEFINE d == Delivering(g, 0)
           last == PhaseState(d, FullBlocks(g))
           chain == Append(last.chain, [round |-> Inner(g.v), b |-> last.b])
<1>1. Phase(d) /\ FullBlocks(g) \in Nat /\ g.v \in {"xof", "xofa"}
  BY DeliveringPhase, PermutesNatural DEF Phase
<1>2. Separated(g) = NewPhase(g.v, chain, TRUE)
  BY DEF Separated, Delivering
<1> HIDE DEF d
<1>3. IsSequence(last.chain)
  BY <1>1, StateLength
<1> HIDE DEF last
<1>4. IsSequence(chain)
  BY <1>1, <1>3, PhaseStarts
<1> HIDE DEF chain
<1> DEFINE v == g.v
           sep == TRUE
<1>5. v \in {"xof", "xofa"} /\ sep \in BOOLEAN
  BY <1>1
<1> HIDE DEF v, sep
<1>6. LET n == NewPhase(v, chain, sep) IN Phase(n) /\ n.v = v /\ n.out = -1
  BY ONLY <1>4, <1>5, NewObject
<1>7. LET n == NewPhase(g.v, chain, TRUE) IN Phase(n) /\ n.v = g.v /\ n.out = -1
  BY <1>6 DEF v, sep
<1> QED BY <1>2, <1>3, <1>4, <1>7 DEF d, last, chain

LEMMA Separates ==
  ASSUME NEW g, Phase(g), g.out = -1, NEW custom, IsSequence(custom), custom # <<>>
  PROVE  CustomCall(Object(g), custom, Inner(g.v)) = Object(Separated(Longer(g, custom)))
<1> DEFINE h == Longer(g, custom)
           k == Len(h.in) \div RATE
           c == Len(h.in) % RATE
           d == Delivering(h, 0)
           last == PhaseState(d, k)
           e == [round |-> Inner(g.v), b |-> last.b]
           chain == Append(last.chain, e)
           s == PhaseState(h, k)
           new == NewPhase(g.v, chain, TRUE)
           round == Inner(g.v)
           x == Object(g)
<1>1. Phase(h) /\ h.v = g.v /\ h.out = -1
  BY LongerPhase
<1>2. AbsorbCall(x, custom, round) = Object(h)
  BY AbsorbsInput
<1> HIDE DEF h, x
<1>3. RATE \in Nat \ {0} /\ Len(h.in) \in Nat
  BY <1>1, WordSize, SequenceLength DEF Phase
<1>4. k \in Nat /\ c \in 0 .. RATE - 1 /\ Len(h.in) = k * RATE + c
  BY <1>3, Division
<1> HIDE DEF k, c
<1>5. Object(h) = [state |-> s, count |-> c, mode |-> 0] /\ FullBlocks(h) = k
  BY <1>1, <1>4, PhaseObject
<1>6. ascon_pad(s, c) = last
  BY <1>1, <1>4, Padded
<1>7. Separated(h) = new /\ IsSequence(last.chain) /\ IsSequence(chain)
  BY <1>1, <1>5, SeparatedPhase
<1>8. g.v \in {"xof", "xofa"}
  BY DEF Phase
<1> HIDE DEF last, d
<1>9. ascon_separator(ascon_permute(last, round)) = PhaseState(new, 0)
  BY <1>7, <1>8, PhaseStarts
<1>10. Object(new) = [state |-> PhaseState(new, 0), count |-> 0, mode |-> 0]
  <2> DEFINE v == g.v
             sep == TRUE
  <2>1. v \in {"xof", "xofa"} /\ sep \in BOOLEAN /\ IsSequence(chain)
    BY <1>7, <1>8
  <2> HIDE DEF v, sep, chain
  <2>2. LET n == NewPhase(v, chain, sep)
        IN  Object(n) = [state |-> PhaseState(n, 0), count |-> 0, mode |-> 0]
    BY ONLY <2>1, NewObject
  <2> QED BY <2>2 DEF v, sep
<1>11. CustomCall(x, custom, round) = Changed(Object(h), PhaseState(new, 0), 0)
  <2> DEFINE y == Object(h)
  <2>1. y.state = s /\ y.count = c /\ AbsorbCall(x, custom, round) = y
    BY <1>2, <1>5
  <2>2. ascon_separator(ascon_permute(ascon_pad(y.state, y.count), round)) = PhaseState(new, 0)
    BY <1>6, <1>9, <2>1
  <2> HIDE DEF y, s, new, round
  <2>3. CustomCall(x, custom, round) =
          [y EXCEPT !.state = ascon_separator(ascon_permute(ascon_pad(@, y.count), round)), !.count = 0]
    BY <2>1 DEF CustomCall
  <2>4. CustomCall(x, custom, round) = Changed(y, PhaseState(new, 0), 0)
    BY <2>2, <2>3 DEF Changed
  <2> QED BY <2>4 DEF y
<1> HIDE DEF new, s
<1>12. Changed([state |-> s, count |-> c, mode |-> 0], PhaseState(new, 0), 0)
         = [state |-> PhaseState(new, 0), count |-> 0, mode |-> 0]
  BY OtherObject
<1>13. CustomCall(x, custom, round) = Object(new)
  BY <1>5, <1>10, <1>11, <1>12
<1> QED BY <1>7, <1>13 DEF x, h

-----------------------------------------------------------------------------
(* Initialised objects. *)

EncodedLength(outlen) == IF outlen < MAX_OUTLEN THEN outlen ELSE 0

Word(outlen) == [i \in 1 .. WORD |-> {<<"iv", outlen, i>>}]

Block(name) ==
  [i \in 1 .. 4 * WORD |->
     IF Len(name) > 4 * WORD THEN {<<"hash", Len(name), i>>}
     ELSE IF i <= Len(name) THEN name[i] ELSE {}]

FixedStart(len) ==
  [state |-> ascon_permute(ascon_overwrite_bytes(ascon_init, Word(len), 0), 0), count |-> 0, mode |-> 0]

CustomStart(name, len) ==
  [state |-> ascon_permute(ascon_overwrite_bytes(
                 ascon_overwrite_bytes(ascon_init, Block(name), WORD), Word(len), 0), 0),
   count |-> 0, mode |-> 0]

LEMMA FixedStarts ==
  ASSUME NEW len
  PROVE  /\ X!Fresh(X!ascon_permute(X!ascon_overwrite_bytes(X!ascon_init, X!IvWord(len), 0), 0))
              = FixedStart(len)
         /\ XA!Fresh(XA!ascon_permute(XA!ascon_overwrite_bytes(XA!ascon_init, XA!IvWord(len), 0), 0))
              = FixedStart(len)
BY DEF FixedStart, Word, X!Fresh, XA!Fresh, X!IvWord, XA!IvWord, X!ascon_init, XA!ascon_init, ascon_init,
       X!ascon_permute, XA!ascon_permute, ascon_permute,
       X!ascon_overwrite_bytes, XA!ascon_overwrite_bytes, ascon_overwrite_bytes,
       X!Touched, XA!Touched, Touched, X!Permuted, XA!Permuted, Permuted,
       X!STATE_SIZE, XA!STATE_SIZE, STATE_SIZE

LEMMA FixedCalls ==
  ASSUME NEW outlen \in Nat
  PROVE  /\ X!ascon_xof_init_fixed(outlen) = FixedStart(EncodedLength(outlen))
         /\ XA!ascon_xofa_init_fixed(outlen) = FixedStart(EncodedLength(outlen))
<1> DEFINE e == EncodedLength(outlen)
<1>1. X!Encodable(outlen) = e /\ XA!Encodable(outlen) = e
  BY ObjectsAssumption DEF X!Encodable, XA!Encodable, EncodedLength
<1> HIDE DEF e
<1>2. /\ X!ascon_xof_init = FixedStart(0) /\ X!ascon_hash_init = FixedStart(X!ASCON_HASH_SIZE)
      /\ XA!ascon_xofa_init = FixedStart(0) /\ XA!ascon_hasha_init = FixedStart(XA!ASCON_HASHA_SIZE)
  BY FixedStarts DEF X!ascon_xof_init, X!ascon_hash_init, XA!ascon_xofa_init, XA!ascon_hasha_init
<1>3. X!ascon_xof_init_fixed(outlen) = FixedStart(e)
  BY <1>1, <1>2, FixedStarts DEF X!ascon_xof_init_fixed
<1>4. XA!ascon_xofa_init_fixed(outlen) = FixedStart(e)
  BY <1>1, <1>2, FixedStarts DEF XA!ascon_xofa_init_fixed
<1> QED BY <1>3, <1>4 DEF e

LEMMA CustomStarts ==
  ASSUME NEW name, NEW custom, NEW outlen \in Nat
  PROVE  /\ X!ascon_xof_init_custom(name, custom, outlen)
              = CustomCall(CustomStart(name, EncodedLength(outlen)), custom, 0)
         /\ XA!ascon_xofa_init_custom(name, custom, outlen)
              = CustomCall(CustomStart(name, EncodedLength(outlen)), custom, 4)
<1> DEFINE e == EncodedLength(outlen)
<1>1. X!Encodable(outlen) = e /\ XA!Encodable(outlen) = e
  BY ObjectsAssumption DEF X!Encodable, XA!Encodable, EncodedLength
<1> HIDE DEF e
<1>2. X!Fresh(X!ascon_permute(X!ascon_overwrite_bytes(X!ascon_overwrite_bytes(
          X!ascon_init, X!NameBlock(name), WORD), X!IvWord(e), 0), 0)) = CustomStart(name, e)
  BY DEF CustomStart, Word, Block, X!Fresh, X!IvWord, X!NameBlock, X!ASCON_HASH_SIZE,
       X!ascon_init, ascon_init, X!ascon_permute, ascon_permute,
       X!ascon_overwrite_bytes, ascon_overwrite_bytes,
       X!Touched, Touched, X!Permuted, Permuted, X!STATE_SIZE, STATE_SIZE
<1>3. XA!Fresh(XA!ascon_permute(XA!ascon_overwrite_bytes(XA!ascon_overwrite_bytes(
          XA!ascon_init, XA!NameBlock(name), WORD), XA!IvWord(e), 0), 0)) = CustomStart(name, e)
  BY DEF CustomStart, Word, Block, XA!Fresh, XA!IvWord, XA!NameBlock, XA!ASCON_HASHA_SIZE,
       XA!ascon_init, ascon_init, XA!ascon_permute, ascon_permute,
       XA!ascon_overwrite_bytes, ascon_overwrite_bytes,
       XA!Touched, Touched, XA!Permuted, Permuted, XA!STATE_SIZE, STATE_SIZE
<1>4. X!ascon_xof_init_custom(name, custom, outlen) = CustomCall(CustomStart(name, e), custom, 0)
  BY <1>1, <1>2, CustomCalls DEF X!ascon_xof_init_custom
<1>5. XA!ascon_xofa_init_custom(name, custom, outlen) = CustomCall(CustomStart(name, e), custom, 4)
  BY <1>1, <1>3, CustomCalls DEF XA!ascon_xofa_init_custom
<1> QED BY <1>4, <1>5 DEF e

Replaced(bb, data, offset) ==
  [i \in 0 .. STATE_SIZE - 1 |->
     IF offset <= i /\ i < offset + Len(data) THEN data[i - offset + 1] ELSE bb[i]]

LEMMA BytesReplaced ==
  ASSUME NEW c, NEW bb, bb = [i \in 0 .. STATE_SIZE - 1 |-> bb[i]],
         NEW data, NEW offset
  PROVE  ascon_overwrite_bytes([chain |-> c, b |-> bb], data, offset) =
           [chain |-> c, b |-> Replaced(bb, data, offset)]
<1> DEFINE s == [chain |-> c, b |-> bb]
           new == Replaced(bb, data, offset)
<1>1. DOMAIN bb = 0 .. STATE_SIZE - 1
  OBVIOUS
<1>2. [i \in DOMAIN bb |-> IF i \in Touched(offset, Len(data))
                           THEN data[i - offset + 1] ELSE bb[i]] = new
  BY <1>1 DEF Touched, Replaced
<1>3. ascon_overwrite_bytes(s, data, offset) =
        [s EXCEPT !.b = [i \in DOMAIN bb |-> IF i \in Touched(offset, Len(data))
                           THEN data[i - offset + 1] ELSE bb[i]]]
  BY DEF ascon_overwrite_bytes
<1>4. ascon_overwrite_bytes(s, data, offset) = [s EXCEPT !.b = new]
  BY <1>2, <1>3
<1> HIDE DEF new
<1>5. [s EXCEPT !.b = new] = [chain |-> c, b |-> new]
  BY OtherBytes
<1> QED BY <1>4, <1>5 DEF new

LEMMA StartBytes ==
  ASSUME NEW name \in Nat, NEW outlen \in Nat
  PROVE  LET e == EncodedLength(outlen)
             none == [i \in 0 .. STATE_SIZE - 1 |-> {}]
         IN  /\ Replaced(Replaced(none, Block(Name(name)), WORD), Word(e), 0) = StartBlock(name, outlen)
             /\ name = 0 => Replaced(none, Word(e), 0) = StartBlock(name, outlen)
<1> DEFINE e == EncodedLength(outlen)
           none == [i \in 0 .. STATE_SIZE - 1 |-> {}]
           w == Word(e)
           n == Name(name)
           k == Block(n)
           size == 4 * WORD
           with == Replaced(none, k, WORD)
           new == StartBlock(name, outlen)
<1>1. WORD \in Nat \ {0} /\ STATE_SIZE = 5 * WORD /\ size \in Nat /\ STATE_SIZE = WORD + size
      /\ HASH_SIZE = size
  BY WordSize DEF HASH_SIZE, X!ASCON_HASH_SIZE
<1>2. Len(n) = name /\ \A i \in 1 .. name : n[i] = {<<"name", 0, i>>}
  <2>1. n = [i \in 1 .. name |-> n[i]] /\ \A i \in 1 .. name : n[i] = {<<"name", 0, i>>}
    BY DEF Name
  <2> HIDE DEF n
  <2>2. Len(n) = name
    BY ONLY <2>1, name \in Nat, FunctionSequence
  <2> QED BY <2>1, <2>2
<1> HIDE DEF n
<1>3. Len(w) = WORD /\ \A i \in 1 .. WORD : w[i] = {<<"iv", e, i>>}
  <2>1. w = [i \in 1 .. WORD |-> w[i]] /\ \A i \in 1 .. WORD : w[i] = {<<"iv", e, i>>}
    BY DEF Word
  <2> HIDE DEF w
  <2>2. Len(w) = WORD
    BY ONLY <1>1, <2>1, FunctionSequence
  <2> QED BY <2>1, <2>2
<1> HIDE DEF w
<1>4. Len(k) = size
      /\ \A i \in 1 .. size : k[i] = IF name > size THEN {<<"hash", name, i>>}
                                     ELSE IF i <= name THEN {<<"name", 0, i>>} ELSE {}
  <2>1. k = [i \in 1 .. size |-> k[i]]
        /\ \A i \in 1 .. size : k[i] = IF Len(n) > size THEN {<<"hash", Len(n), i>>}
                                       ELSE IF i <= Len(n) THEN n[i] ELSE {}
    BY DEF Block
  <2> HIDE DEF k, size
  <2>2. Len(k) = size
    BY ONLY <1>1, <2>1, FunctionSequence
  <2>3. \A i \in 1 .. size : i <= name => n[i] = {<<"name", 0, i>>}
    BY <1>1, <1>2
  <2>4. \A i \in 1 .. size : k[i] = IF name > size THEN {<<"hash", name, i>>}
                                     ELSE IF i <= name THEN {<<"name", 0, i>>} ELSE {}
    BY <1>2, <2>1, <2>3
  <2> QED BY <2>2, <2>4
<1> HIDE DEF k, size, e
<1>5. ASSUME NEW i \in 0 .. STATE_SIZE - 1
      PROVE  new[i] = IF i < WORD THEN {<<"iv", e, i + 1>>}
                      ELSE IF name > size THEN {<<"hash", name, i - WORD + 1>>}
                      ELSE IF i - WORD < name THEN {<<"name", 0, i - WORD + 1>>} ELSE {}
  BY <1>1 DEF StartBlock, EncodedLength, e
<1> HIDE DEF new
<1>6. ASSUME NEW i \in 0 .. STATE_SIZE - 1
      PROVE  /\ Replaced(with, w, 0)[i] = new[i]
             /\ name = 0 => Replaced(none, w, 0)[i] = new[i]
  <2>1. CASE i < WORD
    <3>1. 0 <= i /\ i < 0 + Len(w) /\ i - 0 + 1 = i + 1 /\ i + 1 \in 1 .. WORD
      BY <1>1, <1>3, <2>1
    <3>2. Replaced(with, w, 0)[i] = w[i + 1] /\ Replaced(none, w, 0)[i] = w[i + 1]
      <4> HIDE DEF with, none
      <4> QED BY <3>1 DEF Replaced
    <3> QED BY <1>3, <1>5, <2>1, <3>1, <3>2
  <2>2. CASE ~(i < WORD)
    <3>1. ~(i < 0 + Len(w)) /\ WORD <= i /\ i < WORD + Len(k) /\ i - WORD + 1 \in 1 .. size
      BY <1>1, <1>3, <1>4, <2>2
    <3>2. Replaced(with, w, 0)[i] = with[i] /\ Replaced(none, w, 0)[i] = none[i]
      <4> HIDE DEF with, none
      <4> QED BY <3>1 DEF Replaced
    <3>3. with[i] = k[i - WORD + 1]
      BY <3>1 DEF Replaced
    <3>4. none[i] = {}
      OBVIOUS
    <3>5. (i - WORD + 1 <= name) <=> (i - WORD < name)
      BY <1>1
    <3> HIDE DEF with, none
    <3>6. with[i] = new[i]
      BY <1>4, <1>5, <2>2, <3>1, <3>3, <3>5
    <3>7. name = 0 => new[i] = {}
      <4> SUFFICES ASSUME name = 0 PROVE new[i] = {}
        OBVIOUS
      <4>1. ~(name > size) /\ ~(i - WORD < name)
        BY <1>1, <2>2
      <4> QED BY ONLY <1>5, <2>2, <4>1, i \in 0 .. STATE_SIZE - 1
    <3> QED BY <3>2, <3>4, <3>6, <3>7
  <2> QED BY <2>1, <2>2
<1>7. /\ Replaced(with, w, 0) = [i \in 0 .. STATE_SIZE - 1 |-> Replaced(with, w, 0)[i]]
      /\ Replaced(none, w, 0) = [i \in 0 .. STATE_SIZE - 1 |-> Replaced(none, w, 0)[i]]
      /\ new = [i \in 0 .. STATE_SIZE - 1 |-> new[i]]
  BY DEF Replaced, new, StartBlock
<1> HIDE DEF with, none
<1>8. Replaced(with, w, 0) = new
  BY ONLY <1>6, <1>7
<1>9. name = 0 => Replaced(none, w, 0) = new
  BY ONLY <1>6, <1>7
<1> QED BY <1>8, <1>9 DEF new, w, k, n, with, none, e

\* The phase that an object is initialised with, before any customization string.
StartPhase(v, name, outlen) ==
  NewPhase(v, <<[round |-> 0, b |-> StartBlock(name, outlen)]>>, FALSE)

LEMMA StartObject ==
  ASSUME NEW v \in {"xof", "xofa"}, NEW name \in Nat, NEW outlen \in Nat
  PROVE  /\ CustomStart(Name(name), EncodedLength(outlen)) = Object(StartPhase(v, name, outlen))
         /\ name = 0 => FixedStart(EncodedLength(outlen)) = Object(StartPhase(v, name, outlen))
         /\ Phase(StartPhase(v, name, outlen)) /\ StartPhase(v, name, outlen).v = v
         /\ StartPhase(v, name, outlen).out = -1 /\ StartPhase(v, name, outlen).in = <<>>
         /\ StartPhase(v, name, outlen).base = <<[round |-> 0, b |-> StartBlock(name, outlen)]>>
         /\ StartPhase(v, name, outlen).sep = FALSE
<1> DEFINE e == EncodedLength(outlen)
           none == [i \in 0 .. STATE_SIZE - 1 |-> {}]
           with == Replaced(none, Block(Name(name)), WORD)
           start0 == StartBlock(name, outlen)
           one == [round |-> 0, b |-> start0]
           s == [chain |-> <<>>, b |-> start0]
           g == StartPhase(v, name, outlen)
<1>1. ascon_init = [chain |-> <<>>, b |-> none]
  BY DEF ascon_init
<1>2. /\ Replaced(with, Word(e), 0) = start0
      /\ name = 0 => Replaced(none, Word(e), 0) = start0
  BY StartBytes
<1>3. none = [i \in 0 .. STATE_SIZE - 1 |-> none[i]] /\ with = [i \in 0 .. STATE_SIZE - 1 |-> with[i]]
  BY DEF Replaced
<1> DEFINE block == Block(Name(name))
           w == Word(e)
           empty == <<>>
<1>4. with = Replaced(none, block, WORD)
  OBVIOUS
<1> HIDE DEF none, with, block, w, empty, start0
<1>5. ascon_overwrite_bytes([chain |-> empty, b |-> none], block, WORD) = [chain |-> empty, b |-> with]
  <2>1. ascon_overwrite_bytes([chain |-> empty, b |-> none], block, WORD)
          = [chain |-> empty, b |-> Replaced(none, block, WORD)]
    BY ONLY <1>3, BytesReplaced
  <2> QED BY <1>4, <2>1
<1>6. ascon_overwrite_bytes([chain |-> empty, b |-> with], w, 0) = [chain |-> empty, b |-> start0]
  <2>1. ascon_overwrite_bytes([chain |-> empty, b |-> with], w, 0)
          = [chain |-> empty, b |-> Replaced(with, w, 0)]
    BY ONLY <1>3, BytesReplaced
  <2> QED BY <1>2, <2>1 DEF w
<1>7. name = 0 =>
        ascon_overwrite_bytes([chain |-> empty, b |-> none], w, 0) = [chain |-> empty, b |-> start0]
  <2>1. ascon_overwrite_bytes([chain |-> empty, b |-> none], w, 0)
          = [chain |-> empty, b |-> Replaced(none, w, 0)]
    BY ONLY <1>3, BytesReplaced
  <2> QED BY <1>2, <2>1 DEF w
<1>8. IsSequence(s.chain) /\ Append(s.chain, one) = <<one>>
  <2>1. s.chain = <<>>
    OBVIOUS
  <2> HIDE DEF one, s
  <2>2. Append(<<>>, one) = <<>> \o <<one>>
    BY EmptySequence, Appended
  <2>3. <<>> \o <<one>> = <<one>>
    BY SingleSequence, ConcatenatedEmpty
  <2> QED BY <2>1, <2>2, <2>3, EmptySequence
<1>9. IsSequence(<<one>>)
  BY SingleSequence
<1>10. ascon_permute(s, 0) = PhaseState(NewPhase(v, <<one>>, FALSE), 0)
  <2> DEFINE round == 0
             chain == Append(s.chain, [round |-> round, b |-> s.b])
  <2>1. chain = <<one>>
    BY <1>8
  <2>2. IsSequence(s.chain)
    BY <1>8
  <2> HIDE DEF s, round
  <2>3. ascon_permute(s, round) = PhaseState(NewPhase(v, chain, FALSE), 0)
    BY <2>2, PhaseStarts
  <2> HIDE DEF chain
  <2> QED BY <2>1, <2>3 DEF round
<1>11. g = NewPhase(v, <<one>>, FALSE)
  BY DEF StartPhase, start0
<1>12. /\ Object(g) = [state |-> PhaseState(g, 0), count |-> 0, mode |-> 0]
       /\ Phase(g) /\ g.v = v /\ g.out = -1 /\ g.in = <<>> /\ g.base = <<one>>
  <2> DEFINE chain == <<one>>
             sep == FALSE
  <2>1. sep \in BOOLEAN /\ IsSequence(chain)
    BY <1>9
  <2> HIDE DEF sep, chain
  <2>2. LET n == NewPhase(v, chain, sep)
        IN  /\ Object(n) = [state |-> PhaseState(n, 0), count |-> 0, mode |-> 0]
            /\ Phase(n) /\ n.v = v /\ n.base = chain
            /\ n.in = <<>> /\ n.out = -1
    BY ONLY <2>1, v \in {"xof", "xofa"}, NewObject
  <2> QED BY <1>11, <2>2 DEF chain, sep
<1>13. g.sep = FALSE
  BY <1>11 DEF NewPhase
<1> HIDE DEF g
<1>14. CustomStart(Name(name), e) = [state |-> ascon_permute(s, 0), count |-> 0, mode |-> 0]
  BY <1>1, <1>5, <1>6 DEF CustomStart, block, w, empty
<1>15. name = 0 => FixedStart(e) = [state |-> ascon_permute(s, 0), count |-> 0, mode |-> 0]
  BY <1>1, <1>7 DEF FixedStart, w, empty
<1> HIDE DEF s
<1> QED BY <1>10, <1>11, <1>12, <1>13, <1>14, <1>15 DEF g, one, start0

-----------------------------------------------------------------------------
(* What the list of permutations says about how the object was initialised. *)

SepAtom == <<"sep", 0, 0>>
PadAtom == <<"pad", 0, 0>>
LastByte == STATE_SIZE - 1

\* Block s - 1 ends a customization string of c bytes: it has its padding, and
\* the last of these bytes is in it or, if it fills a block, in the one before.
EndsCustom(base, s, c) ==
  LET r    == c % RATE
      byte == IF r > 0 THEN base[s - 1].b[r - 1] ELSE base[s - 2].b[RATE - 1]
  IN  /\ \A i \in 0 .. RATE - 1 : (PadAtom \in base[s - 1].b[i]) <=> (i = r)
      /\ \A n \in Nat : (<<"in", 0, n>> \in byte) <=> (n = c)
      /\ r = 0 => s >= 4

\* The separator is in one block, the one after the customization string.
CustomKept(base, sep, c) ==
  IF c = 0 THEN ~sep /\ \A m \in 2 .. Len(base) : SepAtom \notin base[m].b[LastByte]
  ELSE \E s \in 3 .. Len(base) + 1 :
          /\ sep <=> (s = Len(base) + 1)
          /\ \A m \in 2 .. Len(base) : (SepAtom \in base[m].b[LastByte]) <=> (m = s)
          /\ EndsCustom(base, s, c)

StartKept(g, p) ==
  /\ p = [name |-> p.name, custom |-> p.custom, outlen |-> p.outlen]
  /\ p.name \in Nat /\ p.custom \in Nat /\ p.outlen \in Nat
  /\ Len(g.base) >= 1
  /\ g.base[1] = [round |-> 0, b |-> StartBlock(p.name, p.outlen)]
  /\ Len(g.base) = 1 => g.sep = FALSE
  /\ CustomKept(g.base, g.sep, p.custom)

LEMMA SameStart ==
  ASSUME NEW g, NEW h, NEW p, StartKept(g, p), h.base = g.base, h.sep = g.sep
  PROVE  StartKept(h, p)
BY DEF StartKept

LEMMA SeparatorInBlock ==
  ASSUME NEW g, Phase(g), NEW k \in Nat
  PROVE  (SepAtom \in PhaseBlock(g, k + 1)[LastByte]) <=> (k = 0 /\ g.sep)
<1> DEFINE last == LastByte
           a == {<<"p", Len(g.base) + k, last>>}
<1>1. last \in 0 .. STATE_SIZE - 1 /\ ~(last < RATE) /\ last = STATE_SIZE - 1
  BY WordSize DEF LastByte
<1>2. IsSequence(g.base)
  BY DEF Phase
<1>3. PhaseBlock(g, k + 1) =
           [i \in 0 .. STATE_SIZE - 1 |->
              Xor(Xor({<<"p", Len(g.base) + k, i>>},
                      IF i < RATE THEN PhaseByte(g, k * RATE + i + 1) ELSE {}),
                  IF k = 0 /\ g.sep /\ i = STATE_SIZE - 1 THEN SeparatorByte ELSE {})]
  BY ONLY <1>2, k \in Nat, BlockBytes
<1> HIDE DEF last
<1>4. PhaseBlock(g, k + 1)[last] = Xor(Xor(a, {}), IF k = 0 /\ g.sep THEN SeparatorByte ELSE {})
  BY <1>1, <1>3
<1>5. Xor(a, {}) = a
  BY XorNothing
<1>6. SepAtom \notin a
  BY DEF SepAtom
<1>7. CASE k = 0 /\ g.sep
  <2>1. PhaseBlock(g, k + 1)[last] = Xor(a, SeparatorByte)
    BY <1>4, <1>5, <1>7
  <2>2. SepAtom \in SeparatorByte
    BY DEF SepAtom, SeparatorByte
  <2>3. SepAtom \in Xor(a, SeparatorByte)
    BY <1>6, <2>2 DEF Xor
  <2> QED BY <1>7, <2>1, <2>3 DEF last
<1>8. CASE ~(k = 0 /\ g.sep)
  <2>1. PhaseBlock(g, k + 1)[last] = a
    BY <1>4, <1>5, <1>8, XorNothing
  <2> QED BY <1>6, <1>8, <2>1 DEF last
<1> QED BY <1>7, <1>8

\* The list of permutations that a phase leaves to the next one.
ClosedBase(g, j, round) ==
  Append(PhaseState(g, j).chain, [round |-> round, b |-> PhaseState(g, j).b])

Closes(base, g, j) ==
  /\ IsSequence(base) /\ Len(base) = Len(g.base) + j + 1
  /\ \A m \in 1 .. Len(g.base) : base[m] = g.base[m]
  /\ \A k \in 0 .. j : base[Len(g.base) + k + 1].b = PhaseBlock(g, k + 1)

LEMMA ClosedPhase ==
  ASSUME NEW g, Phase(g), NEW j \in Nat, NEW round
  PROVE  Closes(ClosedBase(g, j, round), g, j)
<1> DEFINE chain == PhaseState(g, j).chain
           e == [round |-> round, b |-> PhaseState(g, j).b]
           base == Append(chain, e)
           l == Len(g.base)
<1>1. /\ IsSequence(chain) /\ Len(chain) = l + j
      /\ \A m \in 1 .. l : chain[m] = g.base[m]
      /\ \A k \in 1 .. j : chain[l + k] = Entry(g, k)
  BY StateLength
<1>2. l \in Nat
  BY SequenceLength DEF Phase
<1>3. e.b = PhaseBlock(g, j + 1)
  BY StateOfPhase
<1> HIDE DEF chain, e
<1>4. /\ IsSequence(base) /\ Len(base) = Len(chain) + 1
      /\ \A i \in 1 .. Len(chain) : base[i] = chain[i]
      /\ base[Len(chain) + 1] = e
  <2>1. IsSequence(chain)
    BY <1>1
  <2> QED BY ONLY <2>1, Appended, ZenonT(60)
<1> HIDE DEF base, l
<1>5. Len(base) = l + j + 1
  BY <1>1, <1>2, <1>4
<1>6. \A m \in 1 .. l : base[m] = g.base[m]
  BY <1>1, <1>2, <1>4
<1>7. ASSUME NEW k \in 0 .. j PROVE base[l + k + 1].b = PhaseBlock(g, k + 1)
  <2>1. CASE k < j
    <3>1. k + 1 \in 1 .. j /\ l + (k + 1) \in 1 .. Len(chain) /\ l + k + 1 = l + (k + 1)
      BY <1>1, <1>2, <2>1
    <3>2. base[l + k + 1] = Entry(g, k + 1)
      BY <1>1, <1>4, <3>1
    <3> QED BY <3>2 DEF Entry
  <2>2. CASE k = j
    <3>1. base[l + k + 1] = e
      BY <1>1, <1>2, <1>4, <2>2
    <3> QED BY <1>3, <2>2, <3>1
  <2> QED BY <2>1, <2>2
<1>8. ClosedBase(g, j, round) = base
  BY DEF ClosedBase, base, chain, e
<1> QED BY <1>4, <1>5, <1>6, <1>7, <1>8 DEF Closes, l

LEMMA ClosedStart ==
  ASSUME NEW g, Phase(g), NEW p, StartKept(g, p), NEW j \in Nat
  PROVE  LET base == ClosedBase(g, j, 0)
         IN  /\ IsSequence(base) /\ Len(base) >= 2
             /\ base[1] = [round |-> 0, b |-> StartBlock(p.name, p.outlen)]
             /\ CustomKept(base, FALSE, p.custom)
<1> DEFINE old == g.base
           l == Len(old)
           base == ClosedBase(g, j, 0)
           c == p.custom
<1>1. j \in Nat
  OBVIOUS
<1>2. /\ IsSequence(base) /\ Len(base) = l + j + 1
      /\ \A m \in 1 .. l : base[m] = old[m]
      /\ \A k \in 0 .. j : base[l + k + 1].b = PhaseBlock(g, k + 1)
  <2> DEFINE round == 0
  <2> HIDE DEF round
  <2>1. Closes(ClosedBase(g, j, round), g, j)
    BY ONLY Phase(g), <1>1, ClosedPhase
  <2> QED BY <2>1 DEF Closes, round
<1> HIDE DEF base
<1>3. l \in Nat /\ l >= 1 /\ c \in Nat
  BY SequenceLength DEF Phase, StartKept
<1>4. old[1] = [round |-> 0, b |-> StartBlock(p.name, p.outlen)] /\ CustomKept(old, g.sep, c)
  BY DEF StartKept
<1> HIDE DEF old, l, c
<1>5. base[1] = [round |-> 0, b |-> StartBlock(p.name, p.outlen)] /\ Len(base) >= 2
  BY <1>1, <1>2, <1>3, <1>4
<1>6. ASSUME NEW m \in 2 .. Len(base)
      PROVE  (SepAtom \in base[m].b[LastByte]) <=>
               IF m <= l THEN SepAtom \in old[m].b[LastByte] ELSE m = l + 1 /\ g.sep
  <2>1. CASE m <= l
    BY <1>2, <1>3, <2>1
  <2>2. CASE ~(m <= l)
    <3> DEFINE k == m - l - 1
    <3>1. k \in 0 .. j /\ k \in Nat /\ l + k + 1 = m /\ (k = 0 <=> m = l + 1)
      BY <1>1, <1>2, <1>3, <2>2
    <3> HIDE DEF k
    <3>2. base[m].b = PhaseBlock(g, k + 1)
      BY <1>2, <3>1
    <3>3. (SepAtom \in PhaseBlock(g, k + 1)[LastByte]) <=> (k = 0 /\ g.sep)
      BY <3>1, SeparatorInBlock
    <3> QED BY <2>2, <3>1, <3>2, <3>3
  <2> QED BY <2>1, <2>2
<1>7. CustomKept(base, FALSE, c)
  <2>1. CASE c = 0
    <3>1. ~g.sep /\ \A m \in 2 .. l : SepAtom \notin old[m].b[LastByte]
      BY <1>4, <2>1 DEF CustomKept, l
    <3>2. ASSUME NEW m \in 2 .. Len(base) PROVE SepAtom \notin base[m].b[LastByte]
      BY <1>3, <1>6, <3>1
    <3> QED BY <2>1, <3>2 DEF CustomKept
  <2>2. CASE c # 0
    <3>1. PICK s \in 3 .. l + 1 :
            /\ g.sep <=> (s = l + 1)
            /\ \A m \in 2 .. l : (SepAtom \in old[m].b[LastByte]) <=> (m = s)
            /\ EndsCustom(old, s, c)
      BY <1>4, <2>2 DEF CustomKept, l
    <3>2. s \in 3 .. Len(base) + 1 /\ s # Len(base) + 1 /\ s - 1 \in 1 .. l
      BY <1>1, <1>2, <1>3
    <3>3. ASSUME NEW m \in 2 .. Len(base)
          PROVE (SepAtom \in base[m].b[LastByte]) <=> (m = s)
      <4>1. CASE m <= l
        BY <1>3, <1>6, <3>1, <4>1
      <4>2. CASE ~(m <= l)
        <5>1. (SepAtom \in base[m].b[LastByte]) <=> (m = l + 1 /\ s = l + 1)
          BY <1>6, <3>1, <4>2
        <5>2. (m = l + 1 /\ s = l + 1) <=> (m = s)
          BY <1>3, <4>2
        <5> QED BY <5>1, <5>2
      <4> QED BY <4>1, <4>2
    <3>4. EndsCustom(base, s, c)
      <4>1. base[s - 1] = old[s - 1]
        BY <1>2, <3>2
      <4>2. s >= 4 => base[s - 2] = old[s - 2]
        <5>1. s >= 4 => s - 2 \in 1 .. l
          BY <1>3
        <5> QED BY <1>2, <5>1
      <4> DEFINE e == c % RATE
      <4>3. e \in Nat
        BY <1>3, WordSize, Division
      <4>4. /\ \A i \in 0 .. RATE - 1 : (PadAtom \in old[s - 1].b[i]) <=> (i = e)
            /\ \A n \in Nat : (<<"in", 0, n>> \in (IF e > 0 THEN old[s - 1].b[e - 1] ELSE old[s - 2].b[RATE - 1])) <=> (n = c)
            /\ e = 0 => s >= 4
        BY <3>1 DEF EndsCustom
      <4> HIDE DEF e
      <4>5. (IF e > 0 THEN old[s - 1].b[e - 1] ELSE old[s - 2].b[RATE - 1])
              = (IF e > 0 THEN base[s - 1].b[e - 1] ELSE base[s - 2].b[RATE - 1])
        BY <4>1, <4>2, <4>3, <4>4
      <4>6. /\ \A i \in 0 .. RATE - 1 : (PadAtom \in base[s - 1].b[i]) <=> (i = e)
            /\ \A n \in Nat : (<<"in", 0, n>> \in (IF e > 0 THEN base[s - 1].b[e - 1] ELSE base[s - 2].b[RATE - 1])) <=> (n = c)
        BY <4>1, <4>4, <4>5
      <4> QED BY <4>4, <4>6 DEF EndsCustom, e
    <3>5. FALSE <=> (s = Len(base) + 1)
      BY <3>2
    <3> QED BY <2>2, <3>2, <3>3, <3>4, <3>5 DEF CustomKept
  <2> QED BY <2>1, <2>2
<1> QED BY <1>2, <1>5, <1>7 DEF base, c

LEMMA ReabsorbingStart ==
  ASSUME NEW g, Phase(g), NEW p, StartKept(g, p)
  PROVE  StartKept(Reabsorbing(g), p)
<1>1. CASE g.out < 0
  BY <1>1 DEF Reabsorbing
<1>2. CASE ~(g.out < 0)
  <2> DEFINE j == PhasePermutes(g)
             base == ClosedBase(g, j, 0)
             r == Reabsorbing(g)
  <2>1. j \in Nat
    BY PermutesNatural
  <2>2. r.base = base /\ r.sep = FALSE
    BY <1>2 DEF Reabsorbing, NewPhase, CurrentState, ClosedBase
  <2> HIDE DEF j, r
  <2>3. /\ Len(base) >= 2 /\ CustomKept(base, FALSE, p.custom)
        /\ base[1] = [round |-> 0, b |-> StartBlock(p.name, p.outlen)]
    BY <2>1, ClosedStart
  <2> HIDE DEF base
  <2>4. CustomKept(r.base, r.sep, p.custom)
    BY <2>2, <2>3
  <2>5. /\ p = [name |-> p.name, custom |-> p.custom, outlen |-> p.outlen]
        /\ p.name \in Nat /\ p.custom \in Nat /\ p.outlen \in Nat
    BY DEF StartKept
  <2>6. /\ Len(r.base) >= 1 /\ (Len(r.base) = 1 => r.sep = FALSE)
        /\ r.base[1] = [round |-> 0, b |-> StartBlock(p.name, p.outlen)]
    BY <2>2, <2>3
  <2>7. StartKept(r, p)
    BY ONLY <2>4, <2>5, <2>6 DEF StartKept
  <2> QED BY <2>7 DEF r
<1> QED BY <1>1, <1>2

LEMMA ByteInBlock ==
  ASSUME NEW g, Phase(g), NEW k \in Nat, NEW i \in 0 .. RATE - 1
  PROVE  \A a : (a \in PhaseBlock(g, k + 1)[i]) <=>
           (a \in Xor({<<"p", Len(g.base) + k, i>>}, PhaseByte(g, k * RATE + i + 1)))
<1>1. i \in 0 .. STATE_SIZE - 1 /\ i < RATE /\ i # STATE_SIZE - 1
  BY WordSize
<1>2. IsSequence(g.base)
  BY DEF Phase
<1>3. PhaseBlock(g, k + 1) =
           [j \in 0 .. STATE_SIZE - 1 |->
              Xor(Xor({<<"p", Len(g.base) + k, j>>},
                      IF j < RATE THEN PhaseByte(g, k * RATE + j + 1) ELSE {}),
                  IF k = 0 /\ g.sep /\ j = STATE_SIZE - 1 THEN SeparatorByte ELSE {})]
  BY ONLY <1>2, k \in Nat, BlockBytes
<1> DEFINE byte == PhaseByte(g, k * RATE + i + 1)
           old == {<<"p", Len(g.base) + k, i>>}
<1>4. PhaseBlock(g, k + 1)[i] = Xor(Xor(old, byte), {})
  BY <1>1, <1>3
<1> HIDE DEF byte, old
<1>5. PhaseBlock(g, k + 1)[i] = Xor(old, byte)
  BY <1>4, XorNothing
<1> QED BY <1>5 DEF byte, old

\* The block that ends a string of n bytes shows its padding and its last byte.
LEMMA EndOfInput ==
  ASSUME NEW g, Phase(g), g.out = 0, NEW n \in Nat \ {0}, g.in = Input(n),
         NEW k \in Nat, NEW c \in 0 .. RATE - 1, n = k * RATE + c
  PROVE  /\ \A i \in 0 .. RATE - 1 : (PadAtom \in PhaseBlock(g, k + 1)[i]) <=> (i = c)
         /\ c > 0 => \A m \in Nat :
              (<<"in", 0, m>> \in PhaseBlock(g, k + 1)[c - 1]) <=> (m = n)
         /\ c = 0 => k >= 1 /\ \A m \in Nat :
              (<<"in", 0, m>> \in PhaseBlock(g, k)[RATE - 1]) <=> (m = n)
<1> DEFINE l == Len(g.base)
           q == k * RATE
<1>1. RATE \in Nat \ {0} /\ q \in Nat /\ n = q + c
  BY WordSize
<1>2. Len(g.in) = n /\ \A i \in 1 .. n : g.in[i] = {<<"in", 0, i>>}
  BY DEF Input
<1>3. ASSUME NEW i \in Nat PROVE PhaseByte(g, i + 1) =
        IF i < n THEN {<<"in", 0, i + 1>>} ELSE IF i = n THEN PadByte ELSE {}
  <2>1. /\ i + 1 <= n <=> i < n
        /\ i + 1 = n + 1 <=> i = n
        /\ i < n => i + 1 \in 1 .. n
    OBVIOUS
  <2>2. g.out >= 0
    OBVIOUS
  <2>3. PhaseByte(g, i + 1) = IF i + 1 <= n THEN g.in[i + 1] ELSE IF i + 1 = n + 1 THEN PadByte ELSE {}
    BY <1>2, <2>2 DEF PhaseByte
  <2> QED BY ONLY <1>2, <2>1, <2>3
<1>4. ASSUME NEW i \in 0 .. RATE - 1 PROVE (PadAtom \in PhaseBlock(g, k + 1)[i]) <=> (i = c)
  <2> DEFINE byte == PhaseByte(g, q + i + 1)
  <2>1. q + i \in Nat /\ (q + i < n <=> i < c) /\ (q + i = n <=> i = c)
    BY <1>1
  <2>2. byte = IF i < c THEN {<<"in", 0, q + i + 1>>} ELSE IF i = c THEN PadByte ELSE {}
    BY <1>3, <2>1
  <2>3. (PadAtom \in byte) <=> (i = c)
    BY <2>1, <2>2 DEF PadAtom, PadByte
  <2>4. (PadAtom \in PhaseBlock(g, k + 1)[i]) <=> (PadAtom \in Xor({<<"p", l + k, i>>}, byte))
    BY ByteInBlock
  <2> HIDE DEF byte
  <2>5. (PadAtom \in Xor({<<"p", l + k, i>>}, byte)) <=> (PadAtom \in byte)
    BY DEF Xor, PadAtom
  <2> QED BY <2>3, <2>4, <2>5
<1>5. ASSUME NEW j \in Nat, NEW i \in 0 .. RATE - 1, j * RATE + i + 1 = n, NEW m \in Nat
      PROVE (<<"in", 0, m>> \in PhaseBlock(g, j + 1)[i]) <=> (m = n)
  <2> DEFINE byte == PhaseByte(g, j * RATE + i + 1)
             w == j * RATE + i
  <2>1. w \in Nat /\ w < n /\ w + 1 = n /\ byte = PhaseByte(g, w + 1)
    <3>1. j * RATE \in Nat
      BY <1>1
    <3> QED BY <1>5, <3>1
  <2> HIDE DEF w
  <2>2. byte = {<<"in", 0, n>>}
    BY <1>3, <2>1
  <2>3. (<<"in", 0, m>> \in PhaseBlock(g, j + 1)[i]) <=>
          (<<"in", 0, m>> \in Xor({<<"p", l + j, i>>}, byte))
    BY ByteInBlock
  <2> HIDE DEF byte
  <2>4. (<<"in", 0, m>> \in Xor({<<"p", l + j, i>>}, byte)) <=> (m = n)
    BY <2>2 DEF Xor
  <2> QED BY <2>3, <2>4
<1>6. c > 0 => \A m \in Nat : (<<"in", 0, m>> \in PhaseBlock(g, k + 1)[c - 1]) <=> (m = n)
  <2>1. c > 0 => c - 1 \in 0 .. RATE - 1 /\ k * RATE + (c - 1) + 1 = n
    BY <1>1
  <2> QED BY <1>5, <2>1
<1>7. c = 0 => k >= 1 /\ \A m \in Nat :
        (<<"in", 0, m>> \in PhaseBlock(g, k)[RATE - 1]) <=> (m = n)
  <2> SUFFICES ASSUME c = 0
               PROVE  k >= 1 /\ \A m \in Nat :
                        (<<"in", 0, m>> \in PhaseBlock(g, k)[RATE - 1]) <=> (m = n)
    OBVIOUS
  <2>1. k # 0
    BY <1>1
  <2> DEFINE j == k - 1
  <2>2. j \in Nat /\ k = j + 1
    BY <2>1
  <2>3. k * RATE = j * RATE + RATE
    BY <1>1, <2>2
  <2> HIDE DEF j
  <2>4. RATE - 1 \in 0 .. RATE - 1 /\ j * RATE + (RATE - 1) + 1 = n
    <3>1. j * RATE \in Nat
      BY <1>1, <2>2
    <3> QED BY <1>1, <2>3, <3>1
  <2>5. \A m \in Nat : (<<"in", 0, m>> \in PhaseBlock(g, j + 1)[RATE - 1]) <=> (m = n)
    BY <1>5, <2>2, <2>4
  <2> QED BY <2>1, <2>2, <2>5
<1> QED BY <1>4, <1>6, <1>7

LEMMA InputSequence ==
  ASSUME NEW n \in Nat
  PROVE  IsSequence(Input(n)) /\ Len(Input(n)) = n /\ (n = 0 => Input(n) = <<>>)
           /\ <<>> \o Input(n) = Input(n)
<1>1. IsSequence(Input(n)) /\ Len(Input(n)) = n
  <2>1. Input(n) = [i \in 1 .. n |-> Input(n)[i]]
    BY DEF Input
  <2> QED BY <2>1, FunctionSequence
<1> QED BY <1>1, LengthZero, ConcatenatedEmpty

LEMMA SeparatedStart ==
  ASSUME NEW g, Phase(g), g.out = -1, g.in = <<>>,
         NEW p, StartKept(g, p), p.custom = 0, NEW n \in Nat \ {0}
  PROVE  StartKept(Separated(Longer(g, Input(n))), [p EXCEPT !.custom = n])
<1> DEFINE in == Input(n)
           h == Longer(g, in)
           d == Delivering(h, 0)
           k == n \div RATE
           c == n % RATE
           l == Len(g.base)
           old == g.base
           round == Inner(g.v)
           base == ClosedBase(d, k, round)
           new == Separated(h)
           s == Len(base) + 1
           q == [p EXCEPT !.custom = n]
<1>1. RATE \in Nat \ {0} /\ k \in Nat /\ c \in 0 .. RATE - 1 /\ n = k * RATE + c
  BY WordSize, Division
<1>2. IsSequence(in) /\ Len(in) = n /\ g.in \o in = in
  BY InputSequence
<1> HIDE DEF in
<1>3. Phase(h) /\ h.v = g.v /\ h.base = old /\ h.sep = g.sep /\ h.out = -1 /\ h.in = in
  BY <1>2, LongerPhase
<1> HIDE DEF h
<1>4. Phase(d) /\ d.v = g.v /\ d.base = old /\ d.sep = g.sep /\ d.out = 0 /\ d.in = in
  <2> DEFINE out == 0
             e == Delivering(h, out)
  <2>1. out \in Nat \cup {-1} /\ Phase(h)
    BY <1>3
  <2> HIDE DEF out
  <2>2. Phase(e) /\ e.v = h.v /\ e.base = h.base /\ e.sep = h.sep /\ e.out = out /\ e.in = h.in
    BY ONLY <2>1, DeliveringPhase
  <2>3. e = d /\ out = 0
    BY DEF out
  <2> HIDE DEF d, e
  <2> QED BY ONLY <1>3, <2>2, <2>3
<1>5. FullBlocks(h) = k
  BY <1>2, <1>3 DEF FullBlocks
<1>6. new.base = base /\ new.sep = TRUE
  <2>1. LET last == PhaseState(Delivering(h, 0), FullBlocks(h))
        IN  Separated(h) = NewPhase(h.v, Append(last.chain, [round |-> Inner(h.v), b |-> last.b]), TRUE)
    BY <1>3, SeparatedPhase
  <2>2. Separated(h) = NewPhase(g.v, base, TRUE)
    BY <1>3, <1>5, <2>1 DEF ClosedBase
  <2> QED BY <2>2 DEF NewPhase
<1> HIDE DEF d, k, c, round, new
<1>7. /\ IsSequence(base) /\ Len(base) = Len(d.base) + k + 1
      /\ \A m \in 1 .. Len(d.base) : base[m] = d.base[m]
      /\ \A i \in 0 .. k : base[Len(d.base) + i + 1].b = PhaseBlock(d, i + 1)
  <2>1. Phase(d) /\ k \in Nat
    BY <1>1, <1>4
  <2>2. Closes(base, d, k)
    BY ONLY <2>1, ClosedPhase
  <2> HIDE DEF base
  <2> QED BY <2>2 DEF Closes
<1> HIDE DEF base
<1>8. l \in Nat /\ l >= 1 /\ Len(base) = l + k + 1 /\ Len(base) \in Nat
  BY <1>1, <1>4, <1>7, SequenceLength DEF Phase, StartKept
<1>9. /\ old[1] = [round |-> 0, b |-> StartBlock(p.name, p.outlen)]
      /\ ~g.sep /\ \A m \in 2 .. l : SepAtom \notin old[m].b[LastByte]
  BY DEF StartKept, CustomKept
<1> HIDE DEF old, l
<1>10. Len(d.base) = l
  BY <1>4 DEF old, l
<1>11. base[1] = old[1]
  BY <1>4, <1>7, <1>8, <1>10
<1>12. ASSUME NEW m \in 2 .. Len(base) PROVE SepAtom \notin base[m].b[LastByte]
  <2>1. CASE m <= l
    <3>1. base[m] = old[m]
      BY <1>4, <1>7, <1>8, <1>10, <2>1
    <3> QED BY <1>8, <1>9, <2>1, <3>1
  <2>2. CASE ~(m <= l)
    <3> DEFINE i == m - l - 1
    <3>1. i \in 0 .. k /\ i \in Nat /\ l + i + 1 = m
      BY <1>1, <1>8, <2>2
    <3> HIDE DEF i
    <3>2. base[m].b = PhaseBlock(d, i + 1)
      BY <1>7, <1>10, <3>1
    <3>3. (SepAtom \in PhaseBlock(d, i + 1)[LastByte]) <=> (i = 0 /\ d.sep)
      BY <1>4, <3>1, SeparatorInBlock
    <3> QED BY <1>4, <1>9, <3>2, <3>3
  <2> QED BY <2>1, <2>2
<1>13. EndsCustom(base, s, n)
  <2>1. /\ \A i \in 0 .. RATE - 1 : (PadAtom \in PhaseBlock(d, k + 1)[i]) <=> (i = c)
        /\ c > 0 => \A m \in Nat :
             (<<"in", 0, m>> \in PhaseBlock(d, k + 1)[c - 1]) <=> (m = n)
        /\ c = 0 => k >= 1 /\ \A m \in Nat :
             (<<"in", 0, m>> \in PhaseBlock(d, k)[RATE - 1]) <=> (m = n)
    <3>1. d.in = Input(n)
      BY <1>4 DEF in
    <3>2. Phase(d) /\ d.out = 0 /\ n \in Nat \ {0} /\ k \in Nat /\ c \in 0 .. RATE - 1 /\ n = k * RATE + c
      BY <1>1, <1>4
    <3> QED BY ONLY <3>1, <3>2, EndOfInput
  <2>2. s - 1 = l + k + 1 /\ k \in 0 .. k
    BY <1>1, <1>8
  <2>3. base[s - 1].b = PhaseBlock(d, k + 1)
    BY <1>7, <1>10, <2>2
  <2>4. c = 0 => base[s - 2].b = PhaseBlock(d, k) /\ s >= 4
    <3> SUFFICES ASSUME c = 0 PROVE base[s - 2].b = PhaseBlock(d, k) /\ s >= 4
      OBVIOUS
    <3> DEFINE i == k - 1
    <3>1. i \in 0 .. k /\ i + 1 = k /\ l + i + 1 = s - 2 /\ s >= 4
      BY <1>1, <1>8, <2>1
    <3> HIDE DEF i, s
    <3>2. base[l + i + 1].b = PhaseBlock(d, i + 1)
      BY <1>7, <1>10, <3>1
    <3> QED BY <3>1, <3>2
  <2> HIDE DEF s
  <2>5. \A i \in 0 .. RATE - 1 : (PadAtom \in base[s - 1].b[i]) <=> (i = c)
    BY <2>1, <2>3
  <2>6. \A m \in Nat : (<<"in", 0, m>> \in
           (IF c > 0 THEN base[s - 1].b[c - 1] ELSE base[s - 2].b[RATE - 1])) <=> (m = n)
    <3>1. CASE c > 0
      <4>1. \A m \in Nat : (<<"in", 0, m>> \in base[s - 1].b[c - 1]) <=> (m = n)
        BY ONLY <2>1, <2>3, <3>1
      <4>2. (IF c > 0 THEN base[s - 1].b[c - 1] ELSE base[s - 2].b[RATE - 1]) = base[s - 1].b[c - 1]
        BY <3>1
      <4> QED BY ONLY <4>1, <4>2
    <3>2. CASE ~(c > 0)
      <4>1. c = 0
        BY <1>1, <3>2
      <4>2. \A m \in Nat : (<<"in", 0, m>> \in base[s - 2].b[RATE - 1]) <=> (m = n)
        BY ONLY <2>1, <2>4, <4>1
      <4>3. (IF c > 0 THEN base[s - 1].b[c - 1] ELSE base[s - 2].b[RATE - 1]) = base[s - 2].b[RATE - 1]
        BY <3>2
      <4> QED BY ONLY <4>2, <4>3
    <3> QED BY <3>1, <3>2
  <2> QED BY <2>4, <2>5, <2>6 DEF EndsCustom, c
<1>14. CustomKept(base, TRUE, n)
  <2>1. s \in 3 .. Len(base) + 1 /\ (TRUE <=> (s = Len(base) + 1))
    BY <1>1, <1>8
  <2>2. \A m \in 2 .. Len(base) : (SepAtom \in base[m].b[LastByte]) <=> (m = s)
    BY <1>8, <1>12
  <2> HIDE DEF s
  <2> QED BY <1>13, <2>1, <2>2 DEF CustomKept
<1>15. q = [name |-> p.name, custom |-> n, outlen |-> p.outlen] /\ p.name \in Nat /\ p.outlen \in Nat
  BY DEF StartKept
<1> HIDE DEF q
<1>16. CustomKept(new.base, new.sep, q.custom)
  BY <1>6, <1>14, <1>15
<1>17. /\ q = [name |-> q.name, custom |-> q.custom, outlen |-> q.outlen]
       /\ q.name \in Nat /\ q.custom \in Nat /\ q.outlen \in Nat
  BY <1>15
<1>18. /\ Len(new.base) >= 1 /\ (Len(new.base) = 1 => new.sep = FALSE)
       /\ new.base[1] = [round |-> 0, b |-> StartBlock(q.name, q.outlen)]
  BY <1>1, <1>6, <1>8, <1>9, <1>11, <1>15
<1>19. StartKept(new, q)
  BY ONLY <1>16, <1>17, <1>18 DEF StartKept
<1> QED BY <1>19 DEF new, q, h, in

LEMMA FreshStart ==
  ASSUME NEW v \in {"xof", "xofa"}, NEW name \in Nat, NEW outlen \in Nat
  PROVE  StartKept(StartPhase(v, name, outlen), [name |-> name, custom |-> 0, outlen |-> outlen])
<1> DEFINE g == StartPhase(v, name, outlen)
           p == [name |-> name, custom |-> 0, outlen |-> outlen]
           one == [round |-> 0, b |-> StartBlock(name, outlen)]
<1>1. g.base = <<one>> /\ g.sep = FALSE
  BY StartObject
<1> HIDE DEF g
<1>2. Len(g.base) = 1 /\ g.base[1] = one
  <2> HIDE DEF one
  <2> QED BY <1>1, SingleSequence
<1>3. CustomKept(g.base, g.sep, 0)
  BY <1>1, <1>2 DEF CustomKept
<1> QED BY <1>1, <1>2, <1>3 DEF StartKept, g

-----------------------------------------------------------------------------
(* What the program knows of an object, and that every call keeps it. *)

LEMMA VariantCalls ==
  ASSUME variant \in {"xof", "xofa"}
  PROVE  /\ \A x, in : Absorb(x, in) = AbsorbCall(x, in, Inner(variant))
         /\ \A x, c : AbsorbCustom(x, c) = CustomCall(x, c, Inner(variant))
         /\ \A x : Pad(x) = PadCall(x, Inner(variant))
         /\ \A x, n : Squeeze(x, n) = IF variant = "xof" THEN LazyCall(x, n) ELSE EagerCall(x, n)
         /\ \A outlen \in Nat : InitFixed(outlen) = FixedStart(EncodedLength(outlen))
         /\ \A name, c : \A outlen \in Nat : InitCustom(name, c, outlen)
              = CustomCall(CustomStart(name, EncodedLength(outlen)), c, Inner(variant))
<1>1. Inner(variant) = IF variant = "xof" THEN 0 ELSE 4
  BY DEF Inner
<1>2. ASSUME NEW x, NEW in PROVE Absorb(x, in) = AbsorbCall(x, in, Inner(variant))
  BY <1>1, AbsorbCalls DEF Absorb
<1>3. ASSUME NEW x, NEW c PROVE AbsorbCustom(x, c) = CustomCall(x, c, Inner(variant))
  BY <1>1, CustomCalls DEF AbsorbCustom
<1>4. ASSUME NEW x PROVE Pad(x) = PadCall(x, Inner(variant))
  BY <1>1, PadCalls DEF Pad
<1>5. ASSUME NEW x, NEW n
      PROVE  Squeeze(x, n) = IF variant = "xof" THEN LazyCall(x, n) ELSE EagerCall(x, n)
  BY SqueezeCalls DEF Squeeze
<1>6. ASSUME NEW outlen \in Nat PROVE InitFixed(outlen) = FixedStart(EncodedLength(outlen))
  BY FixedCalls DEF InitFixed
<1>7. ASSUME NEW name, NEW c, NEW outlen \in Nat
      PROVE  InitCustom(name, c, outlen)
               = CustomCall(CustomStart(name, EncodedLength(outlen)), c, Inner(variant))
  BY <1>1, CustomStarts DEF InitCustom
<1> QED BY <1>2, <1>3, <1>4, <1>5, <1>6, <1>7

\* Object x of variant v is in phase g, delivered out, and started with p.
Good(v, x, g, out, p) ==
  /\ Phase(g) /\ g.v = v /\ x = Object(g)
  /\ out = Stream(g, 0, Answering(g).out)
  /\ StartKept(g, p)

LEMMA NothingOut ==
  ASSUME NEW g, Phase(g), g.out = -1
  PROVE  Stream(g, 0, Answering(g).out) = <<>>
<1>1. Answering(g).out = 0
  BY AnsweringPhase
<1>2. IsSequence(Stream(g, 0, 0)) /\ Len(Stream(g, 0, 0)) = 0
  <2> DEFINE n == 0
  <2>1. n \in Nat
    OBVIOUS
  <2> HIDE DEF n
  <2>2. IsSequence(Stream(g, n, n)) /\ Len(Stream(g, n, n)) = n
    BY ONLY <2>1, StreamSequence
  <2> QED BY <2>2 DEF n
<1>3. Stream(g, 0, 0) = <<>>
  BY <1>2, LengthZero
<1> QED BY <1>1, <1>3

LEMMA AbsorbKeeps ==
  ASSUME NEW v, NEW x, NEW g, NEW out, NEW p, Good(v, x, g, out, p), NEW in, IsSequence(in)
  PROVE  Good(v, AbsorbCall(x, in, Inner(v)), Longer(Reabsorbing(g), in), <<>>, p)
<1> DEFINE r == Reabsorbing(g)
           h == Longer(r, in)
<1>1. Phase(g) /\ g.v = v /\ x = Object(g) /\ StartKept(g, p)
  BY DEF Good
<1>2. Phase(r) /\ r.out = -1 /\ r.v = v
  BY <1>1, ReabsorbingPhase
<1>3. StartKept(r, p)
  BY <1>1, ReabsorbingStart
<1>4. AbsorbCall(x, in, Inner(v)) = Object(h)
  BY <1>1, Absorbs
<1> HIDE DEF r
<1>5. Phase(h) /\ h.v = v /\ h.out = -1 /\ h.base = r.base /\ h.sep = r.sep
  BY <1>2, LongerPhase
<1> HIDE DEF h
<1>6. StartKept(h, p)
  BY <1>3, <1>5, SameStart
<1>7. Stream(h, 0, Answering(h).out) = <<>>
  BY <1>5, NothingOut
<1>8. Good(v, Object(h), h, <<>>, p)
  BY <1>5, <1>6, <1>7 DEF Good
<1> QED BY <1>4, <1>8 DEF h, r

LEMMA PadKeeps ==
  ASSUME NEW v, NEW x, NEW g, NEW out, NEW p, Good(v, x, g, out, p)
  PROVE  Good(v, PadCall(x, Inner(v)), Zeroed(Reabsorbing(g)), <<>>, p)
<1> DEFINE r == Reabsorbing(g)
           h == Zeroed(r)
<1>1. Phase(g) /\ g.v = v /\ x = Object(g) /\ StartKept(g, p)
  BY DEF Good
<1>2. PadCall(x, Inner(v)) = Object(h) /\ Phase(h) /\ h.v = v /\ h.out = -1
  BY <1>1, Pads
<1>3. StartKept(r, p) /\ Phase(r)
  BY <1>1, ReabsorbingStart, ReabsorbingPhase
<1> HIDE DEF r
<1>4. h.base = r.base /\ h.sep = r.sep
  BY <1>3 DEF Zeroed, Phase
<1> HIDE DEF h
<1>5. StartKept(h, p)
  BY <1>3, <1>4, SameStart
<1>6. Stream(h, 0, Answering(h).out) = <<>>
  BY <1>2, NothingOut
<1>7. Good(v, Object(h), h, <<>>, p)
  BY <1>2, <1>5, <1>6 DEF Good
<1> QED BY <1>2, <1>7 DEF h, r

LEMMA SqueezeKeeps ==
  ASSUME NEW v, NEW x, NEW g, NEW out, NEW p, Good(v, x, g, out, p), NEW n \in Nat,
         NEW r, r = IF v = "xof" THEN LazyCall(x, n) ELSE EagerCall(x, n)
  PROVE  Good(v, r.obj, Delivering(g, IF g.out < 0 THEN n ELSE g.out + n), out \o r.out, p)
<1> DEFINE d == Answering(g)
           o == d.out
           m == o + n
           h == Delivering(d, m)
           more == Stream(d, o, n)
<1>1. Phase(g) /\ g.v = v /\ x = Object(g) /\ StartKept(g, p) /\ v \in {"xof", "xofa"}
  BY DEF Good, Phase
<1>2. /\ Phase(d) /\ o \in Nat /\ d.v = g.v /\ o = IF g.out < 0 THEN 0 ELSE g.out
      /\ \A l \in Nat : Delivering(d, l) = Delivering(g, l)
  BY <1>1, AnsweringPhase
<1>3. r = [obj |-> Object(h), out |-> more]
  <2>1. CASE v = "xof"
    BY <1>1, <2>1, LazySqueezes
  <2>2. CASE v = "xofa"
    BY <1>1, <2>2, EagerSqueezes
  <2> QED BY <1>1, <2>1, <2>2
<1>4. d.base = g.base /\ d.sep = g.sep
  <2>1. CASE g.out < 0
    <3> DEFINE none == 0
    <3>1. none \in Nat \cup {-1}
      OBVIOUS
    <3> HIDE DEF none
    <3>2. Delivering(g, none).base = g.base /\ Delivering(g, none).sep = g.sep
      BY <1>1, <3>1, DeliveringPhase
    <3> QED BY <2>1, <3>2 DEF Answering, none
  <2>2. CASE ~(g.out < 0)
    BY <2>2 DEF Answering
  <2> QED BY <2>1, <2>2
<1>5. out = Stream(d, 0, o)
  <2>1. CASE g.out < 0
    <3>1. g.out = -1 /\ o = 0
      BY <1>1, <1>2, <2>1 DEF Phase
    <3>2. out = <<>>
      BY <1>1, <3>1, NothingOut DEF Good
    <3> DEFINE none == 0
    <3>3. none \in Nat
      OBVIOUS
    <3> HIDE DEF none, d
    <3>4. IsSequence(Stream(d, none, none)) /\ Len(Stream(d, none, none)) = none
      BY ONLY <3>3, StreamSequence
    <3>5. Stream(d, 0, 0) = <<>>
      BY <3>4, LengthZero DEF none
    <3> QED BY <3>1, <3>2, <3>5
  <2>2. CASE ~(g.out < 0)
    BY <2>2 DEF Answering, Good
  <2> QED BY <2>1, <2>2
<1> HIDE DEF d
<1>6. m \in Nat /\ m \in Nat \cup {-1} /\ o >= 0
  BY <1>2
<1>7. h = Delivering(g, IF g.out < 0 THEN n ELSE g.out + n)
  <2>1. m = IF g.out < 0 THEN n ELSE g.out + n
    BY <1>2
  <2>2. h = Delivering(g, m)
    BY <1>2, <1>6
  <2> QED BY <2>1, <2>2
<1> HIDE DEF m
<1>8. /\ Phase(h) /\ h.v = d.v /\ h.out = m
      /\ \A f \in Nat, l \in Nat : Stream(h, f, l) = Stream(d, f, l)
  BY <1>2, <1>6, MoreOutput
<1>9. h.base = d.base /\ h.sep = d.sep
  BY <1>2, <1>6, DeliveringPhase
<1> HIDE DEF h
<1>10. StartKept(h, p)
  BY <1>1, <1>4, <1>9, SameStart
<1>11. out \o more = Stream(d, 0, m)
  <2> DEFINE none == 0
  <2>1. none \in Nat /\ o \in Nat /\ n \in Nat
    BY <1>2
  <2> HIDE DEF none, o, more
  <2>2. Stream(d, none, o) \o Stream(d, none + o, n) = Stream(d, none, o + n)
    BY ONLY <2>1, StreamJoined
  <2>3. none + o = o
    BY <2>1 DEF none
  <2> QED BY <1>5, <2>2, <2>3 DEF none, more, m
<1>12. out \o more = Stream(h, 0, m)
  <2>1. 0 \in Nat
    OBVIOUS
  <2> QED BY <1>6, <1>8, <1>11, <2>1
<1>13. Answering(h) = h
  BY <1>6, <1>8 DEF Answering
<1>14. Good(v, Object(h), h, out \o more, p)
  BY <1>1, <1>2, <1>8, <1>10, <1>12, <1>13 DEF Good
<1>15. r.obj = Object(h) /\ r.out = more
  BY <1>3
<1> QED BY <1>7, <1>14, <1>15

LEMMA CustomStringKeeps ==
  ASSUME NEW v, NEW x, NEW g, NEW out, NEW p, Good(v, x, g, out, p),
         g.out < 0, g.in = <<>>, p.custom = 0, NEW n \in Nat
  PROVE  Good(v, CustomCall(x, Input(n), Inner(v)),
              IF n = 0 THEN g ELSE Separated([g EXCEPT !.in = Input(n)]),
              <<>>, [p EXCEPT !.custom = n])
<1> DEFINE in == Input(n)
           h == Longer(g, in)
           q == [p EXCEPT !.custom = n]
           s == Separated(h)
<1>1. Phase(g) /\ g.v = v /\ x = Object(g) /\ StartKept(g, p) /\ g.out = -1
  BY DEF Good, Phase
<1>2. IsSequence(in) /\ Len(in) = n /\ (n = 0 => in = <<>>) /\ <<>> \o in = in
  BY InputSequence
<1>3. CASE n = 0
  <2>1. CustomCall(x, in, Inner(v)) = x
    BY <1>2, <1>3 DEF CustomCall
  <2>2. q = p
    BY <1>1, <1>3 DEF StartKept
  <2>3. out = <<>>
    BY <1>1, NothingOut DEF Good
  <2> QED BY <1>3, <2>1, <2>2, <2>3
<1>4. CASE n # 0
  <2>1. h = [g EXCEPT !.in = in]
    BY <1>2 DEF Longer
  <2>2. in # <<>>
    BY <1>2, <1>4, EmptySequence
  <2>3. CustomCall(x, in, Inner(v)) = Object(s)
    <3> HIDE DEF in
    <3> QED BY <1>1, <1>2, <2>2, Separates
  <2>4. StartKept(s, q)
    BY <1>1, <1>4, SeparatedStart
  <2> HIDE DEF in
  <2>5. Phase(h) /\ h.v = v /\ h.out = -1
    BY <1>1, <1>2, LongerPhase
  <2> HIDE DEF h
  <2>6. Phase(s) /\ s.v = v /\ s.out = -1
    BY <2>5, SeparatedPhase
  <2> HIDE DEF s, q
  <2>7. Stream(s, 0, Answering(s).out) = <<>>
    BY <2>6, NothingOut
  <2>8. Good(v, Object(s), s, <<>>, q)
    BY <2>4, <2>6, <2>7 DEF Good
  <2> QED BY <1>4, <2>1, <2>3, <2>8 DEF s, q, in
<1> QED BY <1>3, <1>4

LEMMA InitKeeps ==
  ASSUME NEW v \in {"xof", "xofa"}, NEW name \in Nat, NEW n \in Nat, NEW outlen \in Nat,
         NEW f, f = IF n = 0 THEN StartPhase(v, name, outlen)
                    ELSE Separated([StartPhase(v, name, outlen) EXCEPT !.in = Input(n)]),
         NEW p, p = [name |-> name, custom |-> n, outlen |-> outlen]
  PROVE  /\ Good(v, CustomCall(CustomStart(Name(name), EncodedLength(outlen)), Input(n), Inner(v)),
                 f, <<>>, p)
         /\ name = 0 /\ n = 0 => Good(v, FixedStart(EncodedLength(outlen)), f, <<>>, p)
<1> DEFINE g == StartPhase(v, name, outlen)
           x == CustomStart(Name(name), EncodedLength(outlen))
           y == FixedStart(EncodedLength(outlen))
           q == [name |-> name, custom |-> 0, outlen |-> outlen]
<1>1. /\ x = Object(g) /\ (name = 0 => y = Object(g))
      /\ Phase(g) /\ g.v = v /\ g.out = -1 /\ g.in = <<>>
  BY StartObject, ZenonT(60)
<1>2. StartKept(g, q)
  BY FreshStart
<1>3. p = [q EXCEPT !.custom = n] /\ (n = 0 => p = q) /\ q.custom = 0
  OBVIOUS
<1> HIDE DEF g, x, y, q
<1>4. Good(v, x, g, <<>>, q)
  BY <1>1, <1>2, NothingOut DEF Good
<1>5. Good(v, CustomCall(x, Input(n), Inner(v)),
           IF n = 0 THEN g ELSE Separated([g EXCEPT !.in = Input(n)]), <<>>, [q EXCEPT !.custom = n])
  <2> DEFINE none == <<>>
  <2>1. Good(v, x, g, none, q) /\ g.out < 0 /\ g.in = <<>> /\ q.custom = 0
    BY <1>1, <1>3, <1>4
  <2> HIDE DEF none
  <2> QED BY ONLY <2>1, n \in Nat, CustomStringKeeps
<1>6. f = IF n = 0 THEN g ELSE Separated([g EXCEPT !.in = Input(n)])
  BY DEF g
<1>7. Good(v, CustomCall(x, Input(n), Inner(v)), f, <<>>, p)
  BY ONLY <1>3, <1>5, <1>6
<1>8. name = 0 /\ n = 0 => Good(v, y, f, <<>>, p)
  <2> SUFFICES ASSUME name = 0, n = 0 PROVE Good(v, y, f, <<>>, p)
    OBVIOUS
  <2>1. f = g /\ p = q /\ y = x
    BY <1>1, <1>3, <1>6
  <2> QED BY ONLY <1>4, <2>1
<1> QED BY <1>7, <1>8 DEF x, y

-----------------------------------------------------------------------------
(***************************************************************************)
(* The inductive invariant: every live object is the one its phase         *)
(* determines, delivered the stream of that phase, and carries in its list *)
(* of permutations what it was initialised with.                           *)
(***************************************************************************)
XofInv ==
  /\ variant \in {"xof", "xofa"}
  /\ xof = [o \in Objects |-> xof[o]] /\ phase = [o \in Objects |-> phase[o]]
  /\ got = [o \in Objects |-> got[o]] /\ start = [o \in Objects |-> start[o]]
  /\ \A o \in Objects : Live(o) => Good(variant, xof[o], phase[o], got[o], start[o])

LEMMA InitInv ==
  Init => XofInv
<1> SUFFICES ASSUME Init PROVE XofInv
  OBVIOUS
<1>1. variant \in {"xof", "xofa"}
  BY ObjectsAssumption DEF Init
<1>2. /\ xof = [o \in Objects |-> xof[o]] /\ phase = [o \in Objects |-> phase[o]]
      /\ got = [o \in Objects |-> got[o]] /\ start = [o \in Objects |-> start[o]]
  BY DEF Init
<1>3. \A o \in Objects : ~Live(o)
  BY DEF Init, Live
<1> QED BY <1>1, <1>2, <1>3 DEF XofInv

LEMMA BecomesKeeps ==
  ASSUME XofInv, NEW o \in Objects, NEW x, NEW g, NEW out, Becomes(o, x, g, out),
         NEW p, start' = [start EXCEPT ![o] = p], p # NoStart => Good(variant, x, g, out, p)
  PROVE  XofInv'
<1>1. /\ variant' = variant
      /\ xof' = [xof EXCEPT ![o] = x] /\ phase' = [phase EXCEPT ![o] = g]
      /\ got' = [got EXCEPT ![o] = out]
  BY DEF Becomes
<1>2. /\ xof' = [c \in Objects |-> xof'[c]] /\ phase' = [c \in Objects |-> phase'[c]]
      /\ got' = [c \in Objects |-> got'[c]] /\ start' = [c \in Objects |-> start'[c]]
  BY <1>1 DEF XofInv
<1>3. ASSUME NEW c \in Objects, start'[c] # NoStart
      PROVE  Good(variant, xof'[c], phase'[c], got'[c], start'[c])
  <2>1. CASE c = o
    <3>1. xof'[c] = x /\ phase'[c] = g /\ got'[c] = out /\ start'[c] = p
      BY <1>1, <2>1 DEF XofInv
    <3> QED BY <1>3, <3>1
  <2>2. CASE c # o
    <3>1. xof'[c] = xof[c] /\ phase'[c] = phase[c] /\ got'[c] = got[c] /\ start'[c] = start[c]
      BY <1>1, <2>2 DEF XofInv
    <3>2. Good(variant, xof[c], phase[c], got[c], start[c])
      BY <1>3, <3>1 DEF XofInv, Live
    <3> QED BY <3>1, <3>2
  <2> QED BY <2>1, <2>2
<1>4. \A c \in Objects : Live(c)' => Good(variant', xof'[c], phase'[c], got'[c], start'[c])
  BY <1>1, <1>3 DEF Live
<1>5. variant' \in {"xof", "xofa"}
  BY <1>1 DEF XofInv
<1> QED BY <1>2, <1>4, <1>5 DEF XofInv, Good, Live

LEMMA StartPut ==
  ASSUME XofInv, NEW o \in Objects, UNCHANGED start
  PROVE  start' = [start EXCEPT ![o] = start[o]]
<1>1. start = [c \in Objects |-> start[c]]
  BY DEF XofInv
<1> QED BY <1>1

LEMMA FirstPhases ==
  ASSUME NEW name, NEW n, NEW outlen
  PROVE  FirstPhase(name, n, outlen) =
           IF n = 0 THEN StartPhase(variant, name, outlen)
           ELSE Separated([StartPhase(variant, name, outlen) EXCEPT !.in = Input(n)])
BY DEF FirstPhase, StartPhase

\* However an object is initialised, it becomes what its parameters say.
LEMMA Initialises ==
  ASSUME variant \in {"xof", "xofa"}, NEW name \in Nat, NEW n \in Nat, NEW outlen \in Nat
  PROVE  LET p == [name |-> name, custom |-> n, outlen |-> outlen]
             f == FirstPhase(name, n, outlen)
         IN  /\ Good(variant, InitCustom(Name(name), Input(n), outlen), f, <<>>, p)
             /\ name = 0 /\ n = 0 => Good(variant, InitFixed(outlen), f, <<>>, p)
<1> DEFINE p == [name |-> name, custom |-> n, outlen |-> outlen]
           f == FirstPhase(name, n, outlen)
           x == CustomCall(CustomStart(Name(name), EncodedLength(outlen)), Input(n), Inner(variant))
           y == FixedStart(EncodedLength(outlen))
           v == variant
<1>1. InitCustom(Name(name), Input(n), outlen) = x /\ InitFixed(outlen) = y
  BY VariantCalls
<1>2. f = IF n = 0 THEN StartPhase(v, name, outlen)
          ELSE Separated([StartPhase(v, name, outlen) EXCEPT !.in = Input(n)])
  BY FirstPhases
<1>3. v \in {"xof", "xofa"} /\ p = [name |-> name, custom |-> n, outlen |-> outlen]
  OBVIOUS
<1> HIDE DEF p, f, v
<1>4. /\ Good(v, CustomCall(CustomStart(Name(name), EncodedLength(outlen)), Input(n), Inner(v)),
              f, <<>>, p)
      /\ name = 0 /\ n = 0 => Good(v, FixedStart(EncodedLength(outlen)), f, <<>>, p)
  BY ONLY <1>2, <1>3, name \in Nat, n \in Nat, outlen \in Nat, InitKeeps
<1>5. /\ Good(v, x, f, <<>>, p)
      /\ name = 0 /\ n = 0 => Good(v, y, f, <<>>, p)
  BY <1>4 DEF v
<1> HIDE DEF x, y
<1> QED BY <1>1, <1>5 DEF p, f, v

-----------------------------------------------------------------------------
(* One lemma per action. *)

LEMMA DoInitFixedKeeps ==
  ASSUME XofInv, NEW o \in Objects, NEW outlen \in Nat, DoInitFixed(o, outlen)
  PROVE  XofInv'
<1> DEFINE p == [name |-> 0, custom |-> 0, outlen |-> outlen]
           none == 0
           x == InitFixed(outlen)
           f == FirstPhase(0, 0, outlen)
<1>1. Becomes(o, x, f, <<>>) /\ start' = [start EXCEPT ![o] = p]
  BY DEF DoInitFixed
<1>2. variant \in {"xof", "xofa"} /\ none \in Nat
  BY DEF XofInv
<1> HIDE DEF none
<1>3. none = 0 => Good(variant, InitFixed(outlen), FirstPhase(none, none, outlen), <<>>,
                       [name |-> none, custom |-> none, outlen |-> outlen])
  BY <1>2, Initialises
<1>4. Good(variant, x, f, <<>>, p)
  BY <1>3 DEF none
<1> HIDE DEF p, x, f
<1> QED BY <1>1, <1>4, BecomesKeeps

LEMMA DoInitCustomKeeps ==
  ASSUME XofInv, NEW o \in Objects, NEW name \in Nat, NEW n \in Nat, NEW outlen \in Nat,
         DoInitCustom(o, name, n, outlen)
  PROVE  XofInv'
<1> DEFINE p == [name |-> name, custom |-> n, outlen |-> outlen]
           x == InitCustom(Name(name), Input(n), outlen)
           f == FirstPhase(name, n, outlen)
<1>1. Becomes(o, x, f, <<>>) /\ start' = [start EXCEPT ![o] = p]
  BY DEF DoInitCustom
<1>2. variant \in {"xof", "xofa"}
  BY DEF XofInv
<1>3. Good(variant, x, f, <<>>, p)
  BY <1>2, Initialises
<1> HIDE DEF p, x, f
<1> QED BY <1>1, <1>3, BecomesKeeps

LEMMA DoReinitKeeps ==
  ASSUME XofInv, NEW o \in Objects, DoReinit(o)
  PROVE  XofInv'
<1> DEFINE p == start[o]
           a == InitFixed(p.outlen)
           c == InitCustom(Name(p.name), Input(p.custom), p.outlen)
           x == IF p.name = 0 /\ p.custom = 0 THEN a ELSE c
           f == FirstPhase(p.name, p.custom, p.outlen)
<1>1. Becomes(o, x, f, <<>>) /\ UNCHANGED start /\ Live(o)
  BY DEF DoReinit
<1>2. start' = [start EXCEPT ![o] = p]
  BY <1>1, StartPut
<1>3. /\ variant \in {"xof", "xofa"}
      /\ p = [name |-> p.name, custom |-> p.custom, outlen |-> p.outlen]
      /\ p.name \in Nat /\ p.custom \in Nat /\ p.outlen \in Nat
  BY <1>1 DEF XofInv, Good, StartKept
<1> HIDE DEF p
<1>4. /\ Good(variant, c, f, <<>>, p)
      /\ p.name = 0 /\ p.custom = 0 => Good(variant, a, f, <<>>, p)
  <2> DEFINE name == p.name
             n == p.custom
             outlen == p.outlen
  <2>1. p = [name |-> name, custom |-> n, outlen |-> outlen] /\ name \in Nat /\ n \in Nat /\ outlen \in Nat
    BY <1>3
  <2> HIDE DEF name, n, outlen
  <2>2. LET q == [name |-> name, custom |-> n, outlen |-> outlen]
            g == FirstPhase(name, n, outlen)
        IN  /\ Good(variant, InitCustom(Name(name), Input(n), outlen), g, <<>>, q)
            /\ name = 0 /\ n = 0 => Good(variant, InitFixed(outlen), g, <<>>, q)
    BY ONLY <1>3, <2>1, Initialises
  <2>3. /\ Good(variant, InitCustom(Name(name), Input(n), outlen), FirstPhase(name, n, outlen), <<>>, p)
        /\ name = 0 /\ n = 0 => Good(variant, InitFixed(outlen), FirstPhase(name, n, outlen), <<>>, p)
    BY ONLY <2>1, <2>2
  <2> QED BY <2>3 DEF name, n, outlen
<1> HIDE DEF a, c, f
<1>5. Good(variant, x, f, <<>>, p)
  <2>1. CASE p.name = 0 /\ p.custom = 0
    BY <1>4, <2>1
  <2>2. CASE ~(p.name = 0 /\ p.custom = 0)
    BY <1>4, <2>2
  <2> QED BY <2>1, <2>2
<1> HIDE DEF x
<1> QED BY <1>1, <1>2, <1>5, BecomesKeeps

LEMMA DoFreeKeeps ==
  ASSUME XofInv, NEW o \in Objects, DoFree(o)
  PROVE  XofInv'
<1> DEFINE x == Freed
           g == NewPhase(variant, <<>>, FALSE)
           p == NoStart
<1>1. Becomes(o, x, g, <<>>) /\ start' = [start EXCEPT ![o] = p] /\ p = NoStart
  BY DEF DoFree
<1> HIDE DEF x, g, p
<1> QED BY <1>1, BecomesKeeps

LEMMA DoAbsorbKeeps ==
  ASSUME XofInv, NEW o \in Objects, NEW n \in Nat, DoAbsorb(o, n)
  PROVE  XofInv'
<1> DEFINE r == Reabsorbing(phase[o])
           in == [i \in 1 .. n |-> {<<"in", 0, Len(r.in) + i>>}]
           x == Absorb(xof[o], in)
           g == [r EXCEPT !.in = @ \o in]
           p == start[o]
<1>1. Becomes(o, x, g, <<>>) /\ UNCHANGED start /\ Live(o)
  BY DEF DoAbsorb
<1>2. start' = [start EXCEPT ![o] = p]
  BY <1>1, StartPut
<1>3. variant \in {"xof", "xofa"} /\ Good(variant, xof[o], phase[o], got[o], p)
  BY <1>1 DEF XofInv
<1>4. IsSequence(in)
  <2>1. in = [i \in 1 .. n |-> in[i]]
    OBVIOUS
  <2> HIDE DEF in
  <2> QED BY <2>1, FunctionSequence
<1> HIDE DEF in, p
<1>5. x = AbsorbCall(xof[o], in, Inner(variant))
  BY <1>3, VariantCalls
<1>6. Good(variant, AbsorbCall(xof[o], in, Inner(variant)), Longer(r, in), <<>>, p)
  BY <1>3, <1>4, AbsorbKeeps
<1>7. g = Longer(r, in)
  BY DEF Longer
<1> HIDE DEF x, g, r
<1> QED BY <1>1, <1>2, <1>5, <1>6, <1>7, BecomesKeeps

LEMMA DoAbsorbCustomKeeps ==
  ASSUME XofInv, NEW o \in Objects, NEW n \in Nat, DoAbsorbCustom(o, n)
  PROVE  XofInv'
<1> DEFINE h == phase[o]
           x == AbsorbCustom(xof[o], Input(n))
           g == IF n = 0 THEN h ELSE Separated([h EXCEPT !.in = Input(n)])
           q == start[o]
           p == [q EXCEPT !.custom = n]
           out == got[o]
<1>1. /\ Becomes(o, x, g, <<>>) /\ Live(o)
      /\ h.out < 0 /\ h.in = <<>> /\ q.custom = 0
  BY DEF DoAbsorbCustom
<1>2. start' = [start EXCEPT ![o] = p]
  BY DEF DoAbsorbCustom
<1>3. variant \in {"xof", "xofa"} /\ Good(variant, xof[o], h, out, q)
  BY <1>1 DEF XofInv
<1> HIDE DEF h, q, out
<1>4. x = CustomCall(xof[o], Input(n), Inner(variant))
  BY <1>3, VariantCalls
<1>5. Good(variant, CustomCall(xof[o], Input(n), Inner(variant)), g, <<>>, p)
  BY <1>1, <1>3, CustomStringKeeps
<1> HIDE DEF x, g, p
<1> QED BY <1>1, <1>2, <1>4, <1>5, BecomesKeeps

LEMMA DoSqueezeKeeps ==
  ASSUME XofInv, NEW o \in Objects, NEW n \in Nat, DoSqueeze(o, n)
  PROVE  XofInv'
<1> DEFINE r == Squeeze(xof[o], n)
           h == phase[o]
           g == [h EXCEPT !.out = IF h.out < 0 THEN n ELSE @ + n]
           x == r.obj
           out == got[o] \o r.out
           p == start[o]
           v == variant
<1>1. Becomes(o, x, g, out) /\ UNCHANGED start /\ Live(o)
  BY DEF DoSqueeze
<1>2. start' = [start EXCEPT ![o] = p]
  BY <1>1, StartPut
<1>3. variant \in {"xof", "xofa"} /\ Good(variant, xof[o], h, got[o], p)
  BY <1>1 DEF XofInv
<1>4. r = IF variant = "xof" THEN LazyCall(xof[o], n) ELSE EagerCall(xof[o], n)
  BY <1>3, VariantCalls
<1>5. g = Delivering(h, IF h.out < 0 THEN n ELSE h.out + n)
  BY DEF Delivering
<1> HIDE DEF r, h, p
<1>6. Good(variant, r.obj, Delivering(h, IF h.out < 0 THEN n ELSE h.out + n), got[o] \o r.out, p)
  BY <1>3, <1>4, SqueezeKeeps
<1>7. Good(variant, x, g, out, p)
  BY <1>5, <1>6
<1> HIDE DEF x, g, out
<1> QED BY <1>1, <1>2, <1>7, BecomesKeeps

LEMMA DoPadKeeps ==
  ASSUME XofInv, NEW o \in Objects, DoPad(o)
  PROVE  XofInv'
<1> DEFINE r == Reabsorbing(phase[o])
           x == Pad(xof[o])
           g == [r EXCEPT !.in = ZeroPadded(@)]
           p == start[o]
<1>1. Becomes(o, x, g, <<>>) /\ UNCHANGED start /\ Live(o)
  BY DEF DoPad
<1>2. start' = [start EXCEPT ![o] = p]
  BY <1>1, StartPut
<1>3. variant \in {"xof", "xofa"} /\ Good(variant, xof[o], phase[o], got[o], p)
  BY <1>1 DEF XofInv
<1> HIDE DEF p
<1>4. x = PadCall(xof[o], Inner(variant))
  BY <1>3, VariantCalls
<1>5. Good(variant, PadCall(xof[o], Inner(variant)), Zeroed(r), <<>>, p)
  BY <1>3, PadKeeps
<1>6. g = Zeroed(r)
  BY DEF Zeroed
<1> HIDE DEF x, g, r
<1> QED BY <1>1, <1>2, <1>4, <1>5, <1>6, BecomesKeeps

LEMMA DoCopyKeeps ==
  ASSUME XofInv, NEW o \in Objects, NEW src \in Objects, DoCopy(o, src)
  PROVE  XofInv'
<1> DEFINE x == xof[src]
           g == phase[src]
           out == got[src]
           p == start[src]
<1>1. Becomes(o, x, g, out) /\ start' = [start EXCEPT ![o] = p] /\ Live(src)
  BY DEF DoCopy
<1>2. Good(variant, x, g, out, p)
  BY <1>1 DEF XofInv
<1> HIDE DEF x, g, out, p
<1> QED BY <1>1, <1>2, BecomesKeeps

LEMMA StutterKeeps ==
  ASSUME XofInv, UNCHANGED vars
  PROVE  XofInv'
BY DEF XofInv, Good, Live, vars

LEMMA NextKeeps ==
  ASSUME XofInv, [Next]_vars
  PROVE  XofInv'
<1>1. CASE UNCHANGED vars
  BY <1>1, StutterKeeps
<1>2. CASE Next
  <2>1. PICK o \in Objects :
          \/ \E len \in OutLengths : DoInitFixed(o, len)
          \/ \E name \in NameLengths, custom \in CustomLengths, len \in OutLengths :
                DoInitCustom(o, name, custom, len)
          \/ DoReinit(o)
          \/ DoFree(o)
          \/ \E n \in Lengths : DoAbsorb(o, n) \/ DoSqueeze(o, n)
          \/ \E n \in CustomLengths : DoAbsorbCustom(o, n)
          \/ DoPad(o)
          \/ \E src \in Objects : DoCopy(o, src)
    BY <1>2 DEF Next
  <2>2. /\ \A n \in Lengths : n \in Nat
        /\ \A n \in OutLengths : n \in Nat
        /\ \A n \in NameLengths : n \in Nat
        /\ \A n \in CustomLengths : n \in Nat
    BY ObjectsAssumption
  <2>3. CASE \E len \in OutLengths : DoInitFixed(o, len)
    BY <2>2, <2>3, DoInitFixedKeeps
  <2>4. CASE \E name \in NameLengths, custom \in CustomLengths, len \in OutLengths :
                DoInitCustom(o, name, custom, len)
    BY <2>2, <2>4, DoInitCustomKeeps
  <2>5. CASE DoReinit(o)
    BY <2>5, DoReinitKeeps
  <2>6. CASE DoFree(o)
    BY <2>6, DoFreeKeeps
  <2>7. CASE \E n \in Lengths : DoAbsorb(o, n)
    BY <2>2, <2>7, DoAbsorbKeeps
  <2>8. CASE \E n \in Lengths : DoSqueeze(o, n)
    BY <2>2, <2>8, DoSqueezeKeeps
  <2>9. CASE \E n \in CustomLengths : DoAbsorbCustom(o, n)
    BY <2>2, <2>9, DoAbsorbCustomKeeps
  <2>10. CASE DoPad(o)
    BY <2>10, DoPadKeeps
  <2>11. CASE \E src \in Objects : DoCopy(o, src)
    BY <2>11, DoCopyKeeps
  <2> QED BY <2>1, <2>3, <2>4, <2>5, <2>6, <2>7, <2>8, <2>9, <2>10, <2>11
<1> QED BY <1>1, <1>2

\* Every reachable state of a program of sponge objects satisfies the invariant.
THEOREM Reachable == Spec => []XofInv
<1>1. Init => XofInv
  BY InitInv
<1>2. XofInv /\ [Next]_vars => XofInv'
  BY NextKeeps
<1> QED BY <1>1, <1>2, PTL DEF Spec

-----------------------------------------------------------------------------
(* The properties of XofObjects. *)

(***************************************************************************)
(* StateIsReference holds in every reachable state: absorb, pad, copy and  *)
(* squeeze leave in an object the permutation state that its whole input   *)
(* determines, whatever the pieces were.                                   *)
(***************************************************************************)
THEOREM StateIsReferenceHolds == Spec => []StateIsReference
<1>1. XofInv => StateIsReference
  <2> SUFFICES ASSUME XofInv, NEW o \in Objects, Live(o)
               PROVE  xof[o].state = CurrentState(phase[o])
    BY DEF StateIsReference
  <2>1. xof[o] = Object(phase[o])
    BY DEF XofInv, Good
  <2> QED BY <2>1 DEF Object
<1> QED BY <1>1, Reachable, PTL

(***************************************************************************)
(* OutputIsStream holds in every reachable state: the calls of squeeze     *)
(* together returned the output stream of the input from its first byte.   *)
(***************************************************************************)
THEOREM OutputIsStreamHolds == Spec => []OutputIsStream
<1>1. XofInv => OutputIsStream
  <2> SUFFICES ASSUME XofInv, NEW o \in Objects, Live(o)
               PROVE  got[o] = [k \in 1 .. Len(got[o]) |-> StreamByte(phase[o], k)]
    BY DEF OutputIsStream
  <2> DEFINE g == phase[o]
             n == Answering(g).out
             none == 0
  <2>1. Phase(g) /\ got[o] = Stream(g, 0, n)
    BY DEF XofInv, Good
  <2>2. n \in Nat /\ none \in Nat
    BY <2>1, AnsweringPhase
  <2> HIDE DEF g, n, none
  <2>3. Len(Stream(g, none, n)) = n
    BY <2>2, StreamSequence
  <2>4. Stream(g, none, n) = [k \in 1 .. n |-> StreamByte(g, k)]
    <3>1. \A k \in 1 .. n : none + k = k
      BY <2>2 DEF none
    <3> QED BY <3>1 DEF Stream
  <2>5. got[o] = Stream(g, none, n)
    BY <2>1 DEF none
  <2> QED BY <2>3, <2>4, <2>5 DEF g
<1> QED BY <1>1, Reachable, PTL

\* One call that absorbs the whole input and one that squeezes n bytes.
LEMMA OneShot ==
  ASSUME variant \in {"xof", "xofa"}, NEW g, Phase(g), g.v = variant, g.out = -1,
         NEW in, IsSequence(in), g.in = <<>>, NEW n \in Nat
  PROVE  Squeeze(Absorb(Object(g), in), n).out = Stream(Delivering(Longer(g, in), 0), 0, n)
<1> DEFINE h == Longer(g, in)
           d == Delivering(h, 0)
           x == Object(h)
           r == Squeeze(x, n)
<1>1. Absorb(Object(g), in) = x
  <2>1. AbsorbCall(Object(g), in, Inner(g.v)) = Object(Longer(g, in))
    BY AbsorbsInput
  <2> QED BY <2>1, VariantCalls
<1>2. Phase(h) /\ h.v = variant /\ h.out = -1
  BY LongerPhase
<1>3. r = IF variant = "xof" THEN LazyCall(x, n) ELSE EagerCall(x, n)
  BY VariantCalls
<1> HIDE DEF h
<1>4. Answering(h) = d /\ d.out = 0
  <2>1. Answering(h) = d
    BY <1>2 DEF Answering
  <2>2. Answering(h).out = 0
    BY <1>2, AnsweringPhase
  <2> QED BY <2>1, <2>2
<1> HIDE DEF r
<1>5. r.out = Stream(Answering(h), Answering(h).out, n)
  <2>1. CASE variant = "xof"
    BY <1>2, <1>3, <2>1, LazySqueezes
  <2>2. CASE variant = "xofa"
    BY <1>2, <1>3, <2>2, EagerSqueezes
  <2> QED BY <2>1, <2>2
<1> QED BY <1>1, <1>4, <1>5 DEF r, h

LEMMA OneShotCalls ==
  ASSUME variant \in {"xof", "xofa"}, NEW in
  PROVE  /\ OneShotHash(in) = Squeeze(Absorb(FixedStart(HASH_SIZE), in), HASH_SIZE).out
         /\ OneShotXof(in) = Squeeze(Absorb(FixedStart(0), in), HASH_SIZE).out
<1>1. /\ X!ascon_xof_init = FixedStart(0) /\ X!ascon_hash_init = FixedStart(X!ASCON_HASH_SIZE)
      /\ XA!ascon_xofa_init = FixedStart(0) /\ XA!ascon_hasha_init = FixedStart(XA!ASCON_HASHA_SIZE)
  BY FixedStarts DEF X!ascon_xof_init, X!ascon_hash_init, XA!ascon_xofa_init, XA!ascon_hasha_init
<1>2. X!ASCON_HASH_SIZE = HASH_SIZE /\ XA!ASCON_HASHA_SIZE = HASH_SIZE
  BY DEF HASH_SIZE, X!ASCON_HASH_SIZE, XA!ASCON_HASHA_SIZE
<1>3. CASE variant = "xof"
  BY <1>1, <1>2, <1>3 DEF OneShotHash, OneShotXof, Squeeze, Absorb, X!ascon_hash, X!ascon_xof_oneshot
<1>4. CASE variant = "xofa"
  BY <1>1, <1>2, <1>4 DEF OneShotHash, OneShotXof, Squeeze, Absorb, XA!ascon_hasha, XA!ascon_xofa_oneshot
<1> QED BY <1>3, <1>4

\* A phase that is the first of its object is its start, longer and delivering.
LEMMA FirstPhaseKnown ==
  ASSUME NEW g, Phase(g), g.out \in Nat, NEW p, StartKept(g, p), Len(g.base) = 1
  PROVE  LET h == Longer(StartPhase(g.v, p.name, p.outlen), g.in)
         IN  /\ Phase(h) /\ g = Delivering(Delivering(h, 0), g.out)
<1> DEFINE one == [round |-> 0, b |-> StartBlock(p.name, p.outlen)]
           s == StartPhase(g.v, p.name, p.outlen)
           h == Longer(s, g.in)
           old == g.base
           n == g.out
           d == Delivering(h, 0)
<1>1. g.v \in {"xof", "xofa"} /\ p.name \in Nat /\ p.outlen \in Nat
  BY DEF Phase, StartKept
<1>2. Phase(s) /\ s.v = g.v /\ s.out = -1 /\ s.in = <<>> /\ s.base = <<one>> /\ s.sep = FALSE
  <2> DEFINE v == g.v
             name == p.name
             outlen == p.outlen
             a == StartPhase(v, name, outlen)
  <2>1. v \in {"xof", "xofa"} /\ name \in Nat /\ outlen \in Nat
    BY <1>1
  <2> HIDE DEF v, name, outlen
  <2>2. /\ Phase(a) /\ a.v = v /\ a.out = -1 /\ a.in = <<>> /\ a.sep = FALSE
        /\ a.base = <<[round |-> 0, b |-> StartBlock(name, outlen)]>>
    BY ONLY <2>1, StartObject
  <2> QED BY <2>2 DEF v, name, outlen
<1>3. g.base = <<one>>
  <2>1. IsSequence(old) /\ Len(old) = 1 /\ old[1] = one
    BY DEF Phase, StartKept
  <2> HIDE DEF old, one
  <2>2. IsSequence(<<one>>) /\ Len(<<one>>) = 1 /\ <<one>>[1] = one
    BY SingleSequence
  <2>3. \A i \in 1 .. Len(old) : old[i] = <<one>>[i]
    BY <2>1, <2>2
  <2>4. old = <<one>>
    BY ONLY <2>1, <2>2, <2>3, SameSequence
  <2> QED BY <2>4 DEF old
<1>4. g.sep = s.sep
  BY <1>2 DEF StartKept
<1> HIDE DEF s, one
<1>5. IsSequence(g.in) /\ <<>> \o g.in = g.in
  BY ConcatenatedEmpty DEF Phase
<1>6. /\ Phase(h) /\ h.v = g.v /\ h.base = g.base /\ h.sep = g.sep /\ h.in = g.in
  <2>1. h.in = s.in \o g.in /\ Phase(h) /\ h.v = s.v /\ h.base = s.base /\ h.sep = s.sep
    BY <1>2, <1>5, LongerPhase
  <2> QED BY <1>2, <1>3, <1>4, <1>5, <2>1
<1> HIDE DEF h
<1>7. Delivering(d, n) = [v |-> h.v, base |-> h.base, sep |-> h.sep, in |-> h.in, out |-> n]
  <2> DEFINE none == 0
             b == Delivering(h, none)
             a == Delivering(b, n)
  <2>1. none \in Nat \cup {-1} /\ n \in Nat \cup {-1}
    OBVIOUS
  <2> HIDE DEF none, n
  <2>2. /\ Phase(b) /\ b.v = h.v /\ b.base = h.base /\ b.sep = h.sep /\ b.in = h.in
    BY <1>6, <2>1, DeliveringPhase
  <2> HIDE DEF b
  <2>3. /\ Phase(a) /\ a.v = b.v /\ a.base = b.base /\ a.sep = b.sep /\ a.in = b.in /\ a.out = n
    BY <2>1, <2>2, DeliveringPhase
  <2> HIDE DEF a
  <2>4. a = [v |-> a.v, base |-> a.base, sep |-> a.sep, in |-> a.in, out |-> a.out]
    BY <2>3 DEF Phase
  <2>5. a = [v |-> h.v, base |-> h.base, sep |-> h.sep, in |-> h.in, out |-> n]
    BY ONLY <2>2, <2>3, <2>4
  <2> QED BY <2>5 DEF a, b, none
<1>8. g = [v |-> g.v, base |-> g.base, sep |-> g.sep, in |-> g.in, out |-> n]
  BY DEF Phase
<1>9. g = Delivering(d, n)
  BY ONLY <1>6, <1>7, <1>8
<1> QED BY <1>6, <1>9 DEF h, s

(***************************************************************************)
(* OneShotAgrees holds in every reachable state: the digest that an object *)
(* delivers in pieces is the one that ascon_hash or ascon_xof delivers for *)
(* the same input.                                                         *)
(***************************************************************************)
THEOREM OneShotAgreesHolds == Spec => []OneShotAgrees
<1>1. XofInv => OneShotAgrees
  <2> SUFFICES ASSUME XofInv, NEW o \in Objects,
                      Live(o), start[o].name = 0, start[o].custom = 0,
                      Len(got[o]) >= HASH_SIZE, Len(phase[o].base) = 1
               PROVE  LET digest == SubSeq(got[o], 1, HASH_SIZE)
                      IN  /\ Parameters(o).outlen = HASH_SIZE => digest = OneShotHash(phase[o].in)
                          /\ Parameters(o).outlen = 0 => digest = OneShotXof(phase[o].in)
    BY DEF OneShotAgrees
  <2> DEFINE g == phase[o]
             p == start[o]
             n == g.out
             digest == SubSeq(got[o], 1, HASH_SIZE)
             s == StartPhase(variant, 0, p.outlen)
             h == Longer(s, g.in)
             d == Delivering(h, 0)
             e == EncodedLength(p.outlen)
             size == HASH_SIZE
  <2>1. /\ Phase(g) /\ g.v = variant /\ StartKept(g, p)
        /\ got[o] = Stream(g, 0, Answering(g).out) /\ variant \in {"xof", "xofa"}
    BY DEF XofInv, Good
  <2>2. size \in Nat /\ size > 0 /\ p.outlen \in Nat /\ p.name = 0 /\ Len(got[o]) >= size
        /\ Len(g.base) = 1
    BY <2>1, WordSize DEF StartKept, HASH_SIZE, X!ASCON_HASH_SIZE
  <2>3. Parameters(o).outlen = e
    <3>1. p = [name |-> p.name, custom |-> p.custom, outlen |-> p.outlen]
      BY <2>1 DEF StartKept
    <3> QED BY <3>1 DEF Parameters, EncodedLength
  <2> HIDE DEF g, p, size
  <2>4. n \in Nat /\ got[o] = Stream(g, 0, n) /\ n >= size
    <3> DEFINE m == Answering(g).out
               none == 0
    <3>1. m \in Nat /\ none \in Nat /\ m = IF g.out < 0 THEN 0 ELSE g.out
      BY <2>1, AnsweringPhase
    <3> HIDE DEF m, none
    <3>2. Len(Stream(g, none, m)) = m
      BY <3>1, StreamSequence
    <3>3. got[o] = Stream(g, none, m)
      BY <2>1 DEF m, none
    <3>4. m >= size /\ m = n
      BY <2>1, <2>2, <3>1, <3>2, <3>3 DEF Phase
    <3> QED BY <3>1, <3>3, <3>4 DEF none
  <2> HIDE DEF n
  <2>5. digest = Stream(g, 0, size)
    <3> DEFINE none == 0
               all == Stream(g, none, n)
               part == Stream(g, none, size)
    <3>1. none \in Nat
      OBVIOUS
    <3> HIDE DEF none
    <3>2. /\ IsSequence(all) /\ Len(all) = n
          /\ \A i \in 1 .. n : all[i] = StreamByte(g, none + i)
          /\ IsSequence(part) /\ Len(part) = size
          /\ \A i \in 1 .. size : part[i] = StreamByte(g, none + i)
      <4>1. /\ IsSequence(all) /\ Len(all) = n
            /\ \A i \in 1 .. n : all[i] = StreamByte(g, none + i)
        BY ONLY <2>4, <3>1, StreamSequence
      <4>2. /\ IsSequence(part) /\ Len(part) = size
            /\ \A i \in 1 .. size : part[i] = StreamByte(g, none + i)
        BY ONLY <2>2, <3>1, StreamSequence
      <4> QED BY <4>1, <4>2
    <3> HIDE DEF all, part
    <3>3. /\ IsSequence(SubSeq(all, 1, size)) /\ Len(SubSeq(all, 1, size)) = size
          /\ \A i \in 1 .. size : SubSeq(all, 1, size)[i] = all[i]
      <4>1. 1 \in 1 .. Len(all) + 1 /\ size \in 1 - 1 .. Len(all)
        BY <2>2, <2>4, <3>2
      <4>2. /\ IsSequence(SubSeq(all, 1, size)) /\ Len(SubSeq(all, 1, size)) = size - 1 + 1
            /\ \A i \in 1 .. size - 1 + 1 : SubSeq(all, 1, size)[i] = all[1 + i - 1]
        <5> DEFINE from == 1
        <5>1. IsSequence(all) /\ from \in 1 .. Len(all) + 1 /\ size \in from - 1 .. Len(all)
          BY <3>2, <4>1
        <5> HIDE DEF from
        <5>2. /\ IsSequence(SubSeq(all, from, size)) /\ Len(SubSeq(all, from, size)) = size - from + 1
              /\ \A i \in 1 .. size - from + 1 : SubSeq(all, from, size)[i] = all[from + i - 1]
          BY ONLY <5>1, Subsequence
        <5> QED BY <5>2 DEF from
      <4>3. size - 1 + 1 = size /\ \A i \in 1 .. size : 1 + i - 1 = i
        BY <2>2
      <4> QED BY <4>2, <4>3
    <3> DEFINE first == SubSeq(all, 1, size)
    <3> HIDE DEF first
    <3>4. IsSequence(first) /\ Len(first) = size /\ \A i \in 1 .. size : first[i] = all[i]
      BY <3>3 DEF first
    <3>5. \A i \in 1 .. Len(first) : first[i] = part[i]
      <4>1. \A i \in 1 .. size : i \in 1 .. n
        BY <2>2, <2>4
      <4> QED BY <3>2, <3>4, <4>1
    <3>6. first = part
      BY <3>2, <3>4, <3>5, SameSequence
    <3>7. digest = first
      BY <2>4 DEF first, all, none, size
    <3> QED BY <3>6, <3>7 DEF part, none
  <2>6. Phase(h) /\ g = Delivering(d, n)
    <3>1. Len(g.base) = 1 /\ g.out \in Nat
      BY <2>2, <2>4 DEF n
    <3> QED BY <2>1, <2>2, <3>1, FirstPhaseKnown DEF n
  <2>7. /\ Phase(s) /\ s.v = variant /\ s.out = -1 /\ s.in = <<>>
        /\ FixedStart(e) = Object(s)
    <3> DEFINE name == 0
               outlen == p.outlen
               v == variant
               a == StartPhase(v, name, outlen)
    <3>1. name \in Nat /\ name = 0 /\ outlen \in Nat /\ v \in {"xof", "xofa"}
      BY <2>1, <2>2
    <3> HIDE DEF name, outlen, v
    <3>2. /\ name = 0 => FixedStart(EncodedLength(outlen)) = Object(a)
          /\ Phase(a) /\ a.v = v /\ a.out = -1 /\ a.in = <<>>
      BY ONLY <3>1, StartObject, ZenonT(60)
    <3>3. FixedStart(EncodedLength(outlen)) = Object(a)
      BY <3>1, <3>2
    <3> QED BY <3>2, <3>3 DEF e, name, outlen, v
  <2>8. Stream(g, 0, size) = Stream(d, 0, size)
    <3>1. Phase(d) /\ d.out = 0
      <4> DEFINE out == 0
      <4>1. out \in Nat \cup {-1}
        OBVIOUS
      <4> HIDE DEF out, h
      <4>2. Phase(Delivering(h, out)) /\ Delivering(h, out).out = out
        BY <2>6, <4>1, DeliveringPhase
      <4> QED BY <4>2 DEF out
    <3> HIDE DEF d
    <3>2. \A f \in Nat, m \in Nat : Stream(Delivering(d, n), f, m) = Stream(d, f, m)
      <4>1. d.out >= 0
        BY <3>1
      <4> QED BY <2>4, <3>1, <4>1, MoreOutput
    <3> QED BY <2>2, <2>6, <3>2
  <2>9. Squeeze(Absorb(Object(s), g.in), size).out = Stream(d, 0, size)
    <3>1. IsSequence(g.in)
      BY <2>1 DEF Phase
    <3> HIDE DEF s
    <3> QED BY <2>1, <2>2, <2>7, <3>1, OneShot
  <2>10. /\ OneShotHash(g.in) = Squeeze(Absorb(FixedStart(size), g.in), size).out
         /\ OneShotXof(g.in) = Squeeze(Absorb(FixedStart(0), g.in), size).out
    BY <2>1, OneShotCalls DEF size
  <2> HIDE DEF digest, s, d, e
  <2>11. e = size => digest = OneShotHash(g.in)
    BY <2>5, <2>7, <2>8, <2>9, <2>10
  <2>12. e = 0 => digest = OneShotXof(g.in)
    BY <2>5, <2>7, <2>8, <2>9, <2>10
  <2> QED BY <2>3, <2>11, <2>12 DEF digest, size, g
<1> QED BY <1>1, Reachable, PTL

\* The first block tells the encoded output length and the function name.
LEMMA StartBlockTells ==
  ASSUME NEW n \in Nat, NEW l \in Nat, NEW m \in Nat, NEW k \in Nat,
         StartBlock(n, l) = StartBlock(m, k)
  PROVE  n = m /\ EncodedLength(l) = EncodedLength(k)
<1>1. /\ WORD \in Nat \ {0} /\ STATE_SIZE = 5 * WORD /\ HASH_SIZE = 4 * WORD
  BY WordSize DEF HASH_SIZE, X!ASCON_HASH_SIZE
<1>2. ASSUME NEW a \in Nat, NEW c \in Nat
      PROVE  /\ StartBlock(a, c)[0] = {<<"iv", EncodedLength(c), 1>>}
             /\ \A j \in 0 .. HASH_SIZE - 1 : StartBlock(a, c)[WORD + j] =
                  IF a > HASH_SIZE THEN {<<"hash", a, j + 1>>}
                  ELSE IF j < a THEN {<<"name", 0, j + 1>>} ELSE {}
  <2>1. 0 \in 0 .. STATE_SIZE - 1 /\ 0 < WORD
    BY <1>1
  <2>2. StartBlock(a, c)[0] = {<<"iv", EncodedLength(c), 1>>}
    <3>1. StartBlock(a, c)[0] = {<<"iv", EncodedLength(c), 0 + 1>>}
      BY <2>1 DEF StartBlock, EncodedLength
    <3>2. 0 + 1 = 1
      OBVIOUS
    <3> QED BY <3>1, <3>2
  <2>3. ASSUME NEW j \in 0 .. HASH_SIZE - 1
        PROVE  StartBlock(a, c)[WORD + j] =
                  IF a > HASH_SIZE THEN {<<"hash", a, j + 1>>}
                  ELSE IF j < a THEN {<<"name", 0, j + 1>>} ELSE {}
    <3> DEFINE i == WORD + j
               d == i - WORD
    <3>1. i \in 0 .. STATE_SIZE - 1 /\ ~(i < WORD) /\ d = j
      BY <1>1
    <3> HIDE DEF i
    <3>2. StartBlock(a, c)[i] =
            IF a > HASH_SIZE THEN {<<"hash", a, d + 1>>}
            ELSE IF d < a THEN {<<"name", 0, d + 1>>} ELSE {}
      BY <3>1 DEF StartBlock
    <3> HIDE DEF d
    <3>3. StartBlock(a, c)[i] =
            IF a > HASH_SIZE THEN {<<"hash", a, j + 1>>}
            ELSE IF j < a THEN {<<"name", 0, j + 1>>} ELSE {}
      BY ONLY <3>1, <3>2
    <3> QED BY <3>3 DEF i
  <2> QED BY <2>2, <2>3
<1>3. EncodedLength(l) = EncodedLength(k)
  <2>1. {<<"iv", EncodedLength(l), 1>>} = {<<"iv", EncodedLength(k), 1>>}
    BY <1>2
  <2>2. <<"iv", EncodedLength(l), 1>> = <<"iv", EncodedLength(k), 1>>
    BY <2>1
  <2> QED BY <2>2
<1> DEFINE size == HASH_SIZE
           At1(a, j) == IF a > size THEN {<<"hash", a, j + 1>>}
                        ELSE IF j < a THEN {<<"name", 0, j + 1>>} ELSE {}
<1>4. ASSUME NEW j \in 0 .. size - 1 PROVE At1(n, j) = At1(m, j)
  <2>1. StartBlock(n, l)[WORD + j] = At1(n, j)
    BY <1>2
  <2>2. StartBlock(m, k)[WORD + j] = At1(m, j)
    BY <1>2
  <2> HIDE DEF At1
  <2> QED BY <2>1, <2>2
<1>5. size \in Nat /\ size > 0
  BY <1>1
<1> HIDE DEF size
\* Of two different names the longer one shows.
<1>6. ASSUME NEW a \in Nat, NEW c \in Nat, a < c, \A j \in 0 .. size - 1 : At1(a, j) = At1(c, j)
      PROVE  FALSE
  <2>1. CASE a < size
    <3>1. a \in 0 .. size - 1 /\ At1(a, a) = {}
      BY <1>5, <2>1
    <3>2. At1(c, a) # {}
      BY <1>6
    <3> QED BY <1>6, <3>1, <3>2
  <2>2. CASE a = size
    <3>1. 0 \in 0 .. size - 1 /\ At1(a, 0) = {<<"name", 0, 1>>}
      BY <1>5, <2>2
    <3>2. At1(c, 0) = {<<"hash", c, 1>>}
      BY <1>6, <2>2
    <3>3. {<<"name", 0, 1>>} # {<<"hash", c, 1>>}
      <4>1. <<"name", 0, 1>> # <<"hash", c, 1>>
        OBVIOUS
      <4> QED BY ONLY <4>1
    <3> QED BY <1>6, <3>1, <3>2, <3>3
  <2>3. CASE a > size
    <3>1. 0 \in 0 .. size - 1 /\ At1(a, 0) = {<<"hash", a, 1>>} /\ At1(c, 0) = {<<"hash", c, 1>>}
      BY <1>5, <1>6, <2>3
    <3>2. {<<"hash", a, 1>>} # {<<"hash", c, 1>>}
      <4>1. <<"hash", a, 1>> # <<"hash", c, 1>>
        BY <1>6
      <4> QED BY ONLY <4>1
    <3> QED BY <1>6, <3>1, <3>2
  <2> QED BY <1>5, <2>1, <2>2, <2>3
<1>7. ~(n < m) /\ ~(m < n)
  <2> HIDE DEF At1
  <2> QED BY <1>4, <1>6
<1> QED BY <1>3, <1>7

\* A closed list of permutations tells how long the customization string was.
LEMMA CustomTells ==
  ASSUME NEW base, Len(base) \in Nat, NEW a \in Nat, NEW c \in Nat,
         CustomKept(base, FALSE, a), CustomKept(base, FALSE, c)
  PROVE  a = c
<1>1. ASSUME NEW x \in Nat, CustomKept(base, FALSE, x)
      PROVE  /\ x = 0 => \A m \in 2 .. Len(base) : SepAtom \notin base[m].b[LastByte]
             /\ x # 0 => \E s \in 2 .. Len(base) :
                  /\ \A m \in 2 .. Len(base) : (SepAtom \in base[m].b[LastByte]) <=> (m = s)
                  /\ EndsCustom(base, s, x)
  <2>1. CASE x = 0
    BY <1>1, <2>1 DEF CustomKept
  <2>2. CASE x # 0
    <3>1. PICK s \in 3 .. Len(base) + 1 :
            /\ FALSE <=> (s = Len(base) + 1)
            /\ \A m \in 2 .. Len(base) : (SepAtom \in base[m].b[LastByte]) <=> (m = s)
            /\ EndsCustom(base, s, x)
      BY <1>1, <2>2 DEF CustomKept
    <3>2. s \in 2 .. Len(base)
      BY <3>1
    <3> QED BY <2>2, <3>1, <3>2
  <2> QED BY <2>1, <2>2
<1>2. CASE a = 0
  BY <1>1, <1>2
<1>3. CASE c = 0
  BY <1>1, <1>3
<1>4. CASE a # 0 /\ c # 0
  <2>1. PICK s \in 2 .. Len(base) :
          /\ \A m \in 2 .. Len(base) : (SepAtom \in base[m].b[LastByte]) <=> (m = s)
          /\ EndsCustom(base, s, a)
    BY <1>1, <1>4
  <2>2. PICK r \in 2 .. Len(base) :
          /\ \A m \in 2 .. Len(base) : (SepAtom \in base[m].b[LastByte]) <=> (m = r)
          /\ EndsCustom(base, r, c)
    BY <1>1, <1>4
  <2>3. r = s
    BY <2>1, <2>2
  <2>4. EndsCustom(base, s, a) /\ EndsCustom(base, s, c)
    BY <2>1, <2>2, <2>3
  <2> DEFINE u == a % RATE
             w == c % RATE
             Byte(i) == IF i > 0 THEN base[s - 1].b[i - 1] ELSE base[s - 2].b[RATE - 1]
  <2>5. u \in 0 .. RATE - 1 /\ w \in 0 .. RATE - 1
    BY WordSize, Division
  <2>6. /\ \A i \in 0 .. RATE - 1 : (PadAtom \in base[s - 1].b[i]) <=> (i = u)
        /\ \A n \in Nat : (<<"in", 0, n>> \in Byte(u)) <=> (n = a)
    BY <2>4 DEF EndsCustom
  <2>7. /\ \A i \in 0 .. RATE - 1 : (PadAtom \in base[s - 1].b[i]) <=> (i = w)
        /\ \A n \in Nat : (<<"in", 0, n>> \in Byte(w)) <=> (n = c)
    BY <2>4 DEF EndsCustom
  <2> HIDE DEF u, w, Byte
  <2>8. u = w
    BY <2>5, <2>6, <2>7
  <2> QED BY <2>6, <2>7, <2>8
<1> QED BY <1>2, <1>3, <1>4

\* An object tells the parameters of whatever phase it is in.
LEMMA ObjectTells ==
  ASSUME NEW v, NEW x, NEW g, NEW a, NEW p, Good(v, x, g, a, p),
         NEW h, NEW c, NEW q, Good(v, x, h, c, q)
  PROVE  /\ p.name = q.name /\ p.custom = q.custom
         /\ EncodedLength(p.outlen) = EncodedLength(q.outlen)
<1> DEFINE base == Append(x.state.chain, [round |-> 0, b |-> x.state.b])
<1>1. ASSUME NEW f, NEW o, NEW r, Good(v, x, f, o, r)
      PROVE  /\ Len(base) \in Nat /\ base[1].b = StartBlock(r.name, r.outlen)
             /\ CustomKept(base, FALSE, r.custom)
             /\ r.name \in Nat /\ r.custom \in Nat /\ r.outlen \in Nat
  <2>1. Phase(f) /\ x = Object(f) /\ StartKept(f, r)
    BY <1>1 DEF Good
  <2> DEFINE j == PhasePermutes(f)
             b == ClosedBase(f, j, 0)
  <2>2. b = base
    BY <2>1 DEF Object, CurrentState, ClosedBase
  <2>3. j \in Nat
    BY <2>1, PermutesNatural
  <2> HIDE DEF j, base
  <2>4. /\ IsSequence(b) /\ b[1] = [round |-> 0, b |-> StartBlock(r.name, r.outlen)]
        /\ CustomKept(b, FALSE, r.custom)
    BY <2>1, <2>3, ClosedStart
  <2> HIDE DEF b
  <2>5. Len(base) \in Nat
    BY <2>2, <2>4, SequenceLength
  <2>6. r.name \in Nat /\ r.custom \in Nat /\ r.outlen \in Nat
    BY <2>1 DEF StartKept
  <2>7. base[1].b = StartBlock(r.name, r.outlen)
    BY <2>2, <2>4
  <2>8. CustomKept(base, FALSE, r.custom)
    BY ONLY <2>2, <2>4
  <2> QED BY ONLY <2>5, <2>6, <2>7, <2>8
<1> HIDE DEF base
<1>2. /\ Len(base) \in Nat /\ base[1].b = StartBlock(p.name, p.outlen)
      /\ CustomKept(base, FALSE, p.custom)
      /\ p.name \in Nat /\ p.custom \in Nat /\ p.outlen \in Nat
  BY <1>1
<1>3. /\ base[1].b = StartBlock(q.name, q.outlen)
      /\ CustomKept(base, FALSE, q.custom)
      /\ q.name \in Nat /\ q.custom \in Nat /\ q.outlen \in Nat
  BY <1>1
<1>4. p.name = q.name /\ EncodedLength(p.outlen) = EncodedLength(q.outlen)
  <2>1. StartBlock(p.name, p.outlen) = StartBlock(q.name, q.outlen)
    BY <1>2, <1>3
  <2> QED BY <1>2, <1>3, <2>1, StartBlockTells
<1>5. p.custom = q.custom
  BY <1>2, <1>3, CustomTells
<1> QED BY <1>4, <1>5

(***************************************************************************)
(* ParametersSeparate holds in every reachable state: init_fixed and       *)
(* init_custom keep objects of different function names, customization     *)
(* strings or output lengths apart, whatever they absorb and deliver.      *)
(***************************************************************************)
THEOREM ParametersSeparateHolds == Spec => []ParametersSeparate
<1>1. XofInv => ParametersSeparate
  <2> SUFFICES ASSUME XofInv, NEW o1 \in Objects, NEW o2 \in Objects,
                      Live(o1), Live(o2), xof[o1] = xof[o2]
               PROVE  Parameters(o1) = Parameters(o2)
    BY DEF ParametersSeparate
  <2>1. /\ Good(variant, xof[o1], phase[o1], got[o1], start[o1])
        /\ Good(variant, xof[o1], phase[o2], got[o2], start[o2])
    BY DEF XofInv
  <2> DEFINE p == start[o1]
             q == start[o2]
  <2>2. /\ p.name = q.name /\ p.custom = q.custom
        /\ EncodedLength(p.outlen) = EncodedLength(q.outlen)
    BY <2>1, ObjectTells
  <2>3. /\ p = [name |-> p.name, custom |-> p.custom, outlen |-> p.outlen]
        /\ q = [name |-> q.name, custom |-> q.custom, outlen |-> q.outlen]
    BY <2>1 DEF Good, StartKept
  <2>4. /\ Parameters(o1) = [p EXCEPT !.outlen = EncodedLength(p.outlen)]
        /\ Parameters(o2) = [q EXCEPT !.outlen = EncodedLength(q.outlen)]
    BY DEF Parameters, EncodedLength
  <2> HIDE DEF p, q
  <2>5. /\ Parameters(o1) = [name |-> p.name, custom |-> p.custom, outlen |-> EncodedLength(p.outlen)]
        /\ Parameters(o2) = [name |-> q.name, custom |-> q.custom, outlen |-> EncodedLength(q.outlen)]
    BY <2>3, <2>4
  <2> QED BY <2>2, <2>5
<1> QED BY <1>1, Reachable, PTL

=============================================================================
