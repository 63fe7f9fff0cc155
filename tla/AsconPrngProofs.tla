-------------------------- MODULE AsconPrngProofs --------------------------
(***************************************************************************)
(* Proofs about the generator, for every limit, seed size and size of      *)
(* requests, whatever fails and however often it restarts: first about the *)
(* reseed counter, then about what is served and saved.                    *)
(***************************************************************************)
EXTENDS AsconPrng, SequenceLemmas, TLAPS

USE DEF vars

(***************************************************************************)
(* ReseededInTime looks one request back.  What makes it inductive is that *)
(* the counter, as long as it is below the limit, has counted every byte;  *)
(* a request that is too large to be counted sets it to the limit instead. *)
(***************************************************************************)
CounterInv ==
  /\ counter \in 0 .. 2 * RESEED_LIMIT - 1
  /\ since \in Nat /\ last \in Nat
  /\ counter < RESEED_LIMIT => since <= counter
  /\ ReseededInTime

\* What ascon_random_fetch does to the counter and to the bytes since a seed.
LEMMA FetchCounts ==
  ASSUME NEW g, NEW t, NEW n \in Nat,
         g.counter \in 0 .. 2 * RESEED_LIMIT - 1, g.since \in Nat,
         g.counter < RESEED_LIMIT => g.since <= g.counter
  PROVE  LET f == ascon_random_fetch(g, t, n).gen IN
         /\ f.counter \in 0 .. 2 * RESEED_LIMIT - 1
         /\ f.since \in Nat
         /\ f.counter < RESEED_LIMIT => f.since <= f.counter
         /\ f.since - n < RESEED_LIMIT
<1> DEFINE h == IF g.counter >= RESEED_LIMIT THEN ascon_random_reseed(g, t) ELSE g
           f == ascon_random_fetch(g, t, n).gen
<1>1. /\ h.counter \in 0 .. RESEED_LIMIT - 1
      /\ h.since \in Nat
      /\ h.since <= h.counter
  <2>1. CASE g.counter >= RESEED_LIMIT
    <3>1. h.counter = 0 /\ h.since = 0
      BY <2>1 DEF ascon_random_reseed
    <3> QED BY <3>1, PrngAssumption
  <2>2. CASE ~(g.counter >= RESEED_LIMIT)
    BY <2>2, PrngAssumption
  <2> QED BY <2>1, <2>2
<1>2. f.counter = Counted(h, n) /\ f.since = h.since + n
  BY DEF ascon_random_fetch
<1> HIDE DEF h, f
<1>3. CASE n < RESEED_LIMIT
  <2>1. f.counter = h.counter + n
    BY <1>2, <1>3 DEF Counted
  <2> QED BY <1>1, <1>2, <1>3, <2>1, PrngAssumption DEF f
<1>4. CASE ~(n < RESEED_LIMIT)
  <2>1. f.counter = RESEED_LIMIT
    BY <1>2, <1>4 DEF Counted
  <2> QED BY <1>1, <1>2, <2>1, PrngAssumption DEF f
<1> QED BY <1>3, <1>4

\* A request of n bytes, served by a generator whose counter is right.
LEMMA FetchKeeps ==
  ASSUME NEW g, NEW t, NEW n \in Nat,
         g.counter \in 0 .. 2 * RESEED_LIMIT - 1, g.since \in Nat,
         g.counter < RESEED_LIMIT => g.since <= g.counter,
         Becomes(ascon_random_fetch(g, t, n).gen), last' = n
  PROVE  CounterInv'
BY FetchCounts DEF Becomes, CounterInv, ReseededInTime

\* A reseeded generator, with no request since.
LEMMA ReseedKeeps ==
  ASSUME counter' = 0, since' = 0, last' = 0
  PROVE  CounterInv'
BY PrngAssumption DEF CounterInv, ReseededInTime

\* The loading of a seed: its own request follows a reseed.
LEMMA LoadKeeps ==
  ASSUME ascon_random_load_seed
  PROVE  CounterInv'
<1>1. PICK n \in Read, t \in ascon_trng_generate :
        LET fed == IF n = SEED_SIZE THEN ascon_random_feed(Generator, storage)
                   ELSE Generator
        IN  Becomes(ascon_random_fetch(ascon_random_reseed(fed, t), t, SEED_SIZE).gen)
  BY DEF ascon_random_load_seed
<1> DEFINE g == ascon_random_reseed(IF n = SEED_SIZE
                                    THEN ascon_random_feed(Generator, storage)
                                    ELSE Generator, t)
<1>2. g.counter = 0 /\ g.since = 0
  BY DEF ascon_random_reseed
<1>3. last' = SEED_SIZE
  BY DEF ascon_random_load_seed
<1>4. Becomes(ascon_random_fetch(g, t, SEED_SIZE).gen)
  BY <1>1
<1>5. SEED_SIZE \in Nat
  BY PrngAssumption
<1> HIDE DEF g
<1> QED BY <1>2, <1>3, <1>4, <1>5, FetchKeeps, PrngAssumption

\* The requests of the application.
LEMMA RequestKeeps ==
  ASSUME CounterInv,
         ascon_random_save_seed \/ (\E n \in FetchSizes : Fetch(n))
  PROVE  CounterInv'
<1>1. /\ Generator.counter \in 0 .. 2 * RESEED_LIMIT - 1
      /\ Generator.since \in Nat
      /\ Generator.counter < RESEED_LIMIT => Generator.since <= Generator.counter
  BY DEF CounterInv, Generator
<1>2. CASE ascon_random_save_seed
  <2>1. PICK t \in ascon_trng_generate :
          Becomes(ascon_random_fetch(Generator, t, SEED_SIZE).gen)
    BY <1>2 DEF ascon_random_save_seed
  <2>2. last' = SEED_SIZE /\ SEED_SIZE \in Nat
    BY <1>2, PrngAssumption DEF ascon_random_save_seed
  <2> QED BY <1>1, <2>1, <2>2, FetchKeeps
<1>3. CASE \E n \in FetchSizes : Fetch(n)
  <2>1. PICK n \in FetchSizes : Fetch(n)
    BY <1>3
  <2>2. PICK t \in ascon_trng_generate :
          Becomes(ascon_random_fetch(Generator, t, n).gen)
    BY <2>1 DEF Fetch
  <2>3. last' = n /\ n \in Nat
    BY <2>1, PrngAssumption DEF Fetch
  <2> QED BY <1>1, <2>2, <2>3, FetchKeeps
<1> QED BY <1>2, <1>3

-----------------------------------------------------------------------------
\* CounterInv: the counter of ascon_random_fetch is right after every step.
THEOREM CounterInvariant == Spec => []CounterInv
<1>1. Init => CounterInv
  BY PrngAssumption DEF Init, CounterInv, ReseededInTime
<1>2. CounterInv /\ [Next]_vars => CounterInv'
  <2> SUFFICES ASSUME CounterInv, [Next]_vars PROVE CounterInv'
    OBVIOUS
  <2>1. CASE Boot
    BY <2>1, ReseedKeeps DEF Boot, Becomes
  <2>2. CASE ascon_random_load_seed
    BY <2>2, LoadKeeps
  <2>3. CASE ascon_random_save_seed \/ (\E n \in FetchSizes : Fetch(n))
    BY <2>3, RequestKeeps
  <2>4. CASE Feed
    <3>1. counter' = counter /\ since' = since /\ last' = last
      BY <2>4 DEF Feed, Becomes, ascon_random_feed, Generator
    <3> QED BY <3>1 DEF CounterInv, ReseededInTime
  <2>5. CASE Reseed
    BY <2>5, ReseedKeeps DEF Reseed, Becomes, ascon_random_reseed
  <2>6. CASE PowerLoss
    BY <2>6, ReseedKeeps DEF PowerLoss
  <2>7. CASE OneShotRandom \/ UNCHANGED vars
    BY <2>7 DEF OneShotRandom, CounterInv, ReseededInTime
  <2> QED BY <2>1, <2>2, <2>3, <2>4, <2>5, <2>6, <2>7 DEF Next
<1> QED BY <1>1, <1>2, PTL DEF Spec

\* ReseededInTime: no request is served by a generator that has given out the
\* limit since it last asked the hardware source.
THEOREM AlwaysReseededInTime == Spec => []ReseededInTime
<1>1. CounterInv => ReseededInTime
  BY DEF CounterInv
<1> QED BY <1>1, CounterInvariant, PTL

-----------------------------------------------------------------------------
(***************************************************************************)
(* What was served or saved, and why none of it comes twice.  An entry of  *)
(* the histories is the list of operations that led to the state it was    *)
(* squeezed from.  Its second operation absorbed the value that the        *)
(* hardware source gave at the start, its fourth the seed that was loaded. *)
(* While the source works no two starts agree in the second place; while   *)
(* the storage works no two loads agree in the fourth.                     *)
(***************************************************************************)
Given == outputs \cup seeds

\* Everything with the mark of the current start, or load, is shorter than the
\* list that the generator has reached.
Above(p) == \A s \in Given : Len(s) >= 4 /\ s[p].x = sponge[p].x => Len(s) < Len(sponge)

\* The seeds that were loaded before something was saved.
Loaded == {s[4].x : s \in seeds}

ListsInv ==
  /\ IsSequence(sponge)
  /\ \A s \in Given : IsSequence(s)

\* Only ascon_random hands out values of the source themselves.
LengthsInv ==
  /\ fresh \in Nat
  /\ sponge # <<>> => Len(sponge) >= 3
  /\ ready => Len(sponge) >= 4
  /\ \A s \in seeds : Len(s) >= 4
  /\ \A s \in outputs : Len(s) < 4 => \E k \in 1 .. fresh : s = Op("trng", k, <<>>)

\* While the hardware source works.
StartsInv ==
  /\ sponge # <<>> =>
       /\ \E k \in 1 .. fresh : sponge[2].x = Op("trng", k, <<>>)
       /\ Above(2)
  /\ \A s \in Given : Len(s) >= 4 => \E k \in 1 .. fresh : s[2].x = Op("trng", k, <<>>)

\* While the storage works: the saved seed has not been loaded yet.
LoadsInv ==
  /\ storage \in seeds \cup {Rubbish}
  /\ storage \notin Loaded
  /\ Loaded \subseteq seeds \cup {Rubbish}
  /\ \A s \in outputs : Len(s) >= 4 => s[4].x \in Loaded
  /\ sponge # <<>> /\ ~ready => Len(sponge) = 3
  /\ ready => sponge[4].x \in Loaded /\ Above(4)

NothingTwice == ~repeated /\ outputs \cap seeds = {}

ServedInv ==
  /\ ListsInv
  /\ LengthsInv
  /\ ~dead => StartsInv
  /\ ~faulted => LoadsInv
  /\ ~dead \/ ~faulted => NothingTwice

-----------------------------------------------------------------------------
(* The operations on the sponge only add to its list.                      *)

Extends(s, t) ==
  /\ IsSequence(s) /\ IsSequence(t)
  /\ Len(s) <= Len(t)
  /\ \A i \in 1 .. Len(s) : t[i] = s[i]

LEMMA OpIsOne ==
  ASSUME NEW name, NEW n, NEW x
  PROVE  /\ IsSequence(Op(name, n, x)) /\ Len(Op(name, n, x)) = 1
         /\ Op(name, n, x)[1].x = x
         /\ Op(name, n, x)[1].op = name
         /\ Op(name, n, x)[1].n = n
BY SingleSequence DEF Op

\* One more operation.
LEMMA OneMore ==
  ASSUME NEW s, IsSequence(s), NEW name, NEW n, NEW x
  PROVE  /\ Extends(s, s \o Op(name, n, x))
         /\ Len(s \o Op(name, n, x)) = Len(s) + 1
         /\ (s \o Op(name, n, x))[Len(s) + 1].x = x
<1> DEFINE t == Op(name, n, x)
<1>1. IsSequence(t)
  BY OpIsOne
<1>2. Len(t) = 1 /\ t[1].x = x
  BY OpIsOne
<1> HIDE DEF t
<1>3. /\ IsSequence(s \o t)
      /\ Len(s \o t) = Len(s) + Len(t)
      /\ \A i \in 1 .. Len(s) : (s \o t)[i] = s[i]
      /\ \A i \in 1 .. Len(t) : (s \o t)[Len(s) + i] = t[i]
  BY <1>1, Concatenated
<1>4. Len(s) \in Nat
  BY SequenceLength
<1>5. (s \o t)[Len(s) + 1] = t[1]
  BY <1>2, <1>3
<1> QED BY <1>2, <1>3, <1>4, <1>5 DEF Extends, t

LEMMA Rekeyed ==
  ASSUME NEW s, IsSequence(s)
  PROVE  LET r == ascon_random_rekey(s) IN Extends(s, r) /\ Len(r) = Len(s) + 1
BY OneMore DEF ascon_random_rekey

LEMMA AbsorbedOne ==
  ASSUME NEW s, IsSequence(s), NEW x
  PROVE  LET a == Absorbed(s, x) IN
         /\ Extends(s, a) /\ Len(a) = Len(s) + 1
         /\ a[Len(s) + 1].x = x
BY OneMore DEF Absorbed

LEMMA ExtendsFurther ==
  ASSUME NEW s, NEW t, NEW u, Extends(s, t), Extends(t, u)
  PROVE  Extends(s, u)
<1>1. Len(s) \in Nat /\ Len(t) \in Nat /\ Len(u) \in Nat
  BY SequenceLength DEF Extends
<1>2. \A i \in 1 .. Len(s) : u[i] = s[i]
  BY <1>1 DEF Extends
<1> QED BY <1>1, <1>2 DEF Extends

LEMMA AbsorbedAndRekeyed ==
  ASSUME NEW s, IsSequence(s), NEW x
  PROVE  LET r == ascon_random_rekey(Absorbed(s, x)) IN
         Extends(s, r) /\ Len(r) = Len(s) + 2
<1> DEFINE a == Absorbed(s, x)
           r == ascon_random_rekey(a)
<1>1. Extends(s, a) /\ Len(a) = Len(s) + 1
  BY AbsorbedOne
<1> HIDE DEF a
<1>2. IsSequence(a)
  BY <1>1 DEF Extends
<1>3. Extends(a, r) /\ Len(r) = Len(a) + 1
  BY <1>2, Rekeyed
<1>4. Len(s) \in Nat
  BY SequenceLength
<1> HIDE DEF r
<1>5. Extends(s, r) /\ Len(r) = Len(s) + 2
  BY <1>1, <1>3, <1>4, ExtendsFurther
<1> QED BY <1>5 DEF a, r

LEMMA ReseedAdds ==
  ASSUME NEW g, NEW t, IsSequence(g.sponge)
  PROVE  LET s == ascon_random_reseed(g, t).sponge IN
         Extends(g.sponge, s) /\ Len(s) = Len(g.sponge) + 2
<1> DEFINE b == g.sponge
           r == ascon_random_rekey(Absorbed(b, t.value))
<1>1. ascon_random_reseed(g, t).sponge = r /\ IsSequence(b)
  BY DEF ascon_random_reseed
<1> HIDE DEF b
<1>2. Extends(b, r) /\ Len(r) = Len(b) + 2
  BY <1>1, AbsorbedAndRekeyed
<1> QED BY <1>1, <1>2 DEF b

\* The absorbed input is the operation after what was there.
LEMMA FeedAdds ==
  ASSUME NEW x, IsSequence(sponge)
  PROVE  LET s == ascon_random_feed(Generator, x).sponge IN
         /\ Extends(sponge, s) /\ Len(s) = Len(sponge) + 3
         /\ s[Len(sponge) + 1].x = x
<1> DEFINE a == Absorbed(sponge, x)
           b == a \o Op("pad", 0, <<>>)
           s == ascon_random_rekey(b)
<1>1. /\ Extends(sponge, a) /\ Len(a) = Len(sponge) + 1
      /\ a[Len(sponge) + 1].x = x
      /\ IsSequence(a)
  BY AbsorbedOne DEF Extends
<1>2. Extends(a, b) /\ Len(b) = Len(a) + 1 /\ IsSequence(b)
  <2> HIDE DEF a
  <2>1. Extends(a, b) /\ Len(b) = Len(a) + 1
    BY <1>1, OneMore
  <2> HIDE DEF b
  <2> QED BY <2>1 DEF Extends
<1>3. Extends(b, s) /\ Len(s) = Len(b) + 1
  <2> HIDE DEF b
  <2> QED BY <1>2, Rekeyed
<1>4. s = ascon_random_feed(Generator, x).sponge
  BY DEF ascon_random_feed, Generator
<1>5. Len(sponge) \in Nat
  BY SequenceLength
<1> HIDE DEF a, b, s
<1>6. Extends(a, s) /\ Extends(sponge, s) /\ Len(s) = Len(sponge) + 3
  BY <1>1, <1>2, <1>3, <1>5, ExtendsFurther
<1>7. s[Len(sponge) + 1].x = x
  BY <1>1, <1>5, <1>6 DEF Extends
<1> QED BY <1>4, <1>6, <1>7

\* A request is squeezed from a list that the one before it began, and the list
\* after it is longer still.
LEMMA FetchAdds ==
  ASSUME NEW g, NEW t, NEW n, IsSequence(g.sponge)
  PROVE  LET f == ascon_random_fetch(g, t, n) IN
         /\ Extends(g.sponge, f.out)
         /\ Extends(f.out, f.gen.sponge)
         /\ Len(f.out) < Len(f.gen.sponge)
<1> DEFINE h == IF g.counter >= RESEED_LIMIT THEN ascon_random_reseed(g, t) ELSE g
           a == h.sponge \o Op("squeeze", n, <<>>)
           s == ascon_random_rekey(a)
<1>1. Extends(g.sponge, h.sponge)
  <2>1. CASE g.counter >= RESEED_LIMIT
    BY <2>1, ReseedAdds
  <2>2. CASE ~(g.counter >= RESEED_LIMIT)
    BY <2>2, SequenceLength DEF Extends
  <2> QED BY <2>1, <2>2
<1>2. /\ ascon_random_fetch(g, t, n).out = h.sponge
      /\ ascon_random_fetch(g, t, n).gen.sponge = s
  BY DEF ascon_random_fetch
<1> HIDE DEF h
<1>3. Extends(h.sponge, a) /\ Len(a) = Len(h.sponge) + 1 /\ IsSequence(a)
  <2> DEFINE b == h.sponge
  <2>1. IsSequence(b)
    BY <1>1 DEF Extends
  <2> HIDE DEF b
  <2>2. Extends(b, b \o Op("squeeze", n, <<>>)) /\ Len(b \o Op("squeeze", n, <<>>)) = Len(b) + 1
    BY <2>1, OneMore
  <2> QED BY <2>2 DEF b, Extends
<1>4. Extends(a, s) /\ Len(s) = Len(a) + 1
  <2> HIDE DEF a
  <2> QED BY <1>3, Rekeyed
<1>5. Len(h.sponge) \in Nat
  BY <1>1, SequenceLength DEF Extends
<1> HIDE DEF a, s
<1> QED BY <1>1, <1>2, <1>3, <1>4, <1>5, ExtendsFurther

\* Nothing is served: the list grows, and stays above what has its mark.
LEMMA AboveGrows ==
  ASSUME ListsInv, NEW p \in 1 .. Len(sponge), Above(p), Extends(sponge, sponge'),
         Given' = Given
  PROVE  Above(p)' /\ sponge'[p] = sponge[p]
<1>1. sponge'[p] = sponge[p] /\ Len(sponge) <= Len(sponge')
  BY DEF Extends
<1>2. Len(sponge) \in Nat /\ Len(sponge') \in Nat
  BY SequenceLength DEF Extends
<1>3. \A s \in Given : Len(s) \in Nat
  BY SequenceLength DEF ListsInv
<1> QED BY <1>1, <1>2, <1>3 DEF Above

\* Something is served or saved: it was not among what was, and the list is
\* above it as well.
LEMMA AboveServes ==
  ASSUME ListsInv, NEW p \in 1 .. Len(sponge), Above(p), NEW out,
         Extends(sponge, out), Extends(out, sponge'), Len(out) < Len(sponge'),
         Len(out) >= 4, Given' = Given \cup {out}
  PROVE  /\ Above(p)' /\ out \notin Given
         /\ out[p] = sponge[p] /\ sponge'[p] = sponge[p]
<1>1. Len(sponge) \in Nat /\ Len(out) \in Nat /\ Len(sponge') \in Nat
  BY SequenceLength DEF Extends
<1>2. \A s \in Given : Len(s) \in Nat
  BY SequenceLength DEF ListsInv
<1>3. out[p] = sponge[p] /\ sponge'[p] = out[p] /\ Len(sponge) <= Len(out)
  BY <1>1 DEF Extends
<1>4. out \notin Given
  BY <1>1, <1>3 DEF Above
<1> QED BY <1>1, <1>2, <1>3, <1>4 DEF Above

-----------------------------------------------------------------------------
(* What each kind of step does to ServedInv.                               *)

LEMMA ServedInvInit == ASSUME Init PROVE ServedInv
<1>1. ListsInv
  BY EmptySequence DEF Init, ListsInv, Given
<1>2. LengthsInv
  BY DEF Init, LengthsInv
<1>3. StartsInv
  BY DEF Init, StartsInv, Given
<1>4. LoadsInv
  BY DEF Init, LoadsInv, Loaded
<1>5. NothingTwice
  BY DEF Init, NothingTwice
<1> QED BY <1>1, <1>2, <1>3, <1>4, <1>5 DEF ServedInv

\* Whether the source is asked or not, its values do not come again.
LEMMA SourceGoesOn ==
  ASSUME fresh \in Nat, NEW t \in ascon_trng_generate, NEW asked \in BOOLEAN,
         Used(t, asked)
  PROVE  /\ fresh' \in Nat /\ fresh <= fresh'
         /\ ~dead' => ~dead
<1>1. t.fresh \in {fresh, fresh + 1}
  BY DEF ascon_trng_generate
<1>2. fresh' \in Nat /\ fresh <= fresh'
  BY <1>1 DEF Used
<1>3. ~dead' => ~dead
  BY Zenon DEF Used
<1> QED BY <1>2, <1>3

\* A value in the range stays in it.
LEMMA StillGiven ==
  ASSUME fresh \in Nat, fresh' \in Nat, fresh <= fresh', NEW x,
         \E k \in 1 .. fresh : x = Op("trng", k, <<>>)
  PROVE  \E k \in 1 .. fresh' : x = Op("trng", k, <<>>)
OBVIOUS

\* Feed, reseed: the list grows and nothing else happens.
LEMMA GrowKeeps ==
  ASSUME ServedInv, sponge # <<>>, ready, Extends(sponge, sponge'),
         fresh' \in Nat, fresh <= fresh', ~dead' => ~dead,
         UNCHANGED <<storage, ready, outputs, repeated, seeds, faulted>>
  PROVE  ServedInv'
<1>1. Given' = Given /\ Loaded' = Loaded
  BY DEF Given, Loaded
<1>2. /\ Len(sponge) \in Nat /\ Len(sponge') \in Nat
      /\ Len(sponge) >= 4 /\ Len(sponge') >= 4
  BY SequenceLength DEF Extends, ServedInv, LengthsInv
<1>3. ListsInv'
  BY <1>1 DEF ServedInv, ListsInv, Extends
<1>4. LengthsInv'
  BY <1>2, StillGiven DEF ServedInv, LengthsInv
<1>5. ASSUME ~dead' PROVE StartsInv'
  <2>1. StartsInv /\ ListsInv /\ fresh \in Nat
    BY <1>5 DEF ServedInv, LengthsInv
  <2>2. Above(2)' /\ sponge'[2] = sponge[2]
    BY <1>1, <1>2, <2>1, AboveGrows DEF StartsInv
  <2>3. \E k \in 1 .. fresh' : sponge'[2].x = Op("trng", k, <<>>)
    BY <2>1, <2>2, StillGiven DEF StartsInv
  <2>4. \A s \in Given' : Len(s) >= 4 => \E k \in 1 .. fresh' : s[2].x = Op("trng", k, <<>>)
    BY <1>1, <2>1, StillGiven DEF StartsInv
  <2> QED BY <2>2, <2>3, <2>4 DEF StartsInv
<1>6. ASSUME ~faulted' PROVE LoadsInv'
  <2>1. LoadsInv /\ ListsInv
    BY <1>6 DEF ServedInv
  <2>2. Above(4)' /\ sponge'[4] = sponge[4]
    BY <1>1, <1>2, <2>1, AboveGrows DEF LoadsInv
  <2> QED BY <1>1, <2>1, <2>2 DEF LoadsInv
<1>7. ~dead' \/ ~faulted' => NothingTwice'
  BY DEF ServedInv, NothingTwice
<1> QED BY <1>3, <1>4, <1>5, <1>6, <1>7 DEF ServedInv

LEMMA LongIsNotRubbish ==
  ASSUME NEW s, Len(s) \in Nat, Len(s) >= 4
  PROVE  s # Rubbish
<1>1. Len(Rubbish) = 1
  BY OpIsOne DEF Rubbish
<1> QED BY <1>1

\* A request of the application, or a seed saved while it uses the generator:
\* what is squeezed was neither served nor saved before.
LEMMA ServeKeeps ==
  ASSUME ServedInv, sponge # <<>>, ready, NEW out,
         Extends(sponge, out), Extends(out, sponge'), Len(out) < Len(sponge'),
         fresh' \in Nat, fresh <= fresh', ~dead' => ~dead, UNCHANGED ready,
         \/ /\ outputs' = outputs \cup {out} /\ UNCHANGED <<seeds, storage, faulted>>
            /\ repeated' = (repeated \/ out \in outputs)
         \/ /\ seeds' = seeds \cup {out} /\ UNCHANGED <<outputs, repeated>>
            /\ ~faulted' => ~faulted /\ storage' = out
  PROVE  ServedInv'
<1>1. Given' = Given \cup {out}
  BY DEF Given
<1>2. /\ Len(sponge) \in Nat /\ Len(sponge') \in Nat /\ Len(out) \in Nat
      /\ Len(sponge) >= 4 /\ Len(sponge') >= 4 /\ Len(out) >= 4
      /\ IsSequence(out) /\ IsSequence(sponge') /\ ListsInv /\ LengthsInv
  BY SequenceLength DEF Extends, ServedInv, LengthsInv
<1>3. ListsInv'
  BY <1>1, <1>2 DEF ListsInv
<1>4. LengthsInv'
  <2>1. \A s \in seeds' : Len(s) >= 4
    BY <1>2 DEF LengthsInv
  <2>2. ASSUME NEW s \in outputs', Len(s) < 4
        PROVE  \E k \in 1 .. fresh' : s = Op("trng", k, <<>>)
    <3>1. s \in outputs
      BY <1>2, <2>2
    <3> QED BY <1>2, <2>2, <3>1, StillGiven DEF LengthsInv
  <2> QED BY <1>2, <2>1, <2>2 DEF LengthsInv
<1>5. ASSUME ~dead' PROVE StartsInv' /\ out \notin Given
  <2>1. StartsInv /\ fresh \in Nat
    BY <1>2, <1>5 DEF ServedInv, LengthsInv
  <2>2. /\ Above(2)' /\ out \notin Given
        /\ out[2] = sponge[2] /\ sponge'[2] = sponge[2]
    BY <1>1, <1>2, <2>1, AboveServes DEF StartsInv
  <2>3. /\ \E k \in 1 .. fresh' : sponge'[2].x = Op("trng", k, <<>>)
        /\ \E k \in 1 .. fresh' : out[2].x = Op("trng", k, <<>>)
    BY <2>1, <2>2, StillGiven DEF StartsInv
  <2>4. \A s \in Given' : Len(s) >= 4 => \E k \in 1 .. fresh' : s[2].x = Op("trng", k, <<>>)
    BY <1>1, <2>1, <2>3, StillGiven DEF StartsInv
  <2> QED BY <2>2, <2>3, <2>4 DEF StartsInv
<1>6. ASSUME ~faulted' PROVE LoadsInv' /\ out \notin Given
  <2>1. LoadsInv
    BY <1>6 DEF ServedInv
  <2>2. /\ Above(4)' /\ out \notin Given
        /\ out[4] = sponge[4] /\ sponge'[4] = sponge[4]
    BY <1>1, <1>2, <2>1, AboveServes DEF LoadsInv
  <2>3. sponge'[4].x \in Loaded /\ out[4].x \in Loaded
    BY <2>1, <2>2 DEF LoadsInv
  <2>4. Loaded' = Loaded
    BY <2>3 DEF Loaded
  <2>5. out \notin Loaded
    <3>1. out # Rubbish
      BY <1>2, LongIsNotRubbish
    <3> QED BY <2>1, <2>2, <3>1 DEF LoadsInv, Given
  <2>6. storage' \in seeds' \cup {Rubbish} /\ storage' \notin Loaded'
    BY <1>6, <2>1, <2>4, <2>5 DEF LoadsInv
  <2>7. Loaded' \subseteq seeds' \cup {Rubbish}
    BY <2>1, <2>4 DEF LoadsInv
  <2>8. \A s \in outputs' : Len(s) >= 4 => s[4].x \in Loaded'
    BY <2>1, <2>3, <2>4 DEF LoadsInv
  <2> QED BY <2>2, <2>3, <2>4, <2>6, <2>7, <2>8 DEF LoadsInv
<1>7. ASSUME ~dead' \/ ~faulted' PROVE NothingTwice'
  <2>1. NothingTwice /\ out \notin Given
    BY <1>5, <1>6, <1>7 DEF ServedInv
  <2>2. out \notin outputs /\ out \notin seeds
    BY <2>1 DEF Given
  <2>3. ~repeated'
    BY <2>1, <2>2, Zenon DEF NothingTwice
  <2>4. outputs' \cap seeds' = {}
    BY <2>1, <2>2 DEF NothingTwice
  <2> QED BY <2>3, <2>4 DEF NothingTwice
<1> QED BY <1>3, <1>4, <1>5, <1>6, <1>7 DEF ServedInv

\* The values of the source are told apart by their numbers.
LEMMA SourceValuesDiffer ==
  ASSUME NEW j \in Nat, NEW k \in Nat, Op("trng", j, <<>>) = Op("trng", k, <<>>)
  PROVE  j = k
<1>1. Op("trng", j, <<>>)[1].n = j /\ Op("trng", k, <<>>)[1].n = k
  BY OpIsOne
<1> QED BY <1>1

LEMMA NewValue ==
  ASSUME fresh \in Nat, NEW x, \E k \in 1 .. fresh : x = Op("trng", k, <<>>)
  PROVE  x # Op("trng", fresh + 1, <<>>)
<1>1. PICK k \in 1 .. fresh : x = Op("trng", k, <<>>)
  OBVIOUS
<1>2. k \in Nat /\ fresh + 1 \in Nat /\ k # fresh + 1
  OBVIOUS
<1> QED BY <1>1, <1>2, SourceValuesDiffer

LEMMA WorkingSource ==
  ASSUME NEW t \in ascon_trng_generate
  PROVE  t.ok = 0 \/ (t.ok = 1 /\ t.value = Op("trng", fresh + 1, <<>>) /\ t.fresh = fresh + 1)
BY DEF ascon_trng_generate

LEMMA Started ==
  ASSUME NEW t
  PROVE  LET s == ascon_random_init(t) IN
         IsSequence(s) /\ Len(s) = 3 /\ s[2].x = t.value
<1> DEFINE o == Op("SpongePRNG", 0, <<>>)
           v == t.value
           a == Absorbed(o, v)
           s == ascon_random_rekey(a)
<1>1. IsSequence(o) /\ Len(o) = 1
  BY OpIsOne
<1> HIDE DEF o, v
<1>2. Extends(o, a) /\ Len(a) = Len(o) + 1 /\ a[Len(o) + 1].x = v
  BY <1>1, AbsorbedOne
<1> HIDE DEF a
<1>3. Len(a) = 2 /\ a[2].x = v /\ IsSequence(a)
  BY <1>1, <1>2 DEF Extends
<1>4. Extends(a, s) /\ Len(s) = Len(a) + 1
  BY <1>3, Rekeyed
<1> HIDE DEF s
<1>5. IsSequence(s) /\ Len(s) = 3 /\ s[2].x = v
  BY <1>3, <1>4 DEF Extends
<1> QED BY <1>5 DEF ascon_random_init, o, v, a, s

\* A start brings a mark that nothing served or saved has.
LEMMA BootKeeps ==
  ASSUME ServedInv, Boot
  PROVE  ServedInv'
<1>1. PICK t \in ascon_trng_generate :
        sponge' = ascon_random_init(t) /\ Used(t, TRUE)
  BY DEF Boot, Becomes
<1>2. sponge = <<>> /\ UNCHANGED <<storage, ready, outputs, repeated, seeds, faulted>>
  BY DEF Boot
<1>3. /\ ListsInv /\ LengthsInv /\ fresh \in Nat
      /\ fresh' \in Nat /\ fresh <= fresh'
      /\ ~dead' => ~dead
  BY <1>1, SourceGoesOn DEF ServedInv, LengthsInv
<1>4. IsSequence(sponge') /\ Len(sponge') = 3 /\ sponge'[2].x = t.value
  BY <1>1, Started
<1>5. ~ready
  BY <1>2, <1>3, EmptySequence DEF LengthsInv
<1>6. Given' = Given /\ Loaded' = Loaded
  BY <1>2 DEF Given, Loaded
<1>7. ListsInv'
  BY <1>3, <1>4, <1>6 DEF ListsInv
<1>8. LengthsInv'
  BY <1>2, <1>3, <1>4, <1>5, StillGiven DEF LengthsInv
<1>9. ASSUME ~dead' PROVE StartsInv'
  <2>1. t.ok # 0
    BY <1>1, <1>9, Zenon DEF Used
  <2>2. t.value = Op("trng", fresh + 1, <<>>) /\ t.fresh = fresh + 1
    BY <2>1, WorkingSource
  <2>3. fresh' = fresh + 1 /\ sponge'[2].x = Op("trng", fresh + 1, <<>>)
    BY <1>1, <1>4, <2>2 DEF Used
  <2>4. StartsInv
    BY <1>3, <1>9 DEF ServedInv
  <2>5. Above(2)'
    BY <1>3, <1>6, <2>3, <2>4, NewValue DEF Above, StartsInv
  <2>6. \E k \in 1 .. fresh' : sponge'[2].x = Op("trng", k, <<>>)
    BY <1>3, <2>3
  <2>7. \A s \in Given' : Len(s) >= 4 => \E k \in 1 .. fresh' : s[2].x = Op("trng", k, <<>>)
    BY <1>3, <1>6, <2>4, StillGiven DEF StartsInv
  <2> QED BY <2>5, <2>6, <2>7 DEF StartsInv
<1>10. ASSUME ~faulted' PROVE LoadsInv'
  <2>1. LoadsInv
    BY <1>2, <1>10 DEF ServedInv
  <2> QED BY <1>2, <1>4, <1>5, <1>6, <2>1 DEF LoadsInv
<1>11. ~dead' \/ ~faulted' => NothingTwice'
  BY <1>2, <1>3 DEF ServedInv, NothingTwice
<1> QED BY <1>7, <1>8, <1>9, <1>10, <1>11 DEF ServedInv

\* A value of the source handed out as it is.
LEMMA OneShotKeeps ==
  ASSUME ServedInv, OneShotRandom
  PROVE  ServedInv'
<1> DEFINE v == Op("trng", fresh + 1, <<>>)
<1>1. PICK t \in ascon_trng_generate :
        /\ t.ok = 1 /\ fresh' = t.fresh /\ outputs' = outputs \cup {t.value}
        /\ repeated' = (repeated \/ t.value \in outputs)
  BY DEF OneShotRandom
<1>2. UNCHANGED <<sponge, storage, ready, seeds, faulted, dead>>
  BY DEF OneShotRandom
<1>3. t.value = v /\ t.fresh = fresh + 1
  BY <1>1, WorkingSource
<1>4. ListsInv /\ LengthsInv /\ fresh \in Nat
  BY DEF ServedInv, LengthsInv
<1>5. IsSequence(v) /\ Len(v) = 1
  BY OpIsOne
<1>6. ~\E k \in 1 .. fresh : v = Op("trng", k, <<>>)
  BY <1>4, NewValue
<1>7. \E k \in 1 .. fresh + 1 : v = Op("trng", k, <<>>)
  BY <1>4
<1> HIDE DEF v
<1>8. v \notin outputs /\ v \notin seeds
  <2>1. Len(v) < 4 /\ ~(Len(v) >= 4)
    BY <1>5
  <2>2. v \notin seeds
    BY <1>4, <2>1, Zenon DEF LengthsInv
  <2>3. v \notin outputs
    BY <1>4, <1>6, <2>1, Zenon DEF LengthsInv
  <2> QED BY <2>2, <2>3
<1>9. /\ fresh' = fresh + 1 /\ outputs' = outputs \cup {v}
      /\ Given' = Given \cup {v} /\ Loaded' = Loaded
  BY <1>1, <1>2, <1>3 DEF Given, Loaded
<1>10. ListsInv'
  BY <1>2, <1>4, <1>5, <1>9 DEF ListsInv
<1>11. LengthsInv'
  BY <1>2, <1>4, <1>7, <1>9, StillGiven DEF LengthsInv
<1>12. \A p \in {2, 4} : Above(p) => Above(p)'
  BY <1>2, <1>5, <1>9 DEF Above
<1>13. ASSUME ~dead' PROVE StartsInv'
  <2>1. StartsInv
    BY <1>2, <1>13 DEF ServedInv
  <2>2. sponge' # <<>> =>
          (\E k \in 1 .. fresh' : sponge'[2].x = Op("trng", k, <<>>)) /\ Above(2)'
    BY <1>2, <1>4, <1>9, <1>12, <2>1, StillGiven DEF StartsInv
  <2>3. \A s \in Given' : Len(s) >= 4 => \E k \in 1 .. fresh' : s[2].x = Op("trng", k, <<>>)
    BY <1>4, <1>5, <1>9, <2>1, StillGiven DEF StartsInv
  <2> QED BY <2>2, <2>3 DEF StartsInv
<1>14. ASSUME ~faulted' PROVE LoadsInv'
  <2>1. LoadsInv
    BY <1>2, <1>14 DEF ServedInv
  <2> QED BY <1>2, <1>5, <1>9, <1>12, <2>1 DEF LoadsInv
<1>15. ASSUME ~dead' \/ ~faulted' PROVE NothingTwice'
  <2>1. NothingTwice
    BY <1>2, <1>15 DEF ServedInv
  <2>2. ~repeated'
    BY <1>1, <1>3, <1>8, <2>1, Zenon DEF NothingTwice
  <2>3. outputs' \cap seeds' = {}
    BY <1>2, <1>8, <1>9, <2>1 DEF NothingTwice
  <2> QED BY <2>2, <2>3 DEF NothingTwice
<1> QED BY <1>10, <1>11, <1>13, <1>14, <1>15 DEF ServedInv

\* Power is lost: only what concerned the list goes.
LEMMA PowerLossKeeps ==
  ASSUME ServedInv, PowerLoss
  PROVE  ServedInv'
<1>1. /\ sponge' = <<>> /\ ready' = FALSE
      /\ UNCHANGED <<storage, fresh, outputs, repeated, seeds, faulted, dead>>
  BY DEF PowerLoss
<1>2. Given' = Given /\ Loaded' = Loaded
  BY <1>1 DEF Given, Loaded
<1>3. ListsInv'
  BY <1>1, <1>2, EmptySequence DEF ServedInv, ListsInv
<1>4. LengthsInv'
  BY <1>1 DEF ServedInv, LengthsInv
<1>5. ~dead' => StartsInv'
  BY <1>1, <1>2 DEF ServedInv, StartsInv
<1>6. ~faulted' => LoadsInv'
  BY <1>1, <1>2 DEF ServedInv, LoadsInv
<1>7. ~dead' \/ ~faulted' => NothingTwice'
  BY <1>1 DEF ServedInv, NothingTwice
<1> QED BY <1>3, <1>4, <1>5, <1>6, <1>7 DEF ServedInv

\* The load of a seed, in whatever way it ends: a seed is saved in any case.  It
\* carries the mark of the seed that was loaded, and no seed before it does.
LEMMA SeedLoadKeeps ==
  ASSUME ServedInv, ascon_random_load_seed
  PROVE  ServedInv'
<1>1. PICK n \in Read, t \in ascon_trng_generate :
        LET fed  == IF n = SEED_SIZE THEN ascon_random_feed(Generator, storage)
                    ELSE Generator
            next == ascon_random_fetch(ascon_random_reseed(fed, t), t, SEED_SIZE)
        IN  /\ sponge' = next.gen.sponge /\ Used(t, TRUE)
            /\ \E w \in Write(next.out) :
                  /\ storage' = w.storage
                  /\ faulted' = (faulted \/ {n, w.written} # {SEED_SIZE})
            /\ seeds' = seeds \cup {next.out}
            /\ ready' = (n = SEED_SIZE)
  BY DEF ascon_random_load_seed, Becomes
<1> DEFINE fed == IF n = SEED_SIZE THEN ascon_random_feed(Generator, storage) ELSE Generator
           r == ascon_random_reseed(fed, t)
           out == ascon_random_fetch(r, t, SEED_SIZE).out
<1>2. /\ sponge # <<>> /\ ~ready /\ UNCHANGED <<outputs, repeated>>
  BY DEF ascon_random_load_seed
<1>3. /\ sponge' = ascon_random_fetch(r, t, SEED_SIZE).gen.sponge
      /\ seeds' = seeds \cup {out}
      /\ Used(t, TRUE)
  BY <1>1
<1>4. ~faulted' => ~faulted /\ n = SEED_SIZE /\ storage' = out
  <2>1. PICK w \in Write(out) : /\ storage' = w.storage
                                /\ faulted' = (faulted \/ {n, w.written} # {SEED_SIZE})
    BY <1>1
  <2> HIDE DEF out
  <2>2. w = [written |-> SEED_SIZE, storage |-> out] \/ w.written = -1
    BY DEF Write
  <2>3. {n, w.written} = {SEED_SIZE} => n = SEED_SIZE /\ w.written = SEED_SIZE
    OBVIOUS
  <2>4. SEED_SIZE # -1
    BY PrngAssumption
  <2>5. w.written = SEED_SIZE => w.storage = out
    BY <2>2, <2>4
  <2> QED BY <2>1, <2>3, <2>5, Zenon
<1>5. ListsInv /\ LengthsInv /\ fresh \in Nat /\ IsSequence(sponge)
  BY DEF ServedInv, ListsInv, LengthsInv
<1>6. /\ Extends(sponge, fed.sponge)
      /\ n = SEED_SIZE => fed.sponge[Len(sponge) + 1].x = storage
                          /\ Len(fed.sponge) = Len(sponge) + 3
  <2>1. CASE n = SEED_SIZE
    BY <1>5, <2>1, FeedAdds
  <2>2. CASE n # SEED_SIZE
    <3>1. fed.sponge = sponge
      BY <2>2 DEF Generator
    <3> QED BY <1>5, <2>2, <3>1, SequenceLength DEF Extends
  <2> QED BY <2>1, <2>2
<1> HIDE DEF fed
<1>7. Extends(fed.sponge, r.sponge) /\ Len(r.sponge) = Len(fed.sponge) + 2
  <2>1. IsSequence(fed.sponge)
    BY <1>6 DEF Extends
  <2> QED BY <2>1, ReseedAdds
<1> HIDE DEF r
<1>8. Extends(r.sponge, out) /\ Extends(out, sponge') /\ Len(out) < Len(sponge')
  <2>1. IsSequence(r.sponge)
    BY <1>7 DEF Extends
  <2> QED BY <1>3, <2>1, FetchAdds
<1> HIDE DEF out
<1>9. Extends(fed.sponge, out) /\ Extends(sponge, out)
  BY <1>6, <1>7, <1>8, ExtendsFurther
<1>10. /\ Len(sponge) \in Nat /\ Len(sponge) >= 3
       /\ Len(fed.sponge) \in Nat /\ Len(out) \in Nat /\ Len(sponge') \in Nat
       /\ Len(out) >= 4 /\ Len(sponge') >= 4
  <2>1. /\ Len(sponge) \in Nat /\ Len(sponge) >= 3
        /\ Len(fed.sponge) \in Nat /\ Len(r.sponge) \in Nat
        /\ Len(out) \in Nat /\ Len(sponge') \in Nat
        /\ Len(sponge) <= Len(fed.sponge) /\ Len(r.sponge) <= Len(out)
    BY <1>2, <1>5, <1>6, <1>7, <1>8, SequenceLength DEF Extends, LengthsInv
  <2> QED BY <1>7, <1>8, <2>1
<1>11. Given' = Given \cup {out}
  BY <1>2, <1>3 DEF Given
<1>12. fresh' \in Nat /\ fresh <= fresh' /\ (~dead' => ~dead)
  BY <1>3, <1>5, SourceGoesOn
<1>13. ListsInv'
  BY <1>5, <1>8, <1>11 DEF ListsInv, Extends
<1>14. LengthsInv'
  BY <1>2, <1>3, <1>5, <1>10, <1>12, StillGiven DEF LengthsInv
<1>15. ASSUME ~dead' PROVE StartsInv' /\ out \notin outputs
  <2>1. StartsInv
    BY <1>12, <1>15 DEF ServedInv
  <2>2. /\ Above(2)' /\ out \notin Given
        /\ out[2] = sponge[2] /\ sponge'[2] = sponge[2]
    BY <1>2, <1>5, <1>8, <1>9, <1>10, <1>11, <2>1, AboveServes DEF StartsInv
  <2>3. /\ \E k \in 1 .. fresh' : sponge'[2].x = Op("trng", k, <<>>)
        /\ \E k \in 1 .. fresh' : out[2].x = Op("trng", k, <<>>)
    BY <1>2, <1>5, <1>12, <2>1, <2>2, StillGiven DEF StartsInv
  <2>4. \A s \in Given' : Len(s) >= 4 => \E k \in 1 .. fresh' : s[2].x = Op("trng", k, <<>>)
    BY <1>5, <1>11, <1>12, <2>1, <2>3, StillGiven DEF StartsInv
  <2> QED BY <2>2, <2>3, <2>4 DEF StartsInv, Given
<1>16. ASSUME ~faulted' PROVE LoadsInv' /\ out \notin outputs
  <2>1. LoadsInv /\ n = SEED_SIZE /\ storage' = out
    BY <1>4, <1>16 DEF ServedInv
  <2>2. ready'
    BY <1>1, <2>1
  <2>3. Len(sponge) = 3
    BY <1>2, <2>1 DEF LoadsInv
  <2>4. fed.sponge[4].x = storage /\ 4 \in 1 .. Len(fed.sponge)
    BY <1>6, <2>1, <2>3
  <2>5. out[4].x = storage /\ sponge'[4].x = storage
    <3>1. out[4] = fed.sponge[4]
      BY <1>9, <2>4 DEF Extends
    <3>2. sponge'[4] = out[4]
      BY <1>8, <1>10 DEF Extends
    <3> QED BY <2>4, <3>1, <3>2
  <2>6. Loaded' = Loaded \cup {storage}
    BY <1>3, <2>5 DEF Loaded
  <2>7. storage \notin Loaded /\ storage \in seeds \cup {Rubbish}
    BY <2>1 DEF LoadsInv
  <2>8. out \notin seeds /\ out \notin outputs
    BY <1>10, <2>1, <2>5, <2>7 DEF LoadsInv, Loaded
  <2>9. out # Rubbish
    BY <1>10, LongIsNotRubbish
  <2>10. Loaded' \subseteq seeds' \cup {Rubbish}
    BY <1>3, <2>1, <2>6, <2>7 DEF LoadsInv
  <2>11. storage' \in seeds' \cup {Rubbish} /\ storage' \notin Loaded'
    BY <1>3, <2>1, <2>6, <2>7, <2>8, <2>9 DEF LoadsInv
  <2>12. \A s \in outputs' : Len(s) >= 4 => s[4].x \in Loaded'
    BY <1>2, <2>1, <2>6 DEF LoadsInv
  <2>13. Above(4)'
    <3> SUFFICES ASSUME NEW s \in Given', Len(s) >= 4, s[4].x = storage
                 PROVE  Len(s) < Len(sponge')
      BY <2>5 DEF Above
    <3>1. s \notin seeds
      BY <2>7 DEF Loaded
    <3>2. s \notin outputs
      BY <2>1, <2>7 DEF LoadsInv
    <3> QED BY <1>8, <1>11, <3>1, <3>2 DEF Given
  <2> QED BY <2>2, <2>5, <2>6, <2>8, <2>10, <2>11, <2>12, <2>13 DEF LoadsInv
<1>17. ASSUME ~dead' \/ ~faulted' PROVE NothingTwice'
  <2>1. NothingTwice /\ out \notin outputs
    BY <1>4, <1>12, <1>15, <1>16, <1>17 DEF ServedInv
  <2> QED BY <1>2, <1>3, <2>1 DEF NothingTwice
<1> QED BY <1>13, <1>14, <1>15, <1>16, <1>17 DEF ServedInv

LEMMA FetchKeepsServed ==
  ASSUME ServedInv, NEW n \in FetchSizes, Fetch(n)
  PROVE  ServedInv'
<1>1. PICK t \in ascon_trng_generate :
        LET f == ascon_random_fetch(Generator, t, n) IN
        /\ sponge' = f.gen.sponge /\ Used(t, f.trng)
        /\ outputs' = outputs \cup {f.out}
        /\ repeated' = (repeated \/ f.out \in outputs)
  BY DEF Fetch, Becomes
<1> DEFINE out == ascon_random_fetch(Generator, t, n).out
           asked == ascon_random_fetch(Generator, t, n).trng
<1>2. /\ sponge # <<>> /\ ready
      /\ UNCHANGED <<storage, ready, seeds, faulted>>
  BY DEF Fetch, Request
<1>3. Generator.sponge = sponge /\ IsSequence(sponge) /\ fresh \in Nat
  BY DEF Generator, ServedInv, ListsInv, LengthsInv
<1>4. Extends(sponge, out) /\ Extends(out, sponge') /\ Len(out) < Len(sponge')
  BY <1>1, <1>3, FetchAdds
<1>5. asked \in BOOLEAN
  BY DEF ascon_random_fetch
<1>6. Used(t, asked) /\ outputs' = outputs \cup {out} /\ repeated' = (repeated \/ out \in outputs)
  BY <1>1
<1> HIDE DEF out, asked
<1>7. fresh' \in Nat /\ fresh <= fresh' /\ (~dead' => ~dead)
  BY <1>3, <1>5, <1>6, SourceGoesOn
<1> QED BY <1>2, <1>4, <1>6, <1>7, ServeKeeps

LEMMA SaveKeeps ==
  ASSUME ServedInv, ascon_random_save_seed
  PROVE  ServedInv'
<1>1. PICK t \in ascon_trng_generate :
        LET f == ascon_random_fetch(Generator, t, SEED_SIZE) IN
        /\ sponge' = f.gen.sponge /\ Used(t, f.trng)
        /\ seeds' = seeds \cup {f.out}
        /\ \E w \in Write(f.out) : /\ storage' = w.storage
                                   /\ faulted' = (faulted \/ w.written # SEED_SIZE)
  BY DEF ascon_random_save_seed, Becomes
<1> DEFINE out == ascon_random_fetch(Generator, t, SEED_SIZE).out
           asked == ascon_random_fetch(Generator, t, SEED_SIZE).trng
<1>2. sponge # <<>> /\ ready /\ UNCHANGED <<ready, outputs, repeated>>
  BY DEF ascon_random_save_seed, Request
<1>3. Generator.sponge = sponge /\ IsSequence(sponge) /\ fresh \in Nat
  BY DEF Generator, ServedInv, ListsInv, LengthsInv
<1>4. Extends(sponge, out) /\ Extends(out, sponge') /\ Len(out) < Len(sponge')
  BY <1>1, <1>3, FetchAdds
<1>5. asked \in BOOLEAN
  BY DEF ascon_random_fetch
<1>6. Used(t, asked) /\ seeds' = seeds \cup {out}
  BY <1>1
<1>7. ~faulted' => ~faulted /\ storage' = out
  <2>1. PICK w \in Write(out) : /\ storage' = w.storage
                                /\ faulted' = (faulted \/ w.written # SEED_SIZE)
    BY <1>1
  <2> HIDE DEF out
  <2>2. w = [written |-> SEED_SIZE, storage |-> out] \/ w.written = -1
    BY DEF Write
  <2>3. SEED_SIZE # -1
    BY PrngAssumption
  <2>4. w.written = SEED_SIZE => w.storage = out
    BY <2>2, <2>3
  <2> QED BY <2>1, <2>4, Zenon
<1> HIDE DEF out, asked
<1>8. fresh' \in Nat /\ fresh <= fresh' /\ (~dead' => ~dead)
  BY <1>3, <1>5, <1>6, SourceGoesOn
<1> QED BY <1>2, <1>4, <1>6, <1>7, <1>8, ServeKeeps

LEMMA FeedKeeps ==
  ASSUME ServedInv, Feed
  PROVE  ServedInv'
<1>1. /\ sponge # <<>> /\ ready
      /\ UNCHANGED <<storage, ready, fresh, outputs, repeated, seeds, faulted, dead>>
  BY DEF Feed, Request
<1>2. IsSequence(sponge) /\ fresh \in Nat
  BY DEF ServedInv, ListsInv, LengthsInv
<1>3. sponge' = ascon_random_feed(Generator, Op("entropy", 0, <<>>)).sponge
  BY DEF Feed, Becomes
<1>4. Extends(sponge, sponge')
  BY <1>2, <1>3, FeedAdds
<1> QED BY <1>1, <1>2, <1>4, GrowKeeps

LEMMA ReseedKeepsServed ==
  ASSUME ServedInv, Reseed
  PROVE  ServedInv'
<1>1. PICK t \in ascon_trng_generate :
        sponge' = ascon_random_reseed(Generator, t).sponge /\ Used(t, TRUE)
  BY DEF Reseed, Becomes
<1>2. /\ sponge # <<>> /\ ready
      /\ UNCHANGED <<storage, ready, outputs, repeated, seeds, faulted>>
  BY DEF Reseed, Request
<1>3. Generator.sponge = sponge /\ IsSequence(sponge) /\ fresh \in Nat
  BY DEF Generator, ServedInv, ListsInv, LengthsInv
<1>4. Extends(sponge, sponge')
  BY <1>1, <1>3, ReseedAdds
<1>5. fresh' \in Nat /\ fresh <= fresh' /\ (~dead' => ~dead)
  BY <1>1, <1>3, SourceGoesOn
<1> QED BY <1>2, <1>4, <1>5, GrowKeeps

-----------------------------------------------------------------------------
\* ServedInv: what was served and saved, in every reachable state.
THEOREM ServedInvariant == Spec => []ServedInv
<1>1. Init => ServedInv
  BY ServedInvInit
<1>2. ServedInv /\ [Next]_vars => ServedInv'
  <2> SUFFICES ASSUME ServedInv, [Next]_vars PROVE ServedInv'
    OBVIOUS
  <2>1. CASE Boot
    BY <2>1, BootKeeps
  <2>2. CASE ascon_random_load_seed
    BY <2>2, SeedLoadKeeps
  <2>3. CASE ascon_random_save_seed
    BY <2>3, SaveKeeps
  <2>4. CASE \E n \in FetchSizes : Fetch(n)
    BY <2>4, FetchKeepsServed
  <2>5. CASE Feed
    BY <2>5, FeedKeeps
  <2>6. CASE Reseed
    BY <2>6, ReseedKeepsServed
  <2>7. CASE OneShotRandom
    BY <2>7, OneShotKeeps
  <2>8. CASE PowerLoss
    BY <2>8, PowerLossKeeps
  <2>9. CASE UNCHANGED vars
    BY <2>9 DEF ServedInv, ListsInv, LengthsInv, StartsInv, LoadsInv, NothingTwice, Given,
                Loaded, Above
  <2> QED BY <2>1, <2>2, <2>3, <2>4, <2>5, <2>6, <2>7, <2>8, <2>9 DEF Next
<1> QED BY <1>1, <1>2, PTL DEF Spec

\* RepeatsOnlyIfAllFails: the application is served twice from one state only if
\* the storage failed and the hardware source was dead, over any restarts.
THEOREM RepeatsNeedBothFaults == Spec => []RepeatsOnlyIfAllFails
<1>1. ServedInv => RepeatsOnlyIfAllFails
  BY DEF ServedInv, NothingTwice, RepeatsOnlyIfAllFails
<1> QED BY <1>1, ServedInvariant, PTL

\* SeedsStaySecret: and only then is a saved seed also handed out.
THEOREM SeedsNeedBothFaults == Spec => []SeedsStaySecret
<1>1. ServedInv => SeedsStaySecret
  BY DEF ServedInv, NothingTwice, SeedsStaySecret
<1> QED BY <1>1, ServedInvariant, PTL

=============================================================================
