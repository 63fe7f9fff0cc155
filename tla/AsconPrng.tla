------------------------------ MODULE AsconPrng ------------------------------
(***************************************************************************)
(* The pseudorandom number generator (random/ascon-prng.c, random/         *)
(* ascon-random.c) of a device that saves a seed in non-volatile storage   *)
(* and loses power at any time.                                            *)
(*                                                                         *)
(* The sponge is the list of the operations that were done on it: it       *)
(* returns the same output again exactly if the same operations led to it. *)
(* The hardware source either gives a value it never gave before or, when  *)
(* it has failed, always the same one.  The device does what the           *)
(* documentation asks: after ascon_random_init it loads the saved seed,    *)
(* and uses the generator only if that was reported to have worked.        *)
(***************************************************************************)
EXTENDS Integers, Sequences, FiniteSets

CONSTANTS
    RESEED_LIMIT,   \* ASCON_RANDOM_RESEED_LIMIT: 16384 bytes
    SEED_SIZE,      \* ASCON_RANDOM_SAVED_SEED_SIZE: 32 bytes
    FetchSizes,     \* sizes of the application's requests
    ReadFaults,     \* TRUE if reading the storage may fail
    WriteFaults,    \* TRUE if writing the storage may fail
    MaxBoots,       \* bound on the number of restarts
    MaxOps          \* bound on the requests and failed loads of the application

ASSUME PrngAssumption ==
    /\ RESEED_LIMIT \in Nat \ {0} /\ SEED_SIZE \in Nat \ {0}
    /\ FetchSizes \subseteq Nat
    /\ ReadFaults \in BOOLEAN /\ WriteFaults \in BOOLEAN
    /\ MaxBoots \in Nat /\ MaxOps \in Nat

VARIABLES
    sponge,     \* state->xof: the operations done on it; empty when not in use
    counter,    \* state->counter
    storage,    \* the saved seed
    ready,      \* TRUE once the seed was reported as loaded
    ret,        \* what the last ascon_random_save_seed returned
    fresh,      \* values that the hardware source has given
    boots,      \* restarts so far
    ops,        \* requests, and loads whose read failed, so far
    outputs,    \* history: the states from which the application was served
    repeated,   \* history: TRUE once it was served from the same state twice
    seeds,      \* history: the states from which seeds were saved
    since,      \* history: bytes generated since the last seed from hardware
    last,       \* history: bytes of the last request
    faulted,    \* history: TRUE once reading or writing the storage failed
    dead        \* history: TRUE once the hardware source was found dead

vars == <<sponge, counter, storage, ready, ret, fresh, boots, ops,
          outputs, repeated, seeds, since, last, faulted, dead>>

-----------------------------------------------------------------------------
(***************************************************************************)
(* Values are lists of operations; so are the seeds taken from them.       *)
(***************************************************************************)
Op(name, n, x) == <<[op |-> name, n |-> n, x |-> x]>>

Rubbish == Op("rubbish", 0, <<>>)

\* What the hardware source (random/ascon-trng-dev-random.c) may give next, and
\* whether it says it works: fresh bytes, or zeroes if the device is broken.
\* Interrupted reads are repeated inside.
ascon_trng_generate ==
    {[ok |-> 1, value |-> Op("trng", fresh + 1, <<>>), fresh |-> fresh + 1],
     [ok |-> 0, value |-> Op("dead", 0, <<>>), fresh |-> fresh]}

\* A generator: its sponge, its counter, and the bytes since a hardware seed.
ascon_random_rekey(s) == s \o Op("rekey", 0, <<>>)

Absorbed(s, x) == s \o Op("absorb", 0, x)

ascon_random_init(t) == ascon_random_rekey(Absorbed(Op("SpongePRNG", 0, <<>>), t.value))

ascon_random_reseed(g, t) ==
    [sponge |-> ascon_random_rekey(Absorbed(g.sponge, t.value)), counter |-> 0, since |-> 0]

ascon_random_feed(g, x) ==
    [g EXCEPT !.sponge = ascon_random_rekey(Absorbed(@, x) \o Op("pad", 0, <<>>))]

\* Mutant: the counter starts again with each request.
CountedLast(g, n) == IF n < RESEED_LIMIT THEN n ELSE RESEED_LIMIT

Counted(g, n) == IF n < RESEED_LIMIT THEN g.counter + n ELSE RESEED_LIMIT

\* Mutant: the state is not moved on when output has been taken from it.
FetchWithoutRekey(gen, t, n) ==
    LET g == IF gen.counter >= RESEED_LIMIT THEN ascon_random_reseed(gen, t) ELSE gen
    IN  [gen  |-> [g EXCEPT !.counter = Counted(g, n), !.since = @ + n],
         out  |-> g.sponge,
         trng |-> gen.counter >= RESEED_LIMIT]

\* The output is named by the state it was squeezed from, whatever its length.
ascon_random_fetch(gen, t, n) ==
    LET g == IF gen.counter >= RESEED_LIMIT THEN ascon_random_reseed(gen, t) ELSE gen
    IN  [gen  |-> [sponge  |-> ascon_random_rekey(g.sponge \o Op("squeeze", n, <<>>)),
                   counter |-> Counted(g, n),
                   since   |-> g.since + n],
         out  |-> g.sponge,
         trng |-> gen.counter >= RESEED_LIMIT]

\* storage->write: the number of bytes written, or -1 and the old contents.
Write(seed) ==
    {[written |-> SEED_SIZE, storage |-> seed]}
        \cup (IF WriteFaults THEN {[written |-> -1, storage |-> storage]} ELSE {})

\* storage->read
Read ==
    {SEED_SIZE} \cup (IF ReadFaults THEN {-1} ELSE {})

Generator == [sponge |-> sponge, counter |-> counter, since |-> since]

Becomes(g) == sponge' = g.sponge /\ counter' = g.counter /\ since' = g.since

\* The source is used only if the generator asks it.
Used(t, asked) ==
    /\ fresh' = IF asked THEN t.fresh ELSE fresh
    /\ dead' = (dead \/ (asked /\ t.ok = 0))

Truth(b) == IF b THEN 1 ELSE 0

-----------------------------------------------------------------------------
Init ==
    /\ sponge = <<>> /\ counter = 0 /\ ready = FALSE /\ ret = -1
    /\ storage = Rubbish
    /\ fresh = 0 /\ boots = 0 /\ ops = 0
    /\ outputs = {} /\ repeated = FALSE /\ seeds = {}
    /\ since = 0 /\ last = 0
    /\ faulted = FALSE /\ dead = FALSE

Boot ==
    /\ sponge = <<>> /\ boots < MaxBoots
    /\ \E t \in ascon_trng_generate :
          Becomes([sponge |-> ascon_random_init(t), counter |-> 0, since |-> 0])
          /\ Used(t, TRUE)
    /\ boots' = boots + 1 /\ last' = 0
    /\ UNCHANGED <<storage, ready, ret, ops, outputs, repeated, seeds, faulted>>

\* The application may try again when the read failed.
CountFailed(n) ==
    IF n = SEED_SIZE THEN UNCHANGED ops ELSE ops < MaxOps /\ ops' = ops + 1

\* Mutant: the seed that was loaded stays in the storage.
LoadSeedOnly ==
    /\ sponge # <<>> /\ ~ready
    /\ \E n \in Read, t \in ascon_trng_generate :
          LET fed == IF n = SEED_SIZE THEN ascon_random_feed(Generator, storage)
                     ELSE Generator
          IN  /\ Becomes(ascon_random_reseed(fed, t)) /\ Used(t, TRUE)
              /\ ready' = (n = SEED_SIZE)
              /\ faulted' = (faulted \/ n # SEED_SIZE)
              /\ CountFailed(n)
    /\ last' = 0
    /\ UNCHANGED <<storage, ret, boots, outputs, repeated, seeds>>

\* What the write returns is not looked at.
ascon_random_load_seed ==
    /\ sponge # <<>> /\ ~ready
    /\ \E n \in Read, t \in ascon_trng_generate :
          LET fed  == IF n = SEED_SIZE THEN ascon_random_feed(Generator, storage)
                      ELSE Generator
              next == ascon_random_fetch(ascon_random_reseed(fed, t), t, SEED_SIZE)
          IN  /\ Becomes(next.gen) /\ Used(t, TRUE)
              /\ \E w \in Write(next.out) :
                    /\ storage' = w.storage
                    /\ faulted' = (faulted \/ {n, w.written} # {SEED_SIZE})
              /\ seeds' = seeds \cup {next.out}
              /\ ready' = (n = SEED_SIZE)
              /\ CountFailed(n)
    /\ last' = SEED_SIZE
    /\ UNCHANGED <<ret, boots, outputs, repeated>>

\* The application's requests, once the seed is loaded.
Request == sponge # <<>> /\ ready /\ ops < MaxOps /\ ops' = ops + 1

Fetch(n) ==
    /\ Request
    /\ \E t \in ascon_trng_generate :
          LET f == ascon_random_fetch(Generator, t, n)
          IN  /\ Becomes(f.gen) /\ Used(t, f.trng)
              /\ outputs' = outputs \cup {f.out}
              /\ repeated' = (repeated \/ f.out \in outputs)
    /\ last' = n
    /\ UNCHANGED <<storage, ready, ret, boots, seeds, faulted>>

Feed ==
    /\ Request
    /\ Becomes(ascon_random_feed(Generator, Op("entropy", 0, <<>>)))
    /\ UNCHANGED <<storage, ready, ret, fresh, boots, outputs, repeated, seeds, last,
                   faulted, dead>>

Reseed ==
    /\ Request
    /\ \E t \in ascon_trng_generate :
          Becomes(ascon_random_reseed(Generator, t)) /\ Used(t, TRUE)
    /\ last' = 0
    /\ UNCHANGED <<storage, ready, ret, boots, outputs, repeated, seeds, faulted>>

ascon_random_save_seed ==
    /\ Request
    /\ \E t \in ascon_trng_generate :
          LET f == ascon_random_fetch(Generator, t, SEED_SIZE)
          IN  /\ Becomes(f.gen) /\ Used(t, f.trng)
              /\ seeds' = seeds \cup {f.out}
              /\ \E w \in Write(f.out) :
                    /\ storage' = w.storage /\ ret' = Truth(w.written = SEED_SIZE)
                    /\ faulted' = (faulted \/ w.written # SEED_SIZE)
    /\ last' = SEED_SIZE
    /\ UNCHANGED <<ready, boots, outputs, repeated>>

\* ascon_random: one request served from the hardware source alone, which the
\* application uses only if the source is reported to work.
OneShotRandom ==
    /\ Request
    /\ \E t \in ascon_trng_generate :
          /\ t.ok = 1
          /\ outputs' = outputs \cup {t.value}
          /\ repeated' = (repeated \/ t.value \in outputs)
          /\ fresh' = t.fresh
    /\ UNCHANGED <<sponge, counter, storage, ready, ret, boots, seeds, since, last,
                   faulted, dead>>

\* Power is lost, or the generator is freed: only the storage is left.
PowerLoss ==
    /\ sponge # <<>>
    /\ sponge' = <<>> /\ counter' = 0 /\ ready' = FALSE /\ ret' = -1
    /\ since' = 0 /\ last' = 0
    /\ UNCHANGED <<storage, fresh, boots, ops, outputs, repeated, seeds, faulted, dead>>

Next ==
    \/ Boot \/ ascon_random_load_seed \/ ascon_random_save_seed
    \/ \E n \in FetchSizes : Fetch(n)
    \/ Feed \/ Reseed \/ OneShotRandom \/ PowerLoss

Spec == Init /\ [][Next]_vars

-----------------------------------------------------------------------------
(***************************************************************************)
(* TypeOK: the 32-bit counter stays below twice the limit.                 *)
(***************************************************************************)
TypeOK ==
    /\ counter \in 0 .. 2 * RESEED_LIMIT - 1
    /\ ready \in BOOLEAN /\ repeated \in BOOLEAN
    /\ ret \in {-1, 0, 1}
    /\ boots \in 0 .. MaxBoots /\ ops \in 0 .. MaxOps
    /\ ready => sponge # <<>>

(***************************************************************************)
(* NeverRepeats: the application is never served twice from the same       *)
(* state, across restarts, because every load puts a new seed over the old *)
(* one.                                                                    *)
(***************************************************************************)
NeverRepeats == ~repeated

(***************************************************************************)
(* RepeatsOnlyIfAllFails: that holds as long as one of the two sources of  *)
(* a start works: the storage never failed, or the hardware source never   *)
(* did.                                                                    *)
(***************************************************************************)
RepeatsOnlyIfAllFails == repeated => faulted /\ dead

(***************************************************************************)
(* SeedsStaySecret: and so long, what is saved as a seed is never also     *)
(* handed out: the next start cannot be predicted from any output.         *)
(***************************************************************************)
SeedsStaySecret == outputs \cap seeds # {} => faulted /\ dead

(***************************************************************************)
(* ReseededInTime: before each request fewer than RESEED_LIMIT bytes were  *)
(* generated since the hardware source was last asked, whatever the sizes  *)
(* of the requests and however seeds and entropy came in between.          *)
(***************************************************************************)
ReseededInTime == since - last < RESEED_LIMIT

=============================================================================
