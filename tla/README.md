# Verification of the Ascon suite and of AsconSecure

TLA+ models of this repository: the ASCON C library (`src/src`), the generator
of its AVR assembly (`src/tools/genavr`), its applications (`src/apps`), and
AsconSecure (`src/ascon-lora`), the library that carries encrypted messages
between LoRa boards and a gateway. TLC checks the models on small instances;
for every value of their constants TLAPS proves the safety properties of sender,
link, sponges, PRNG and asconcrypt, and of the ciphers that nonces differ and
refused packets leave nothing. `PROJECT.json` lists components, runs,
mutants, the line of code behind each definition, findings, hazards, theorems.

## 1. The system

| Component | State it keeps | Operations | What makes it correct |
|---|---|---|---|
| AsconSecure sender (`AsconSecureEmissor.cpp`) | globals `senderReady/Key/Prefix/Counter/Reserved`; NVS entries `k`, `p`, `ctr` | `asconSecureBegin`, `asconSecureWrap/Pack` | no nonce twice under a key, over power cuts |
| Provisioning (`AsconSecureProvisionamento.cpp`) | the same NVS entries | `asconSecureProvision`, `asconSecureFactoryReset` | key, prefix and counter never mix |
| AsconSecure receiver (`AsconSecureReceptor.cpp`) | peer table, one NVS counter per key | `ReceiverBegin`, `AddPeer`, `Unwrap/Open` | at most once, in order, over restarts |
| XOF, XOFA, HASH, HASHA (`hash/`) | permutation state, position in the block, mode | `init*`, `absorb`, `squeeze`, `pad`, `copy`, `reinit*`, `free` | the result depends on the data only, not on the pieces |
| Permutation and its backends (`core/`) | 40 bytes in the layout of the backend | add, overwrite, extract, encrypt, decrypt bytes, pad, permute | every layout does the same; the permutation is ASCON's |
| Masking (`masking/`) | words in 2, 3 or 4 shares, masked states, masked keys | load, add, replace, convert, randomize, permute, store | shares recombine to the value; no incomplete set of them tells anything |
| AEAD (`aead/`) | permutation state, position, nonce | one call; `start`, pieces, `finalize`; nonce counters | pieces agree with the one call; refused packets leave nothing; no nonce twice |
| Masked AEAD, SIV, ISAP (`aead/`, `siv/`, `isap/`) | none, or a pre-computed key | one call; ISAP's keys are initialised, saved, loaded | what one class seals the matching class opens |
| C++ classes (`cplusplus/`) | a key and the next nonce | `set_key`, `set_nonce`, `encrypt`, `decrypt`, `clear` | packets are accepted in order, once, without gaps |
| PRF, MAC, KMAC, KDF, HMAC, HKDF, PBKDF2 (`mac/`, `kdf/`, `password/`) | a sponge or a hash, block counters | in pieces and in one call | what their definitions say, at every length |
| PRNG (`random/ascon-prng.c`) | an XOF, a byte counter, a seed in storage | `init`, `fetch`, `reseed`, `feed`, `save_seed`, `load_seed` | no repetition over restarts, reseeding in time |
| asconcrypt (`apps/asconcrypt`) | two open files, a buffer, `exit_val` | encrypt, decrypt, generate a key file | success means the exact output, failure leaves none |
| AVR code generator (`tools/genavr`) | the instructions emitted, registers in use, immediates known to be in registers | arithmetic, logic, moves, shifts, bits, tables, branches, prologues | the emitted code does what its operations mean; generated functions are the permutation |
| Random sources, byte arrays, asconsum, other generators, tests | - | - | I/O, forwarding, printing |

How they interact. AsconSecure and asconcrypt call the AEAD; asconcrypt also
calls PBKDF2, SIV and `ascon_random`. The PRNG and PBKDF2 are built on XOF
objects, everything on the permutation state; the masked modes go through masked
words in between. The C++ sessions keep a key and a nonce around the one-call
functions. `genavr` writes assembly that takes the place of the C permutation. Sender and receiver share no
memory: they are joined by the radio, which the sketches drive, and by the block
that provisioning prints for the gateway. Sender and provisioning share the
globals and the NVS namespace; the lock of the sender guards its counters, not
the NVS and not the setup calls.

What is hard: several tasks packing at once with NVS writes outside the lock;
power lost between any two NVS writes; writes that fail with or without effect;
packets lost, repeated, reordered or damaged; several node numbers for one key;
storage and random source failing together in the PRNG; block boundaries and
changes of mode in the sponges and modes; bytes at odd offsets in words of two
interleaved halves; rotations of shares in conversions; the count of iterations
and blocks at 0, 1 and the end of a byte; knowledge about registers that an
allocation or a branch makes stale; look-ahead of a tag, short reads and error
paths in asconcrypt. Each is listed at its line under "hazards".

## 2. Modules

### AsconSecure

* `LoraSender` - sender and provisioning. One variable per global and per NVS
  entry, `pc`, `reservation` and `counter` for the calls in progress. One action
  per stretch of code that nothing can interrupt visibly: `WrapRefused` and
  `WrapCheck` (the early returns and the first test under the lock),
  `ReserveOpen`, `ReserveWrite`, `ReservePublish` (`reserveCounters`: compute
  under the lock, write to the NVS, publish under the lock), `WrapTake`,
  `WrapSeal`; the `Provision*` and `Reset*` actions write or erase one NVS entry
  each; `PowerCut` is possible everywhere. `Add32` wraps at `WORD`.
* `NonceSource` - the abstract promise of a sender: under one key each counter is
  above all earlier ones, and key and prefix belong together.
* `LoraReceiver` - peer table, NVS counters and `Unwrap` in three steps (verify,
  persist, deliver).
* `SecureChannel` - the abstract promise of the link: only what was sealed, at
  most once, in order. `LoraLink` composes `NonceSource`, a radio that delivers
  anything ever sealed or anything damaged, and `LoraReceiver`.
* `LoraSenderProofs`, `LoraLinkProofs` - theorems. `MCLora*` - instances.

### Sponges

* `AsconState` - the 40 bytes and their operations. The permutation is opaque: a
  state is the list of permutations that led to it, each with its input, and its
  bytes; a byte is the set of distinguishable atoms whose exclusive or it is.
  Equal states mean equal histories, so any byte that is lost, doubled, shifted
  or padded over is visible.
* `AsconXof`, `AsconXofa` - the functions of `ascon-xof.c`, `ascon-hash.c` and
  their `a` variants, as operators on one object. The precomputed IV tables are
  taken to be what the permutation makes of the IV, as in the branch of
  `init_fixed` that computes it; the hash of a function name longer than 32 bytes
  is an opaque value.
* `XofObjects` - programs that call the functions on several objects in any order.
  The reference that their histories hold is what a sponge computes, written
  without chunks, positions or modes: the k-th block is a function of the whole
  input. In the C backends `reinit` is `init`.
* `XofObjectsProofs` - theorems. The loops over blocks are recursive functions
  (`BlocksAbsorbed`, `BlocksSqueezed`), about which inductions can be made.

### Words: backends, permutation, masking

* `BitWords` - machine words whose bits are polynomials over unknown input bits.
  Two bits are equal exactly if they agree for every input, so one evaluation
  settles an operator for all data, and a share is independent of a value if the
  polynomials say so.
* `Permutations` - the ASCON round by its substitution table and its rotations
  (the reference), and as `core/ascon-c64.c` and `core/ascon-c32.c` compute it,
  on 64-bit words and on pairs of interleaved halves, with the round constants
  as they are stored.
* `Sliced32`, `Sliced64` - the byte operations of `core/ascon-sliced32.c` and
  `core/ascon-sliced64.c`, loops, first and last partial words included.
* `StateBackends` - a program on all memories at once: the direct layout, the
  sliced ones, little and big endian; one action per function of the byte
  interface and per macro of `ascon-util-snp.h`.
* `MaskedWord` - the operations of `ascon-masked-word-*.c` for n shares, with the
  representation as CONSTANTS; `MaskedC64`, `MaskedC32`, `MaskedDirect` are its
  instances. `MaskedPermutation` - the rounds of `ascon-x2/x3/x4-*.c`.
  `MaskedState` - masked states and keys. `MaskedObjects` - programs on them, in
  which every random word is a fresh unknown.
* `WordLayer` - both programs and that of `AvrObjects`, one of them in each
  behaviour.

### The AVR code generator

* `AvrMachine` - the interpreter (`interpret.cpp`): registers, flags, memory, one
  case per instruction.
* `AvrEmit`, `AvrCode` - the operations of class `Code` (`code.cpp`, `code.h`):
  what each emits, allocates, releases and believes to know afterwards. Emission
  and allocation, arithmetic, logic and moves are in the first; shifts,
  rotations, bits, tables, prologues and memory in the second.
* `AvrAscon` - the library's generators (`algorithm_ascon*.cpp`) as programs of
  calls, and the prologue and epilogue that `code_out.cpp` writes around them.
  For all five functions the resulting instructions are, one by one, those of the
  checked-in `ascon-asm-avr5.S`, `ascon-x2-asm-avr5.S` and `ascon-x3-asm-avr5.S`;
  reading and writing the stack pointer is one instruction each.
* `AvrObjects` - short generating programs over all operations, executed as they
  are emitted and as written functions, with what each statement means; and the
  five functions in the interpreter's harness and as their caller sees them.

### Modes

* `AsconAead`, `AsconSiv`, `AsconIsap`, `AsconAeadMasked` - the modes as operators
  on the 40 bytes of `AsconState`. The source has one copy per algorithm; a copy
  is here the shared definition applied to a record with its rate, rounds and
  key size. A masked state is its value with the number of shares its words are
  kept in: a conversion left out gives an unknown value.
* `CipherObjects` - two programs exchanging packets, in pieces or by sessions of
  the C++ classes over a line that loses, repeats, reorders and damages them.
  `CipherObjectsProofs` - theorems about their nonces, refused packets and packets
  in pieces.
* `KeyedModes` - PRF, MAC, KMAC, KDF, and HMAC, HKDF, PBKDF2 over a hash that is a
  function of its parameters and input (what `XofObjects` shows of the hash
  functions); `KeyedObjects` - programs on them, with the definitions of the
  standards as reference. `MCModeLayer` - ciphers and keyed modes together.

### Other

* `AsconPrng` - a device that boots, loads its seed, uses the generator and loses
  power. The sponge is the list of operations done on it. The hardware source
  gives a new value or, when dead, always the same one. Each failing read or
  write of the storage leaves the old contents.
* `Asconcrypt` - a run of the program over its arguments. The cipher is opaque: a
  ciphertext byte names its plaintext byte and its place, a tag byte the
  ciphertext it covers. Inputs are intact, truncated at every length, altered at
  every byte, of a foreign format or under another password. `rest` and `data`
  are the unread input and the 16 bytes that decryption holds back, `aead` what
  went through the cipher, `exit_val` the variable of that name. A read that is
  cut short by the system is retried by the code until its buffer is full, and so
  is one step.

* `AsconPrngProofs`, `AsconcryptProofs` - theorems. `SequenceLemmas` - what their
  proofs and others need of sequences and numbers: above all that a set of
  numbers has a least element, from which inductions are made by hand.

A definition with "Mutant" in its comment is a wrong version of the next one; the
mutants of `PROJECT.json` put it in its place, and the property named there then
fails. No specification uses it.

## 3. Runs

| Run | Instance | Shows |
|---|---|---|
| `sender_one_task` | 1 task, 2 key materials, window 2, limit 5, word 8 | no nonce reuse; refinement of `NonceSource` |
| `sender_two_tasks` | 2 tasks, 1 material | no reuse between two loads |
| `sender_two_tasks_restart` | the same | violated: finding 1 |
| `link` | 2 boards, 3 numbers, 2 slots, counters 0..2 | in order, at most once; what is delivered is persisted; no lock-out; refinement of `SecureChannel` |
| `xof` | 1 object of either variant and 6 permutations, or 2 objects and 2 permutations; rate 2, pieces of 0, 1, 3, 5 bytes, names, customization | state, output and one-shot functions agree with the reference; copies go on; parameters stay apart |
| `words` | see below | backends and permutation, masking, generated code |
| `modes` | words of 2 bytes; 3 algorithms in pieces, 12 pairs of sessions; 10 kinds of keyed objects, 15 functions | pieces and one call agree; sessions deliver in order; keyed modes follow their definitions |
| `session_key` | 3 classes, constructed with a key | violated: finding 4 |
| `asconcrypt` | 2 files, tag 2, buffer 4, plaintexts of 0, 1, 4, 5 bytes, maximum 4, reads and opens that fail | exact output or none; the program ends |
| `asconcrypt_write_fault` | 1 file, writes that fail | violated: finding 2 |
| `prng` | 3 boots, 2 requests, limit 4, seed 2, requests of 1, 3, 5 bytes, all faults | repeats only if storage and source both failed |
| `prng_write_fault` | only writes fail | violated: finding 3 |

`words` asks three questions of full-size words.

* *Backends* (`BytesAreState`, `PermutationIsAscon`). One call of every function
  on a state of unknown bits, at five offsets and seven sizes that begin, end or
  stay within words or take them whole; the 40 bytes read back must be what
  `AsconState` says. One round on unknown bits, several rounds on known bytes,
  because polynomials grow with every round.
* *Masking* (`ValueKept`, `NoSubsetReveals`, `RandomizedAfresh`). Two calls in any
  order, in all three representations, with 2, 3 and 4 shares: a conversion after a
  load, a permutation after a randomization. Values and random words are
  unknown, so a property of the shares is one of all their values. Nothing is
  said about the quality of the random source or about intermediate values
  inside a function, nor about the order of instructions.
* *Generated code* (`EmittedCodeDoesIt`, `GeneratedIsAscon`). Eight beginnings
  (each prologue, flags, few free registers), then one statement of a menu over
  all operations of `Code`, or two if the first leaves something that the
  generator remembers; executed at once and as a written function. The five
  functions of the library are run from first rounds 0 and 11 in the
  interpreter's harness and as called functions, where registers that the
  caller relies on, r1 and the stack pointer must be as before. The memory of the
  machine has 768 bytes; the frames take less than that.

Why the bounds are enough. The sender's code compares its counter with the
reservation and the limit only; a window of 2 with a limit of 5 leaves a
reservation that is partly used, several refills, and exhaustion with a last
reservation just below the wrap. Two materials give a provisioning over an older
one. Three node numbers over two slots fill the peer table; counter 0 shares its
representation with "nothing accepted". The code of sponges and modes
distinguishes an empty piece, one that leaves the block open, one that fills it,
and one that spans several: with a rate of one or two words of 2 bytes, pieces
of 0, 1, 3 and 5 reach all of them from every position. ASCON-PRF absorbs eight
bytes at a time, so it gets pieces of 0, 3, 13 and 16, up to 19 in all: its loop
over full blocks is entered at the start of a block and after one was filled up,
and takes one or two; one of the calls has an input of nine bytes. HMAC keys
have 0, 3, 4 and 5 bytes with a block of 4 (just below, at and above it), HKDF
salts 0, 3 and 5. HKDF's counter has 4 values instead of 256, so its end is
reached; PBKDF2 iterates 0, 1, 2 and 3 times. Nonces have 4 bytes of two values:
`<<1, 1, 1>>` carries over all of them and `<<1, 1, 1, 1>>` wraps. Three packets
leave a loss, a repetition and a reordering with one still to come. asconcrypt's
files are empty, shorter than a buffer, ending with it and over the maximum. In
the PRNG requests of 1, 3 and 5 bytes lie below, just below and above the limit
of 4, and two restarts are needed to repeat anything. Output length 20 is one
that is too large to encode and counts as 0. `MaxPermutes`, `MaxPairPermutes`,
`MaxPhaseStart`, `MaxBoots`, `MaxOps`, `MaxCounter`, `MaxText`, `MaxStarts`,
`MaxIn`, `MaxOut`, `MaxPhases`, `MaxExpands`, `MaxCalls`, `MaxMaskedCalls`,
`MaxStatements` and `MAX_STEPS` only end the exploration.

Deadlock is not checked where the system may stop: `asconcrypt` (a program ends),
`prng` (a device may stay off after its last boot), `words`, `modes` and
`session_key` (a program has made its calls).

Fairness. `Asconcrypt` alone has a liveness property, `Terminates`, under
`WF_vars(Next)`: the process goes on being scheduled until it exits, and its reads
and writes return. Nothing else is assumed to be fair; the other properties are
safety properties, for which power may stay off forever. That a session accepts
the packet that is due is stated as the safety property `DueIsAccepted`, because
the line owes nothing.

## 4. Proofs

`LoraSenderProofs`, from `ConstantsAssumption` (the window is not empty, one more
window fits between the limit and the wrap).

*Any number of tasks.* The invariant `SharedInv` has five parts. `CallsInv`: a
call in progress saw a loaded state, and no setup call runs. `PairInv`: the key
is written last and erased pieces cannot mix, so key and prefix always come from
one provisioning. `WindowInv`: reservations, stored or on their way, are at most a
window ahead of the counter - the value to be written was computed from a
counter that only grows. `SinceLoadInv`: counters taken since the last load are
pairwise different and below the next one; this needs the calls that have taken a
counter and not yet sealed, which `NoReuseSinceLoad` alone does not mention. From
it follow `SenderTypeCorrect`, `NoReuseBetweenLoads`, `OnlyProvisionedPairs` and
`AtMostOneWindowLost`.

*One packing task* (`Solo`). `NoNonceReuse` is not inductive: a restart takes its
counter from the NVS, so the stored reservation must be above everything sealed
under the stored key (`UsedInv`). That needs the reservation in RAM to be no
higher than the stored one whenever they belong to the same key, a call that is
between computing and publishing to have seen a counter that did not move
(`SoloCallInv` - what fails with two tasks), and new key material to be new
(`FreshInv`). From `SoloInv` follow `NonceNeverReused`, `ReservationAboveUsed`,
`NeverLowersReservation`, and `SenderImplementsNonceSource`: every step is a step
of `NonceSource` or leaves `emitted` alone.

`LoraLinkProofs`, for any boards, numbers, slots and counters, as long as no read
of the NVS fails (`~NvsReadFaults`): a counter that could not be read registers a
board with counter 0, and then `SlotsRefuseDelivered` is false (section 5).
Writes may fail with or without effect, and power may be lost anywhere.
`DeliveredInOrder` compares neighbours and says nothing of a packet in progress.
`LinkInv` says that all delivered counters rise, that the packet between verify
and deliver is above them and its slot has not changed hands, that once persisted
its counter is in the NVS, and that it was sealed under the key of the slot. From
it follow the five properties of the `link` run that are invariants or action
properties, and `LinkIsSecureChannel`: the delivering step is a step of
`SecureChannel`, a step of a board is one of its `NonceSource`, all others stutter.

`AsconPrngProofs`, from `PrngAssumption` (limit and seed are not empty, requests
have natural lengths). `ReseededInTime` looks one request back. `CounterInv` adds
that a counter below the limit has counted every byte since the last hardware
seed; a request too large to be counted sets the counter to the limit instead.
`RepeatsOnlyIfAllFails` and `SeedsStaySecret` compare whole histories. `ServedInv`
says what keeps them apart: the lists of operations that outputs and seeds were
squeezed from. The second operation of a start absorbed a value of the hardware
source, the fourth the seed that was loaded and overwritten; with either mark of
the current start there are only shorter lists than the generator's (`StartsInv`
while the source works, `LoadsInv` while the storage does). The two faults are conditions of the properties, not
hypotheses of the theorems.

`AsconcryptProofs`, for any files, tags and buffers, from `AsconcryptAssumption` (a
buffer is longer than a tag). `FailureIsClean` allows every fault: outputs that
were not opened yet are as they were, and every way from an opened output to a
failure deletes it. `SuccessMeansExact` needs that no write fails, because of
finding 2. `ExactInv` relates, in the middle of a loop, input, unread rest, the 16
bytes held back, what went through the cipher and what was written; what makes
the end exact is the lemma `AuthenticIsWhole`: bytes that end in the tag of what
precedes them are the whole sealed file, neither cut nor altered.

`XofObjectsProofs`, from `WordAssumption` (a word is not empty) and
`ObjectsAssumption` (lengths are natural numbers): the four properties of the `xof`
run for every word size, both variants, any number of objects and calls, and
pieces, names, customization strings and outputs of every length. The bounds of
the run play no part. The argument has three layers.

* *Operators.* `StateOfPhase` to `PermuteNext` say what the reference makes of one
  byte, block and permutation. `AddedToBlock` and `FillBlock`: adding bytes at a
  position and permuting a full block gives the reference for the longer input.
  `BlocksOfPhase`, `LazyBlocks` and `EagerBlocks` are the inductions over the loops
  of absorb and squeeze.
* *Calls.* With `Object(g)` the object that phase g determines, `Absorbs`, `Pads`,
  `LazySqueezes` (XOF, which permutes before each block of output), `EagerSqueezes`
  (XOFA, which permutes as soon as a block is used up), `Separates` and
  `StartObject` say that each function takes `Object(g)` to the `Object` of the next
  phase, from every position in the block, and that squeeze returns the next bytes
  of the stream.
* *Programs.* `XofInv`: every live object is the `Object` of its phase, delivered
  the stream of that phase, and keeps its start. It is inductive (`Reachable`), one
  lemma for each action. `StateIsReference` and `OutputIsStream` follow at once,
  `OneShotAgrees` because a first phase is its start made longer. `ParametersSeparate`
  speaks of pairs of objects that may have been permuted any number of times, and
  needs the third part, `StartKept`: the first permutation shows function name and
  output length, and the separator stands in exactly one block, just behind the
  one with the end of the customization string (`CustomKept`), or in none;
  `CustomTells` reads the length of the string off that block, its padding and its
  last byte.

`CipherObjectsProofs`, from the assumptions on constants. `NoncesNeverRepeat`
supposes no more packets than nonces, which is the condition under which the code
promises it. `CipherInv` says that the nonces used follow one another and the
object holds the next; the rest is about `ascon_aead_increment_nonce` alone:
`ClosedIsAll` shows, by inductions over digits and places, that a set of nonces
that contains the successor of each member contains all, so a nonce that came
back would close a set smaller than all nonces. `RefusedIsErased` needs only that
a session remains one of its class: every mode's last step is the function that
compares the tags.

The second half of that module is about packets in pieces: `PiecesAreOneShot` and
`StreamIsOpened` for the three algorithms, every word size, pieces, texts and
associated data of every length. Its layers:

* *The sponge.* `Within(v, s, w, k, c)` is the state s after k blocks and c more
  bytes of the bytes w that are stored, whether by adding data (encrypting) or by
  overwriting with it (decrypting). The loops of `EncryptBlocks`, `DecryptBlocks` and
  `AbsorbBlocks` and the padded blocks of the reference all lead to such states
  (`SealedPiece`, `OpenedPiece`, `DuplexBlocks`), from every position in a block;
  hence `EncryptIsPacket` and `ReferencePacket`.
* *Damage.* `Forged` is what decrypting stores when the p-th byte was damaged:
  up to that block what encrypting stored, from there on something else
  (`ForgedState`). Ciphertext bytes name the history of the state they left, so a
  byte returns to what it was exactly in the state it came from (`OpenedByte`), which
  needs that all bytes of a state were there when it was made (`AllDated`).
* *The tag.* `TagTells`: tags under one key are equal only if the states
  were; with `TagsAgree` and `FlippedTag`, a tag agrees exactly if neither text nor
  tag was damaged.
* *Programs.* `StreamInv`: if n bytes were encrypted and the p-th of them damaged
  (p = 0: none), the ciphertext on its way is `Arrived(v, s, p, n)`, the encrypting object
  stands at `Sealing(v, s, n)`, the decrypting one, which has had the first `taken`
  bytes, at `Opens(v, s, p, taken)`, and the tag is missing, right or damaged. It is
  inductive (`StreamInvariant`), one lemma for each action; the one-call functions are
  the same states with p = 0 or with p damaged (`DecryptJudges`).

Only model-checked. `Terminates` is liveness and out of the prover's reach. SIV, ISAP,
masked and keyed modes are written with folds over data, and what a fold computes
for every length cannot be proved, because the library's theorems about it take
operators as parameters: so the definitions of keyed modes (`KeyedStreams`,
`CallsAreReference`, `CallsSeparate`), and that sessions of all classes understand
each other and accept nothing else (`AcceptedInOrder`, `DueIsAccepted`). The
loops of `AsconAead` are recursive functions, about which the module proves by
induction on the blocks. The proofs about sponges and packets rest on the
permutation being opaque (section 6), as the runs do. The word layer (`BytesAreState`
and the other properties of `words`) consists of folds over words and polynomials;
as its bits are polynomials, the run covers all values of the data for backends and
masking. `AvrMachine` uses `Bitwise`, with which nothing can be proved.

## 5. Findings

1. `reserveCounters` computes the reservation under the lock and writes it outside:
   with two packing tasks a late write puts back a lower reservation, and after a
   power cut nonces repeat (`AsconSecureEmissor.cpp:81`).
2. `asconcrypt` takes the result -1 of a failed write for success and keeps a
   truncated plaintext with exit status 0 (`asconcrypt.c:623`).
3. `ascon_random_load_seed` does not look at the result of writing the new seed
   (`ascon-prng.c:188`).
4. The constructors of `aead80pq` and `siv80pq` copy 16 of the 20 bytes of their
   key (`ascon-aead-cpp.cpp:278`, `ascon-siv-cpp.cpp:221`).

Seen while modelling, without a run of their own:

* A counter that cannot be read registers a node with counter 0
  (`AsconSecureReceptor.cpp:142`), against the comment at its lines 131-132; with
  `NvsReadFaults = TRUE` the link's `SlotsRefuseDelivered` fails. With more than 32
  packing tasks a task can find its fresh reservation used up and report a
  storage error (`AsconSecureEmissor.cpp:166`).
* asconcrypt: names shorter than six characters, `-` included, count as encrypted
  (`asconcrypt.c:389` against `asconcrypt.1:17-18`). PRNG: `ascon_random_save_seed`
  and `ascon_random_load_seed` return 1 and 0 where `random.h:179` and `:202` say 0
  and -1; a seed that cannot be read is overwritten by one that comes from the
  hardware source alone (`ascon-prng.c:176-189`).
* `ascon-isap-cpp.cpp:85`: `set_key` with a length of 0 passes the caller's
  pointer on where the other classes take the zero key; `CipherObjects` has
  unknown bytes for what is read there. `aead.h` says of the functions that
  finalize a packet in pieces that the state will be freed; the code keeps it
  for the next packet.
* `masked-key.c:176-199`: randomizing a 160-bit key of 3 or 4 shares calls the
  function for two shares, so the others are not refreshed; hence the limitation
  in `RandomizedAfresh`. Its value and its secrecy are not affected.
  `ascon-masked-word-c64.c` clears a fourth word in `x3_zero`.
* genavr: an odd callee-saved register that only a MOVW writes is not saved
  (against `code_out.cpp:395`; no generated function of the library does this;
  `MovedUnseen` excepts it); `swapmove` with a mask of the low half of a 4-byte
  register exchanges bits above the mask (`code.cpp:1956-1966`);
  `compare_and_set` compares only the lowest byte (`code.cpp:723-724`); `sbc` of a
  value calls `add` (`code.h:564`); the interpreter's CPC and SBC do not keep Z as
  the processor does; the limit of four remembered immediates is never reached
  because `immCount` is never counted up. None of them is used by the library's
  generators; the menu of statements leaves these uses out. A generated
  `ascon_permute` with first round 12 goes into its loop, where the C code does nothing.

## 6. Assumptions and what is left out

* Begin, Provision and FactoryReset are called in `setup()`, before any task
  packs, as in the sketches; the receiver is called from one task.
* Two provisionings never draw the same key; the 7-byte fingerprints of different
  keys differ; a packet that was not sealed under a key does not verify under it.
* Where the permutation is opaque, two different histories never give the same
  state. `PermutationIsAscon` and the word layer speak of the real one.
* Key derivation, header and SIV block of asconcrypt are one item each, complete
  or not, under the right password or not. The names of output files, the option
  parser and output to a pipe, which cannot be taken back, are left out. A file
  can be deleted.
* `Asconcrypt` sees errors that system calls report; being killed in between is
  not modelled. The code has no recovery.
* Reading or writing the seed is one step; the region of storage is large enough.
* HKDF and PBKDF2 see the hash as a function of its parameters and input.
* Random words of the masked code are arbitrary and independent.
* Logging, printing, clearing of buffers (but for refused packets) and timing are
  left out.

Not modelled:

* the overlap tests on packet buffers (`rangesOverlap`) and in-place layouts;
* acquire and release of the process-wide hardware flag, which the backends of
  this repository define as nothing except in a checking build. With one data
  share and a mixer for the hardware source such a build would abort, as
  `masked-state.c:71`, `:155` and `:237` acquire without a release between;
* the mixer of random sources and the drivers that read registers (of the driver
  for `/dev/random`, `AsconPrng` has what it returns, not its system calls);
* hash, XOF and MAC classes and byte arrays in C++, which forward one call each or
  replace the standard library. Without the standard library, `resize` and
  `reserve` of a shared `byte_array` also change its copies;
* asconsum and the password prompt: line-oriented I/O;
* the assembly backends of other processors and their generators, which print text
  and have neither an interpreter nor an allocation of registers;
* tests, known-answer vectors, benchmarks and examples, which are clients.

## 7. Plan

Done: the sender, the receiver, the link, the sponges, the PRNG, asconcrypt,
backends and permutation, masking, AEAD in all forms, SIV, ISAP, the C++ sessions,
keyed modes, the AVR code generator; the proofs of section 4. Next:

1. The argument for packets in pieces for SIV, ISAP, masked and keyed modes: their
   loops as recursive functions, then the sessions. A conversion of shares keeps
   the value for every width.
2. What the link still promises when reads of the NVS fail: a weaker invariant in
   place of `SlotsRefuseDelivered`.
3. `LoraPacket`: in-place buffers, `rangesOverlap` and `memmove`. The mixer of the
   hardware random source. Acquire and release as one flag over all objects.
