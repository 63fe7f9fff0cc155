---------------------------- MODULE KeyedObjects ----------------------------
(***************************************************************************)
(* Programs that use the keyed modes: the objects of KMAC, KDF and PRF     *)
(* that absorb and squeeze in pieces and may go back to absorbing, the     *)
(* objects of HMAC, those of HKDF whose output is taken in pieces, and the *)
(* functions that do everything in one call.                               *)
(***************************************************************************)
EXTENDS KeyedModes, FiniteSets

CONSTANTS
    KeyedKinds,     \* the kinds of objects in use
    Givens,         \* for each kind, the lengths of keys and of customization
                    \* strings (the salt of HKDF), and the output lengths
    InfoLengths,    \* lengths of HKDF's info
    InPieces,       \* for each kind, the lengths that calls absorb
    MaxIn,          \* for each kind, a bound on the bytes absorbed in a phase
    OutPieces,      \* lengths that calls squeeze or expand
    MaxOut,         \* bound on the bytes squeezed in a phase
    MaxPhases,      \* bound on the phases of an object
    MaxExpands,     \* bound on the calls of expand
    Functions,      \* the functions called for one result
    Counts,         \* iteration counts of PBKDF2
    CallLengths,    \* <<input, output>> lengths of such calls
    MaxCalls        \* bound on the number of such calls

VARIABLES
    kind,       \* the kind of the object
    obj,        \* the object
    given,      \* history: what it was initialised with; {} if it is free
    fed,        \* history: its phases, or its calls of expand
    got,        \* history: what it delivered in its phase, or altogether
    result,     \* what the last call returned
    calls       \* history: the calls for one result

keyedVars == <<kind, obj, given, fed, got, result, calls>>

SpongeKinds == {"kmac", "kmaca", "kdf", "kdfa", "prf"}
HmacKinds == {"hmac", "hmaca"}
HkdfKinds == {"hkdf", "hkdfa"}
HashOf(k) == IF k \in {"hmac", "hkdf"} THEN "hash" ELSE "hasha"

KeyOf(n) == [i \in 1 .. n |-> {<<"key", 0, i>>}]
CustomOf(n) == [i \in 1 .. n |-> {<<"custom", n, i>>}]
InputFrom(from, n) == [i \in 1 .. n |-> {<<"in", 0, from + i>>}]

\* PRF keys have one length; HMAC is not customized and its output has one.
Suits(k, g) ==
    /\ k = "prf" => g.key = ASCON_PRF_KEY_SIZE
    /\ k \in {"prf"} \cup HmacKinds => g.custom = 0
    /\ k \in HmacKinds \cup HkdfKinds => g.outlen = 0

ASSUME KindsAssumption == \A k \in KeyedKinds : \A g \in Givens[k] : Suits(k, g)

GivenLengths == UNION {Givens[k] : k \in KeyedKinds}
InLengths == UNION {InPieces[k] : k \in KeyedKinds}

-----------------------------------------------------------------------------
(***************************************************************************)
(* The reference.  A keyed sponge has absorbed whole inputs and delivered  *)
(* whole outputs, phase after phase.                                       *)
(***************************************************************************)
PaddedInput(rate, data) ==
    LET all == data \o <<PadByte>> \o Zeroes(rate)
    IN  [k \in 1 .. Len(data) \div rate + 1 |->
            SubSeq(all, (k - 1) * rate + 1, k * rate)]

Sponge(k) ==
    IF k = "prf"
    THEN [in |-> 4 * WORD, out |-> 2 * WORD, round |-> 0, eager |-> FALSE, sep |-> TRUE]
    ELSE [in |-> WORD, out |-> WORD, sep |-> FALSE,
          round |-> IF k \in {"kmaca", "kdfa"} THEN 4 ELSE 0,
          eager |-> k \in {"kmaca", "kdfa"}]

\* Every block but the last goes through a permutation.
RefAbsorb(sp, s, blocks) ==
    LET Add(t, k) ==
            ascon_add_bytes(IF k = 1 THEN t ELSE ascon_permute(t, sp.round), blocks[k], 0)
    IN  FoldLeft(Add, s, [k \in DOMAIN blocks |-> k])

RefStart(k, g) ==
    LET sp == Sponge(k)
        name == IF k = "prf" THEN <<>>
                ELSE IF k \in {"kmac", "kmaca"} THEN FunctionName("KMAC", 4)
                ELSE FunctionName("KDF", 3)
        outlen == IF g.outlen < MAX_OUTLEN THEN g.outlen ELSE 0
        first == IF k = "prf" THEN PrfIv("prf", outlen) \o KeyOf(g.key)
                 ELSE X!IvWord(outlen) \o name
        s == ascon_permute(ascon_overwrite_bytes(ascon_init, first, 0), 0)
    IN  IF g.custom = 0 THEN s
        ELSE ascon_separator(ascon_permute(
                RefAbsorb(sp, s, PaddedInput(sp.in, CustomOf(g.custom))), sp.round))

\* The padded input of a phase, and the states that its output is taken from.
RefPadded(sp, s, p) ==
    LET t == RefAbsorb(sp, s, PaddedInput(sp.in, p.in))
    IN  IF sp.sep THEN ascon_separator(t) ELSE t
RefBlocks(sp, s, p) ==
    LET need == IF sp.eager THEN p.out \div sp.out + 1
                ELSE (p.out + sp.out - 1) \div sp.out
        Next1(states, k) ==
            Append(states, ascon_permute(states[k], IF k = 1 THEN 0 ELSE sp.round))
    IN  FoldLeft(Next1, <<RefPadded(sp, s, p)>>, [k \in 1 .. need |-> k])
RefOut(sp, s, p) ==
    LET states == RefBlocks(sp, s, p)
        Part(out, k) ==
            out \o Leaving(states[k], ascon_extract_bytes(states[k], 0, sp.out))
    IN  SubSeq(FoldLeft(Part, <<>>, [k \in 1 .. Len(states) - 1 |-> k + 1]), 1, p.out)

\* A phase that still takes input has no padding yet.
RefAfter(sp, s, p) ==
    LET states == RefBlocks(sp, s, p)
        full == Len(p.in) \div sp.in
        open == [k \in 1 .. full + 1 |->
                    SubSeq(p.in, (k - 1) * sp.in + 1,
                           IF k <= full THEN k * sp.in ELSE Len(p.in))]
    IN  IF p.out < 0 THEN RefAbsorb(sp, s, open) ELSE states[Len(states)]

\* The state that the current phase starts from, and the current state.
RefBase(k, g, phases) ==
    LET sp == Sponge(k)
        Phase(s, i) == ascon_permute(RefAfter(sp, s, phases[i]), 0)
    IN  FoldLeft(Phase, RefStart(k, g), [i \in 1 .. Len(phases) - 1 |-> i])

RefState(k, g, phases) ==
    RefAfter(Sponge(k), RefBase(k, g, phases), phases[Len(phases)])
RefGot(k, g, phases) ==
    LET p == phases[Len(phases)]
    IN  IF p.out < 0 THEN <<>> ELSE RefOut(Sponge(k), RefBase(k, g, phases), p)

\* RFC 2104.
RefHash(alg, in) == [i \in 1 .. HASH_SIZE |-> {<<"h", <<Plain(alg), in>>, i>>}]
RefHmac(alg, key, in) ==
    LET short == IF Len(key) > HMAC_BLOCK_SIZE THEN RefHash(alg, key) ELSE key
        block == short \o Zeroes(HMAC_BLOCK_SIZE - Len(short))
        With(pad) == [i \in DOMAIN block |-> Xor(block[i], pad)]
    IN  RefHash(alg, With(OPAD) \o RefHash(alg, With(IPAD) \o in))

\* RFC 5869, with the info of the call that needs a block first.
RefHkdf(alg, key, salt, expands) ==
    LET prk == RefHmac(alg, salt, key)
        Total(j) == FoldLeft(LAMBDA n, e : n + e.n, 0, SubSeq(expands, 1, j))
        all == Total(Len(expands))
        Info(k) ==
            expands[CHOOSE j \in DOMAIN expands :
                        Total(j) > (k - 1) * HASH_SIZE /\ Total(j - 1) <= (k - 1) * HASH_SIZE
                   ].info
        count == (all + HASH_SIZE - 1) \div HASH_SIZE
        T[k \in 0 .. count] ==
            IF k = 0 THEN <<>>
            ELSE IF k >= COUNTERS THEN Zeroes(HASH_SIZE)
            ELSE RefHmac(alg, prk, T[k - 1] \o Info(k) \o <<ByteOf(k)>>)
    IN  SubSeq(FoldLeft(LAMBDA out, k : out \o T[k], <<>>, [k \in 1 .. count |-> k]), 1, all)

\* RFC 8018, with HMAC or with the customized XOF for the PRF.
RefPbkdf2(Prf(_), salt, count, outlen) ==
    LET last == IF count = 0 THEN 1 ELSE count
        Byte(U, i) == {a \in UNION {U[j][i] : j \in 1 .. last} :
                          Cardinality({j \in 1 .. last : a \in U[j][i]}) % 2 = 1}
        Block(k) ==
            LET U[j \in 1 .. last] ==
                    IF j = 1 THEN Prf(salt \o be_store_word32(k)) ELSE Prf(U[j - 1])
            IN  [i \in 1 .. HASH_SIZE |-> Byte(U, i)]
    IN  [i \in 1 .. outlen |-> Block((i - 1) \div HASH_SIZE + 1)[((i - 1) % HASH_SIZE) + 1]]

-----------------------------------------------------------------------------
(* The functions of each kind. *)

SpongeInit(k, g) ==
    CASE k = "kmac" -> ascon_kmac_init(KeyOf(g.key), CustomOf(g.custom), g.outlen)
      [] k = "kmaca" -> ascon_kmaca_init(KeyOf(g.key), CustomOf(g.custom), g.outlen)
      [] k = "kdf" -> ascon_kdf_init(KeyOf(g.key), CustomOf(g.custom), g.outlen)
      [] k = "kdfa" -> ascon_kdfa_init(KeyOf(g.key), CustomOf(g.custom), g.outlen)
      [] k = "prf" -> IF g.outlen = 0 THEN ascon_prf_init(KeyOf(g.key))
                      ELSE ascon_prf_fixed_init(KeyOf(g.key), g.outlen)
SpongeReinit(k, x, g) ==
    CASE k = "kmac" -> ascon_kmac_reinit(x, KeyOf(g.key), CustomOf(g.custom), g.outlen)
      [] k = "kmaca" -> ascon_kmaca_reinit(x, KeyOf(g.key), CustomOf(g.custom), g.outlen)
      [] k = "kdf" -> ascon_kdf_reinit(x, KeyOf(g.key), CustomOf(g.custom), g.outlen)
      [] k = "kdfa" -> ascon_kdfa_reinit(x, KeyOf(g.key), CustomOf(g.custom), g.outlen)
      [] k = "prf" -> IF g.outlen = 0 THEN ascon_prf_reinit(x, KeyOf(g.key))
                      ELSE ascon_prf_fixed_reinit(x, KeyOf(g.key), g.outlen)
SpongeAbsorb(k, x, in) ==
    CASE k = "kmac" -> ascon_kmac_absorb(x, in)
      [] k = "kmaca" -> ascon_kmaca_absorb(x, in)
      [] k = "prf" -> ascon_prf_absorb(x, in)
SpongeSqueeze(k, x, n) ==
    CASE k = "kmac" -> ascon_kmac_squeeze(x, n)
      [] k = "kmaca" -> ascon_kmaca_squeeze(x, n)
      [] k = "kdf" -> ascon_kdf_squeeze(x, n)
      [] k = "kdfa" -> ascon_kdfa_squeeze(x, n)
      [] k = "prf" -> ascon_prf_squeeze(x, n)
FreedObject(k) ==
    CASE k = "kmac" -> ascon_kmac_free
      [] k = "kmaca" -> ascon_kmaca_free
      [] k = "kdf" -> ascon_kdf_free
      [] k = "kdfa" -> ascon_kdfa_free
      [] k = "prf" -> ascon_prf_free
      [] k \in HmacKinds -> HashNew(Plain(HashOf(k)))
      [] k \in HkdfKinds -> hkdf_free

-----------------------------------------------------------------------------
KeyedIdle ==
    /\ kind = "none" /\ obj = {} /\ given = {} /\ fed = <<>> /\ got = <<>>
    /\ result = 0 /\ calls = <<>>

KeyedInit ==
    /\ kind \in KeyedKinds
    /\ obj = IF kind = "calls" THEN {} ELSE FreedObject(kind)
    /\ given = {} /\ fed = <<>> /\ got = <<>> /\ result = 0 /\ calls = <<>>

IsLive == given # {}
Now == fed[Len(fed)]
Begun == [in |-> <<>>, out |-> -1]

\* init of an object that is free, reinit of one that is not.  The key is the
\* first input of KMAC and KDF.
DoKeyedInit(g) ==
    /\ kind \in SpongeKinds \cup HmacKinds /\ g \in Givens[kind]
    /\ obj' = IF kind \in HmacKinds
              THEN IF IsLive THEN hmac_reinit(obj, KeyOf(g.key))
                   ELSE hmac_init(HashOf(kind), KeyOf(g.key))
              ELSE IF IsLive THEN SpongeReinit(kind, obj, g) ELSE SpongeInit(kind, g)
    /\ given' = {g}
    /\ fed' = <<IF kind \in {"kmac", "kmaca", "kdf", "kdfa"}
                THEN [Begun EXCEPT !.in = KeyOf(g.key)] ELSE Begun>>
    /\ got' = <<>>
    /\ UNCHANGED <<kind, result, calls>>

DoKeyedFree ==
    /\ kind # "calls" /\ IsLive
    /\ obj' = FreedObject(kind)
    /\ given' = {} /\ fed' = <<>> /\ got' = <<>>
    /\ UNCHANGED <<kind, result, calls>>

\* KDF objects have no function that absorbs.
DoKeyedAbsorb(n) ==
    LET from == IF Now.out < 0 THEN Len(Now.in) ELSE 0
        in == InputFrom(from, n)
    IN  /\ kind \in {"kmac", "kmaca", "prf"} /\ IsLive
        /\ n \in InPieces[kind] /\ from + n <= MaxIn[kind]
        /\ Now.out >= 0 => Len(fed) < MaxPhases
        /\ obj' = SpongeAbsorb(kind, obj, in)
        /\ fed' = IF Now.out < 0 THEN [fed EXCEPT ![Len(fed)].in = @ \o in]
                  ELSE Append(fed, [Begun EXCEPT !.in = in])
        /\ got' = <<>>
        /\ UNCHANGED <<kind, given, result, calls>>

DoKeyedSqueeze(n) ==
    LET before == IF Now.out < 0 THEN 0 ELSE Now.out
    IN  /\ kind \in SpongeKinds /\ IsLive
        /\ before + n <= MaxOut
        /\ \E r \in {SpongeSqueeze(kind, obj, n)} :
              obj' = r.obj /\ got' = got \o Leaving(r.obj.state, r.out)
        /\ fed' = [fed EXCEPT ![Len(fed)].out = before + n]
        /\ UNCHANGED <<kind, given, result, calls>>

DoHmacUpdate(n) ==
    /\ kind \in HmacKinds /\ IsLive /\ Now.out < 0
    /\ n \in InPieces[kind] /\ Len(Now.in) + n <= MaxIn[kind]
    /\ LET in == InputFrom(Len(Now.in), n)
       IN  /\ obj' = hmac_update(obj, in)
           /\ fed' = [fed EXCEPT ![1].in = @ \o in]
    /\ UNCHANGED <<kind, given, got, result, calls>>

\* The object, now that of the outer hash, needs reinit after this.
DoHmacFinalize ==
    /\ kind \in HmacKinds /\ IsLive /\ Now.out < 0
    /\ \E g \in given : \E r \in {hmac_finalize(obj, KeyOf(g.key))} :
          obj' = r.obj /\ got' = r.out
    /\ fed' = [fed EXCEPT ![1].out = HASH_SIZE]
    /\ UNCHANGED <<kind, given, result, calls>>

\* The salt is of the length that `given` has for a customization string.
DoExtract(g) ==
    /\ kind \in HkdfKinds /\ ~IsLive /\ g \in Givens[kind]
    /\ obj' = hkdf_extract(HashOf(kind), KeyOf(g.key), CustomOf(g.custom))
    /\ given' = {g} /\ fed' = <<>> /\ got' = <<>>
    /\ UNCHANGED <<kind, result, calls>>

DoExpand(info, n) ==
    /\ kind \in HkdfKinds /\ IsLive /\ Len(fed) < MaxExpands
    /\ \E r \in {hkdf_expand(obj, CustomOf(info), n)} :
          obj' = r.obj /\ got' = got \o r.out /\ result' = r.result
    /\ fed' = Append(fed, [info |-> CustomOf(info), n |-> n])
    /\ UNCHANGED <<kind, given, calls>>

-----------------------------------------------------------------------------
(* The functions for one result.  Inputs are zeroes, so that padding and   *)
(* input bytes cannot be told apart by their value.                        *)

PrfKey == KeyOf(ASCON_PRF_KEY_SIZE)

\* mac_verify is asked for an input that is n bytes longer.
Verdict(ok) == IF ok THEN <<{<<"ok", 0, 0>>}>> ELSE <<>>

Call(fn, in, n, count) ==
    CASE fn = "prf" -> ascon_prf(n, in, PrfKey)
      [] fn = "prf_fixed" -> ascon_prf_fixed(n, in, PrfKey)
      [] fn = "prf_short" -> ascon_prf_short(n, in, PrfKey).out
      [] fn = "mac" -> ascon_mac(in, PrfKey)
      [] fn = "mac_verify" ->
            Verdict(ascon_mac_verify(ascon_mac(in, PrfKey), in \o Zeroes(n), PrfKey) = 0)
      [] fn = "kmac" -> ascon_kmac(PrfKey, in, CustomOf(1), n)
      [] fn = "kmaca" -> ascon_kmaca(PrfKey, in, CustomOf(1), n)
      [] fn = "kdf" -> ascon_kdf(n, PrfKey \o in, CustomOf(1))
      [] fn = "kdfa" -> ascon_kdfa(n, PrfKey \o in, CustomOf(1))
      [] fn = "hmac" -> hmac("hash", PrfKey, in)
      [] fn = "hmaca" -> hmac("hasha", PrfKey, in)
      [] fn = "hkdf" -> hkdf("hash", n, in, PrfKey, CustomOf(1)).out
      [] fn = "hkdfa" -> hkdf("hasha", n, in, PrfKey, CustomOf(1)).out
      [] fn = "pbkdf2" -> ascon_pbkdf2(n, PrfKey, in, count)
      [] fn = "pbkdf2_hmac" -> ascon_pbkdf2_hmac(n, PrfKey, in, count)

\* The short PRF is one permutation of length, key and input; the key, added
\* to the last of what it gives, is the output.
RefShort(in, n) ==
    LET s == ascon_permute(ascon_overwrite_bytes(
                 ascon_init, PrfIv("short", Len(in)) \o PrfKey \o in, 0), 0)
        last == Leaving(s, ascon_extract_bytes(s, STATE_SIZE - Len(PrfKey), Len(PrfKey)))
    IN  IF Len(in) > 2 * WORD \/ n > 2 * WORD THEN <<>>
        ELSE [i \in 1 .. n |-> Xor(last[i], PrfKey[i])]

RefCall(c) ==
    LET Of(k, g, in) ==
            RefGot(k, g, <<[in |-> in, out |-> IF c.fn = "mac" THEN ASCON_PRF_RATE_OUT
                                               ELSE c.n]>>)
        PrfGiven(n) == [key |-> ASCON_PRF_KEY_SIZE, custom |-> 0, outlen |-> n]
        Customized(n) == [PrfGiven(c.n) EXCEPT !.custom = n]
        Expands == <<[info |-> CustomOf(1), n |-> c.n]>>
    IN  CASE c.fn = "prf" -> Of("prf", PrfGiven(0), c.in)
          [] c.fn = "prf_fixed" -> Of("prf", PrfGiven(c.n), c.in)
          [] c.fn = "mac" -> Of("prf", PrfGiven(ASCON_PRF_RATE_OUT), c.in)
          [] c.fn = "mac_verify" -> Verdict(c.n = 0)
          [] c.fn \in {"kmac", "kmaca", "kdf", "kdfa"} -> Of(c.fn, Customized(1), PrfKey \o c.in)
          [] c.fn \in {"hmac", "hmaca"} -> RefHmac(HashOf(c.fn), PrfKey, c.in)
          [] c.fn \in {"hkdf", "hkdfa"} ->
                IF c.n > HASH_SIZE * (COUNTERS - 1) THEN <<>>
                ELSE RefHkdf(HashOf(c.fn), c.in, PrfKey, Expands)
          [] c.fn = "pbkdf2" ->
                RefPbkdf2(LAMBDA x : Digest([start |-> <<"PBKDF2", PrfKey>>, in |-> x]),
                          c.in, c.count, c.n)
          [] c.fn = "pbkdf2_hmac" ->
                RefPbkdf2(LAMBDA x : RefHmac("hash", PrfKey, x), c.in, c.count, c.n)
          [] c.fn = "prf_short" -> RefShort(c.in, c.n)

DoCall(fn, in, n, count) ==
    /\ kind = "calls" /\ Len(calls) < MaxCalls
    /\ fn \notin {"pbkdf2", "pbkdf2_hmac"} => count = 1
    /\ calls' = Append(calls, [fn |-> fn, in |-> in, n |-> n, count |-> count,
                               out |-> Call(fn, in, n, count)])
    /\ UNCHANGED <<kind, obj, given, fed, got, result>>

KeyedNext ==
    \/ \E g \in GivenLengths : DoKeyedInit(g) \/ DoExtract(g)
    \/ DoKeyedFree \/ DoHmacFinalize
    \/ \E n \in InLengths : DoKeyedAbsorb(n) \/ DoHmacUpdate(n)
    \/ \E n \in OutPieces : DoKeyedSqueeze(n)
    \/ \E info \in InfoLengths, n \in OutPieces : DoExpand(info, n)
    \/ \E fn \in Functions, l \in CallLengths, count \in Counts :
          DoCall(fn, Zeroes(l[1]), l[2], count)

KeyedSpec == KeyedInit /\ [][KeyedNext]_keyedVars

-----------------------------------------------------------------------------
(***************************************************************************)
(* An object of KMAC, KDF or PRF is, after any sequence of pieces absorbed *)
(* and squeezed, of going back to absorbing and of being re-initialised,   *)
(* in the state, and has delivered the output, that its key, its           *)
(* customization and its whole inputs determine                            *)
(* (src/src/mac/ascon-prf.c:203).                                          *)
(***************************************************************************)
SpongeStreams ==
    kind \in SpongeKinds =>
        \A g \in given :
            /\ obj.state = RefState(kind, g, fed)
            /\ got = RefGot(kind, g, fed)

(***************************************************************************)
(* HMAC of a message in pieces is that of RFC 2104, for keys just below,   *)
(* at and just above the length of a block, and whatever the object was    *)
(* used for before (src/src/mac/ascon-hmac-common.h:86).                   *)
(***************************************************************************)
HmacIsDefinition ==
    kind \in HmacKinds =>
        \A g \in given :
            Now.out > 0 => got = RefHmac(HashOf(kind), KeyOf(g.key), Now.in)

(***************************************************************************)
(* What the calls of HKDF's expand deliver one after the other is the      *)
(* stream of RFC 5869; beyond 255 blocks it is zero, and exactly the calls *)
(* that go there fail, although the block counter has one byte             *)
(* (src/src/kdf/ascon-hkdf-common.h:92).                                   *)
(***************************************************************************)
HkdfIsStream ==
    kind \in HkdfKinds =>
        \A g \in given :
            /\ got = RefHkdf(HashOf(kind), KeyOf(g.key), CustomOf(g.custom), fed)
            /\ fed # <<>> /\ Now.n > 0 =>
                  (result = -1 <=> Len(got) > HASH_SIZE * (COUNTERS - 1))

(***************************************************************************)
(* KeyedStreams: every keyed object that is used in pieces delivers what   *)
(* its definition gives for the whole (the three statements above).        *)
(***************************************************************************)
KeyedStreams == SpongeStreams /\ HmacIsDefinition /\ HkdfIsStream

(***************************************************************************)
(* The functions for one result return what their definitions say; in      *)
(* particular PBKDF2 runs its loop as often as the count asks for, from 0  *)
(* and 1 on, and cuts its last block (src/src/password/ascon-pbkdf2.c:57). *)
(***************************************************************************)
CallsAreReference == \A i \in DOMAIN calls : calls[i].out = RefCall(calls[i])

(***************************************************************************)
(* Two calls that return the same are the same call: inputs that differ    *)
(* only by zeroes at their end, and functions that share their key, do not *)
(* meet, except that the MAC is the PRF for its length                     *)
(* (src/src/mac/ascon-prf.c:82).                                           *)
(***************************************************************************)
CallsSeparate ==
    \A i, j \in DOMAIN calls :
        LET c == calls[i]
            d == calls[j]
        IN  c.out # <<>> /\ c.out = d.out =>
                /\ c.in = d.in
                /\ c.fn = d.fn \/ {c.fn, d.fn} = {"mac", "prf_fixed"}
                /\ c.count = d.count \/ c.count + d.count = 1

=============================================================================
