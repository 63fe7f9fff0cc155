--------------------------- MODULE MCModeLayer ----------------------------
(***************************************************************************)
(* Small instances of the modes of the library: one program uses the       *)
(* ciphers, another the keyed modes.  They share no memory, so a run works *)
(* with one while the other rests.                                         *)
(***************************************************************************)
EXTENDS CipherObjects, KeyedObjects

CiphersRest == PiecesIdle /\ SessionsIdle
KeyedRests == kind = "none"

ModesInit == (CiphersInit /\ KeyedIdle) \/ (CiphersRest /\ KeyedInit)
ModesNext ==
    \/ KeyedRests /\ CiphersNext /\ UNCHANGED keyedVars
    \/ ~KeyedRests /\ KeyedNext /\ UNCHANGED cipherVars
ModesSpec == ModesInit /\ [][ModesNext]_<<cipherVars, keyedVars>>

MCProfile(s, sw, r, rw, kn, dn, nonce, packets) ==
    [send |-> s, sender |-> sw, receive |-> r, receiver |-> rw,
     shares |-> [key |-> kn, data |-> dn], arrays |-> dn = 3, nonce |-> nonce, packets |-> packets]
MCSame(cls, way, packets) == MCProfile(cls, way, cls, "set_key", 4, 2, <<1, 1, 1>>, packets)

MCProfiles ==
    {MCSame(aead128a, "ctor", 3), MCSame(aead80pq, "cleared", 2),
     MCSame(siv128, "ctor", 2), MCSame(siv128a, "ctor", 2), MCSame(siv80pq, "cleared", 2),
     MCSame(isap128, "ctor", 1), MCSame(isap128a, "saved", 2), MCSame(isap80pq, "saved", 1),
     MCProfile(aead128, "zero", aead128, "none", 2, 1, <<1, 1, 1, 1, 0>>, 3),
     MCProfile(aead128_masked, "ctor", aead128, "ctor", 4, 3, <<1>>, 2),
     MCProfile(aead128a, "ctor", aead128a_masked, "ctor", 4, 2, <<>>, 2),
     MCProfile(aead80pq, "set_key", aead80pq_masked, "ctor", 3, 1, <<1, 0, 1, 1>>, 2)}

MCConstructed == {MCSame(cls, "ctor", 1) : cls \in {aead128, aead80pq, aead80pq_masked}}

MCTexts == {<<0, 1>>, <<3, 0>>}
MCStartNonces == {<<1, 0, 1, 1>>, <<1, 1, 1, 1>>}
MCAlgorithms == {"128", "128a", "80pq"}
MCNone == {}

MCKinds == {"kmac", "kmaca", "kdf", "kdfa", "prf", "hmac", "hmaca", "hkdf", "hkdfa", "calls"}
MCGiven(k, c, o) == [key |-> k, custom |-> c, outlen |-> o]
\* A block of HMAC has four bytes, and so has the key of the PRF.
MCGivens ==
    [k \in MCKinds |->
        CASE k = "prf" -> {MCGiven(4, 0, 0), MCGiven(4, 0, 8), MCGiven(4, 0, 20)}
          [] k \in HmacKinds -> {MCGiven(n, 0, 0) : n \in {0, 3, 4, 5}}
          [] k \in HkdfKinds -> {MCGiven(4, 0, 0), MCGiven(5, 3, 0), MCGiven(0, 5, 0)}
          [] k = "calls" -> {}
          [] OTHER -> {MCGiven(0, 3, 20), MCGiven(3, 2, 8), MCGiven(4, 0, 0), MCGiven(4, 0, 8),
                       MCGiven(5, 0, 0)}]
\* The PRF absorbs eight bytes at a time, the others two.
MCInPieces == [k \in MCKinds |-> IF k = "prf" THEN {0, 3, 13, 16} ELSE {0, 1, 3, 5}]
MCMaxIn == [k \in MCKinds |-> IF k = "prf" THEN 19 ELSE 8]
MCFunctions == {"prf", "prf_fixed", "prf_short", "mac", "mac_verify", "kmac", "kmaca", "kdf",
                "kdfa", "hmac", "hmaca", "hkdf", "hkdfa", "pbkdf2", "pbkdf2_hmac"}
MCCallLengths == {<<1, 0>>, <<2, 3>>, <<3, 3>>, <<4, 4>>, <<5, 7>>, <<9, 5>>}

=============================================================================
