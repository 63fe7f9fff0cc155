-------------------------- MODULE CipherObjects ---------------------------
(***************************************************************************)
(* Two programs that exchange packets.  In one kind of behaviour they use  *)
(* the functions that take a packet in pieces: one encrypts while the      *)
(* other already decrypts what has arrived, each with pieces of its own.   *)
(* In the other kind they use the C++ classes for sequential packets, of   *)
(* the same class or of a plain and a masked class, over a line that       *)
(* loses, repeats, reorders and damages packets.                           *)
(***************************************************************************)
EXTENDS AsconAead

CONSTANTS
    BITS,           \* bits of a byte: 8 in the code
    Algorithms,     \* the algorithms used in pieces
    Pieces,         \* lengths of pieces
    MaxText,        \* bound on the length of a packet in pieces
    AdLengths,      \* lengths of associated data
    MaxStarts,      \* bound on the packets in pieces
    Profiles,       \* how two sessions are set up (see SessionsInit), and a
                    \* bound on the packets sent
    Texts,          \* lengths <<text, associated data>> of their packets
    StartNonces     \* nonces that packets in pieces begin with

ASSUME IsapAssumption == BITS \in Nat \ {0}

VARIABLES
    alg,        \* the algorithm used in pieces, or "none"
    enc, dec,   \* the objects of the two programs
    adlen,      \* the associated data of the packet
    cipher,     \* the ciphertext on its way, the tag at its end when complete
    taken,      \* how much of it the other program has decrypted
    opened,     \* the plaintext it has
    verdict,    \* what its decrypt_finalize returned; 1 before that
    damaged,    \* history: the packet in pieces was damaged on its way
    nonces,     \* history: the nonces of the packets in pieces
    profile,    \* how the sessions were set up, or <<>>
    snd, rcv,   \* the sessions
    sent,       \* history: the packets sent
    accepted,   \* history: the packets the receiver took for authentic
    last        \* history: the last packet offered to the receiver

pieceVars == <<alg, enc, dec, adlen, cipher, taken, opened, verdict, damaged, nonces>>
sessionVars == <<profile, snd, rcv, sent, accepted, last>>
cipherVars == <<pieceVars, sessionVars>>

Key(n) == [i \in 1 .. n |-> {<<"key", 0, i>>}]
Text(p, n) == [i \in 1 .. n |-> {<<"m", p, i>>}]
Ad(p, n) == [i \in 1 .. n |-> {<<"ad", p, i>>}]
Flip(bytes, i) == [bytes EXCEPT ![i] = Xor(@, {<<"flip", 0, 0>>})]

(***************************************************************************)
(* The reference for one packet: the padded blocks of associated data and  *)
(* plaintext go through one duplex sponge.                                 *)
(***************************************************************************)
PaddedBlocks(v, data) ==
    LET all == data \o <<PadByte>> \o Zeroes(v.rate)
    IN  [k \in 1 .. Len(data) \div v.rate + 1 |->
            SubSeq(all, (k - 1) * v.rate + 1, k * v.rate)]

\* The state with the j-th padded block in it; between blocks the permutation.
Duplex(v, s, data) ==
    LET blocks == PaddedBlocks(v, data)
        filled[j \in 1 .. Len(data) \div v.rate + 1] ==
            ascon_add_bytes(IF j = 1 THEN s ELSE ascon_permute(filled[j - 1], v.round),
                            blocks[j], 0)
    IN  filled

RefPacket(v, m, ad, nonce, k) ==
    LET begun == ascon_overwrite_bytes(ascon_init,
                     IvBytes(v, "aead") \o k \o NonceBytes(nonce), 0)
        keyed == ascon_add_bytes(ascon_permute(begun, 0), k, STATE_SIZE - v.key)
        after == IF ad = <<>> THEN keyed
                 ELSE ascon_permute(Duplex(v, keyed, ad)[Len(ad) \div v.rate + 1], v.round)
        sealed == Duplex(v, ascon_separator(after), m)
        Block(i) == sealed[(i - 1) \div v.rate + 1]
        final == ascon_permute(ascon_add_bytes(sealed[Len(m) \div v.rate + 1], k, v.rate), 0)
        tagged == ascon_add_bytes(final,
                      SubSeq(k, v.key - TAG_SIZE + 1, v.key), STATE_SIZE - TAG_SIZE)
    IN  [i \in 1 .. Len(m) |-> Leaving(Block(i), Block(i).b)[(i - 1) % v.rate]] \o
        Leaving(tagged, ascon_extract_bytes(tagged, STATE_SIZE - TAG_SIZE, TAG_SIZE))

-----------------------------------------------------------------------------
(* A packet in pieces. *)

Record(a) == CASE a = "128" -> Ascon128 [] a = "128a" -> Ascon128a [] a = "80pq" -> Ascon80pq
PieceKey == Key(Record(alg).key)

\* No packets in pieces.
PiecesIdle ==
    /\ alg = "none" /\ enc = {} /\ dec = {} /\ adlen = 0
    /\ cipher = [text |-> <<>>, tag |-> <<>>] /\ taken = 0 /\ opened = <<>>
    /\ verdict = 1 /\ damaged = FALSE /\ nonces = <<>>

PiecesInit ==
    /\ alg \in Algorithms
    /\ \E npub \in StartNonces \cup {<<>>}, k \in {PieceKey, <<>>} :
          /\ npub = <<>> \/ k # <<>>
          /\ enc = aead_init(alg, npub, k) /\ dec = aead_init(alg, npub, k)
    /\ adlen = 0
    /\ cipher = [text |-> <<>>, tag |-> <<>>] /\ taken = 0 /\ opened = <<>>
    /\ verdict = 1 /\ damaged = FALSE /\ nonces = <<>>

Busy == nonces # <<>>

\* Both objects begin a packet: the first one, or the next after a verdict.
DoStart(n) ==
    /\ alg # "none" /\ Len(nonces) < MaxStarts
    /\ Busy => verdict # 1
    /\ adlen' = n
    /\ enc' = aead_start(alg, enc, Ad(0, n)) /\ dec' = aead_start(alg, dec, Ad(0, n))
    /\ nonces' = Append(nonces, enc.nonce)
    /\ cipher' = [text |-> <<>>, tag |-> <<>>] /\ taken' = 0 /\ opened' = <<>>
    /\ verdict' = 1 /\ damaged' = FALSE
    /\ UNCHANGED <<alg, sessionVars>>

DoEncrypt(n) ==
    LET begun == Len(cipher.text)
    IN  /\ Busy /\ cipher.tag = <<>> /\ begun + n <= MaxText
        /\ \E r \in {aead_encrypt_block(alg, enc, SubSeq(Text(0, MaxText), begun + 1, begun + n))} :
              enc' = r.obj /\ cipher' = [cipher EXCEPT !.text = @ \o r.out]
        /\ UNCHANGED <<alg, dec, adlen, taken, opened, verdict, damaged, nonces, sessionVars>>

DoEncryptFinalize ==
    /\ Busy /\ cipher.tag = <<>>
    /\ \E r \in {aead_encrypt_finalize(alg, enc)} :
          enc' = r.obj /\ cipher' = [cipher EXCEPT !.tag = r.tag]
    /\ UNCHANGED <<alg, dec, adlen, taken, opened, verdict, damaged, nonces, sessionVars>>

\* A byte that has not been decrypted yet is damaged.
Damage ==
    /\ Busy /\ ~damaged /\ verdict = 1
    /\ \/ /\ Len(cipher.text) > taken
          /\ cipher' = [cipher EXCEPT !.text = Flip(@, Len(@))]
       \/ /\ cipher.tag # <<>>
          /\ cipher' = [cipher EXCEPT !.tag = Flip(@, 1)]
    /\ damaged' = TRUE
    /\ UNCHANGED <<alg, enc, dec, adlen, taken, opened, verdict, nonces, sessionVars>>

DoDecrypt(n) ==
    /\ Busy /\ verdict = 1 /\ taken + n <= Len(cipher.text)
    /\ \E r \in {aead_decrypt_block(alg, dec, SubSeq(cipher.text, taken + 1, taken + n))} :
          dec' = r.obj /\ opened' = opened \o r.out
    /\ taken' = taken + n
    /\ UNCHANGED <<alg, enc, adlen, cipher, verdict, damaged, nonces, sessionVars>>

DoDecryptFinalize ==
    /\ Busy /\ cipher.tag # <<>> /\ verdict = 1 /\ taken = Len(cipher.text)
    /\ \E r \in {aead_decrypt_finalize(alg, dec, cipher.tag)} :
          dec' = r.obj /\ verdict' = r.result
    /\ UNCHANGED <<alg, enc, adlen, cipher, taken, opened, damaged, nonces, sessionVars>>

PiecesNext ==
    \/ \E n \in AdLengths : DoStart(n)
    \/ \E n \in Pieces : DoEncrypt(n) \/ DoDecrypt(n)
    \/ DoEncryptFinalize \/ DoDecryptFinalize \/ Damage

-----------------------------------------------------------------------------
(***************************************************************************)
(* The C++ classes that encrypt and decrypt sequential packets             *)
(* (src/cplusplus/ascon-*-cpp.cpp, ascon/aead.h): a session keeps a key    *)
(* and the nonce of the next packet.  A packet that is refused does not    *)
(* use up a nonce.                                                         *)
(***************************************************************************)
Siv == INSTANCE AsconSiv
Isap == INSTANCE AsconIsap
Masked == INSTANCE AsconAeadMasked

(***************************************************************************)
(* A class is what distinguishes its copy of the methods: the functions it *)
(* calls, the size of its keys and how many bytes of a key its constructor *)
(* copies.                                                                 *)
(***************************************************************************)
Class(lib, record, key, copied) ==
    [lib |-> lib, alg |-> record, key |-> key, copied |-> copied]

aead128 == Class("aead", Ascon128, 2 * WORD, 2 * WORD)
aead128a == Class("aead", Ascon128a, 2 * WORD, 2 * WORD)
aead80pq == Class("aead", Ascon80pq, Ascon80pq.key, 2 * WORD)
siv128 == Class("siv", Ascon128, 2 * WORD, 2 * WORD)
siv128a == Class("siv", Ascon128a, 2 * WORD, 2 * WORD)
siv80pq == Class("siv", Ascon80pq, Ascon80pq.key, 2 * WORD)
aead128_masked == Class("masked", Ascon128, 2 * WORD, 2 * WORD)
aead128a_masked == Class("masked", Ascon128a, 2 * WORD, 2 * WORD)
aead80pq_masked == Class("masked", Ascon80pq, Ascon80pq.key, Ascon80pq.key)
isap128 == Class("isap", Isap!Isap128, 2 * WORD, 2 * WORD)
isap128a == Class("isap", Isap!Isap128a, 2 * WORD, 2 * WORD)
isap80pq == Class("isap", Isap!Isap80pq, Isap!Isap80pq.key, Isap!Isap80pq.key)

Classes ==
    {aead128, aead128a, aead80pq, siv128, siv128a, siv80pq, aead128_masked,
     aead128a_masked, aead80pq_masked, isap128, isap128a, isap80pq}

\* A key as the class keeps it.
Kept(cls, key) ==
    CASE cls.lib = "isap" -> Isap!isap_aead_init(cls.alg, key)
      [] cls.lib = "masked" /\ cls.alg.alg = "80pq" -> Masked!ascon_masked_key_160_init(key)
      [] cls.lib = "masked" /\ cls.alg.alg # "80pq" -> Masked!ascon_masked_key_128_init(key)
      [] OTHER -> key

ZeroKey(cls) == Kept(cls, Zeroes(cls.key))

\* The default constructor, and the one that takes a key: bytes that it does
\* not copy are whatever the memory held.
New(cls) == [cls |-> cls, key |-> ZeroKey(cls), nonce |-> ascon_aead_set_counter(0)]
NewWithKey(cls, key) ==
    [New(cls) EXCEPT !.key = Kept(cls,
        [i \in 1 .. cls.key |-> IF i <= cls.copied THEN key[i] ELSE {<<"memory", 0, i>>}])]

\* What set_key takes for an empty key: ISAP classes read the caller's pointer
\* all the same, behind which there may be anything.
EmptyKey(cls) ==
    IF cls.lib = "isap" THEN Kept(cls, [i \in 1 .. cls.key |-> {<<"memory", 1, i>>}])
    ELSE ZeroKey(cls)

\* A key of another size is refused.
set_key(x, key) ==
    IF Len(key) = x.cls.key THEN [x EXCEPT !.key = Kept(x.cls, key)]
    ELSE IF key = <<>> THEN [x EXCEPT !.key = EmptyKey(x.cls)]
    ELSE IF x.cls.lib = "isap" /\ Len(key) = Isap!SAVED_KEY_SIZE
         THEN [x EXCEPT !.key = Isap!isap_aead_load_key(key)]
    ELSE x
save_key(x) == Isap!isap_aead_save_key(x.key)

\* Short nonces are extended on the left, long ones cut on the right.
set_nonce(x, nonce) ==
    [x EXCEPT !.nonce = [i \in 1 .. NONCE_SIZE |->
        IF Len(nonce) >= NONCE_SIZE THEN nonce[i]
        ELSE IF i <= NONCE_SIZE - Len(nonce) THEN 0
        ELSE nonce[i - (NONCE_SIZE - Len(nonce))]]]
set_counter(x, n) == [x EXCEPT !.nonce = ascon_aead_set_counter(n)]
clear(x) == New(x.cls)

\* Which library function a class calls; `shares` is how masked ones are built.
Encrypted(x, shares, m, ad) ==
    CASE x.cls.lib = "aead" -> aead_encrypt(x.cls.alg.alg, m, ad, x.nonce, x.key)
      [] x.cls.lib = "siv" -> Siv!siv_encrypt(x.cls.alg.alg, m, ad, x.nonce, x.key)
      [] x.cls.lib = "isap" -> Isap!isap_aead_encrypt(x.cls.alg, m, ad, x.nonce, x.key)
      [] OTHER -> Masked!masked_aead_encrypt(x.cls.alg.alg, shares, m, ad, x.nonce, x.key)
Decrypted(x, shares, c, ad) ==
    CASE x.cls.lib = "aead" -> aead_decrypt(x.cls.alg.alg, c, ad, x.nonce, x.key)
      [] x.cls.lib = "siv" -> Siv!siv_decrypt(x.cls.alg.alg, c, ad, x.nonce, x.key)
      [] x.cls.lib = "isap" -> Isap!isap_aead_decrypt(x.cls.alg, c, ad, x.nonce, x.key)
      [] OTHER -> Masked!masked_aead_decrypt(x.cls.alg.alg, shares, c, ad, x.nonce, x.key)

do_encrypt(x, shares, m, ad) ==
    [obj |-> [x EXCEPT !.nonce = ascon_aead_increment_nonce(@)],
     c |-> Encrypted(x, shares, m, ad)]

\* Mutant: a refused packet uses up a nonce.
DecryptMovesOn(x, shares, c, ad) ==
    [obj |-> [x EXCEPT !.nonce = ascon_aead_increment_nonce(@)],
     r |-> Decrypted(x, shares, c, ad)]

AfterPacket(x, r) ==
    [obj |-> IF r.result < 0 THEN x ELSE [x EXCEPT !.nonce = ascon_aead_increment_nonce(@)],
     r |-> r]
do_decrypt(x, shares, c, ad) == AfterPacket(x, Decrypted(x, shares, c, ad))

\* With byte arrays a refused packet leaves an empty array.
Emptied(d) == IF d.r.result < 0 THEN [d EXCEPT !.r.m = <<>>] ELSE d
decrypt(x, shares, c, ad) == Emptied(do_decrypt(x, shares, c, ad))

-----------------------------------------------------------------------------
(* Two programs with a session each. *)

\* A session for a key, by the constructor, by set_key, or from the saved key
\* of another session.
SetUp(cls, way) ==
    CASE way = "ctor" -> NewWithKey(cls, Key(cls.key))
      [] way = "set_key" -> set_key(New(cls), Key(cls.key))
      [] way = "saved" -> set_key(New(cls), save_key(NewWithKey(cls, Key(cls.key))))
      [] way = "cleared" -> set_key(clear(NewWithKey(cls, Key(cls.key))), Key(cls.key))
      [] way = "none" -> New(cls)
      [] way = "zero" -> set_key(NewWithKey(cls, Key(cls.key)), <<>>)

Ways == {"ctor", "set_key", "saved", "cleared", "none", "zero"}
Nonces == [1 .. NONCE_SIZE -> 0 .. BASE - 1]

\* A nonce has 16 bytes; set_nonce takes any number of them.
ASSUME CiphersAssumption ==
    /\ Algorithms \subseteq {"128", "128a", "80pq"} /\ StartNonces \subseteq Nonces
    /\ MaxStarts \in Nat /\ MaxText \in Nat /\ AdLengths \subseteq Nat /\ Pieces \subseteq Nat
    /\ \A p \in Profiles :
          /\ {p.send, p.receive} \subseteq Classes /\ {p.sender, p.receiver} \subseteq Ways
          /\ p.nonce \in Seq(0 .. BASE - 1) /\ p.packets \in Nat

NoPacket == [p |-> 0, intact |-> TRUE, due |-> FALSE, result |-> 0, m |-> <<>>]

SessionsIdle ==
    /\ profile = <<>> /\ snd = {} /\ rcv = {}
    /\ sent = <<>> /\ accepted = <<>> /\ last = NoPacket

SessionsInit ==
    \E p \in Profiles :
        /\ profile = p
        /\ snd = set_nonce(SetUp(p.send, p.sender), p.nonce)
        /\ rcv = set_nonce(SetUp(p.receive, p.receiver), p.nonce)
        /\ sent = <<>> /\ accepted = <<>> /\ last = NoPacket

DoSend(n, a) ==
    LET p == Len(sent) + 1
    IN  /\ profile # <<>> /\ Len(sent) < profile.packets
        /\ \E r \in {do_encrypt(snd, profile.shares, Text(p, n), Ad(p, a))} :
              /\ snd' = r.obj
              /\ sent' = Append(sent, [m |-> Text(p, n), ad |-> Ad(p, a), nonce |-> snd.nonce,
                                       c |-> r.c])
        /\ UNCHANGED <<pieceVars, profile, rcv, accepted, last>>

\* The receiver is offered the p-th packet as it was sent or damaged.
Receive(p, c, ad, intact) ==
    \E r \in {IF profile.arrays THEN decrypt(rcv, profile.shares, c, ad)
              ELSE do_decrypt(rcv, profile.shares, c, ad)} :
        /\ rcv' = r.obj
        /\ accepted' = IF r.r.result < 0 THEN accepted
                       ELSE Append(accepted, [m |-> r.r.m, ad |-> ad])
        /\ last' = [p |-> p, intact |-> intact, due |-> p = Len(accepted) + 1,
                    result |-> r.r.result, m |-> r.r.m]
        /\ UNCHANGED <<pieceVars, profile, snd, sent>>

DoReceive(p) == Receive(p, sent[p].c, sent[p].ad, TRUE)

\* The first byte or the end of the tag flipped, the associated data longer by
\* what looks like padding, the packet cut by a byte or to less than a tag.
Damages(c, ad) ==
    { <<Flip(c, 1), ad>>, <<Flip(c, Len(c)), ad>>, <<c, Append(ad, PadByte)>>,
      <<Tail(c), ad>>, <<SubSeq(c, 1, TAG_SIZE - 1), ad>> }
DoReceiveDamaged(p) ==
    \E x \in Damages(sent[p].c, sent[p].ad) : Receive(p, x[1], x[2], FALSE)

SessionsNext ==
    \/ \E t \in Texts : DoSend(t[1], t[2])
    \/ \E p \in DOMAIN sent : DoReceive(p) \/ DoReceiveDamaged(p)

-----------------------------------------------------------------------------
CiphersInit == (PiecesInit /\ SessionsIdle) \/ (PiecesIdle /\ SessionsInit)
CiphersNext == PiecesNext \/ SessionsNext
CiphersSpec == CiphersInit /\ [][CiphersNext]_cipherVars

-----------------------------------------------------------------------------
(***************************************************************************)
(* However a packet is cut into pieces, what has been encrypted so far is  *)
(* the beginning of the packet of the reference, and the finished packet   *)
(* is the one that the one-call function returns                           *)
(* (src/src/aead/ascon-aead-inc-128a.c:96).                                *)
(***************************************************************************)
PiecesAreOneShot ==
    Busy =>
        LET m == Text(0, Len(cipher.text))
            nonce == nonces[Len(nonces)]
            whole == RefPacket(Record(alg), m, Ad(0, adlen), nonce, enc.key)
        IN  ~damaged =>
                IF cipher.tag = <<>> THEN cipher.text = SubSeq(whole, 1, Len(m))
                ELSE /\ cipher.text \o cipher.tag = whole
                     /\ whole = aead_encrypt(alg, m, Ad(0, adlen), nonce, enc.key)

(***************************************************************************)
(* The program that decrypts in pieces of its own has, after every piece,  *)
(* the plaintext up to there if the packet is undamaged; and its last call *)
(* tells a damaged packet from an undamaged one.                           *)
(***************************************************************************)
StreamIsOpened ==
    /\ ~damaged => opened = Text(0, taken)
    /\ verdict # 1 =>
          /\ verdict = 0 <=> ~damaged
          /\ verdict = aead_decrypt(alg, cipher.text \o cipher.tag, Ad(0, adlen),
                                    nonces[Len(nonces)], dec.key).result

(***************************************************************************)
(* No two packets under one key are encrypted with the same nonce, whether *)
(* in pieces or in a session, until all nonces have been used              *)
(* (src/src/aead/ascon-aead-util.c:34).                                    *)
(***************************************************************************)
NoncesDiffer ==
    /\ \A i, j \in DOMAIN nonces : i # j => nonces[i] # nonces[j]
    /\ \A i, j \in DOMAIN sent : i # j => sent[i].nonce # sent[j].nonce

(***************************************************************************)
(* Whatever the line does to packets, the packets a session accepts are    *)
(* the ones that were sent, in their order and without a gap.              *)
(***************************************************************************)
AcceptedInOrder ==
    /\ Len(accepted) <= Len(sent)
    /\ \A i \in DOMAIN accepted :
          accepted[i] = [m |-> sent[i].m, ad |-> sent[i].ad]

(***************************************************************************)
(* A session accepts the packet that is due, whatever it has refused       *)
(* before: a refused packet changes neither key nor nonce.  In particular  *)
(* plain and masked sessions understand each other, and so do sessions     *)
(* whose key was saved and loaded (src/src/cplusplus/ascon-aead-cpp.cpp).  *)
(***************************************************************************)
DueIsAccepted == last.intact /\ last.due => last.result = 0

(***************************************************************************)
(* Of a packet that is refused, no plaintext is left in the caller's       *)
(* buffer, although it was decrypted there before the tag was compared     *)
(* (src/src/aead/ascon-aead-common.c:25).                                  *)
(***************************************************************************)
RefusedLeavesNothing == last.result < 0 => \A i \in DOMAIN last.m : last.m[i] = {}

(***************************************************************************)
(* What the constructors say of their parameter, "The key to use to        *)
(* encrypt or decrypt packets": a session encrypts with the whole key it   *)
(* was constructed with.                                                   *)
(***************************************************************************)
UsesTheKeyGiven ==
    profile # <<>> /\ profile.sender = "ctor" =>
        \A p \in DOMAIN sent :
            sent[p].c = Encrypted(
                [set_key(snd, Key(snd.cls.key)) EXCEPT !.nonce = sent[p].nonce],
                profile.shares, sent[p].m, sent[p].ad)

=============================================================================
