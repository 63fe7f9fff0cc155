---------------------------- MODULE XofObjects ----------------------------
(***************************************************************************)
(* Programs that use ASCON-XOF or ASCON-XOFA objects: they initialise      *)
(* them, absorb and squeeze in pieces of any length and in any order, pad, *)
(* copy, re-initialise and free them.  A program uses one of the variants, *)
(* and the same programs run on both.                                      *)
(*                                                                         *)
(* Every byte that an object absorbs is distinguishable from all others,   *)
(* so a byte that is dropped, repeated, misplaced or padded over shows.    *)
(***************************************************************************)
EXTENDS AsconState, TLC

CONSTANTS
    Variants,       \* the variants of the sponge
    Objects,        \* the objects
    Lengths,        \* lengths that calls absorb and squeeze
    OutLengths,     \* output lengths that init_fixed and init_custom ask for
    NameLengths,    \* lengths of function names
    CustomLengths,  \* lengths of customization strings
    MAX_OUTLEN,     \* first output length that is not encoded: 2^29
    MaxPermutes,    \* bound on the permutations of one object (an eager sponge
                    \* is one ahead of the output), and of each of two objects
    MaxPairPermutes,
    MaxPhaseStart   \* bound on the permutations before its last phase

ASSUME ObjectsAssumption ==
    /\ Variants \subseteq {"xof", "xofa"}
    /\ MAX_OUTLEN \in Nat \ {0} /\ {MaxPermutes, MaxPairPermutes} \subseteq Nat
    /\ MaxPhaseStart \in Nat
    /\ Lengths \cup OutLengths \cup NameLengths \cup CustomLengths \subseteq Nat

-----------------------------------------------------------------------------
\* Bytes that one block absorbs or squeezes, the first round of the permutations
\* inside a phase, and whether output is permuted as soon as a block is used up.
RATE == WORD
Inner(v) == IF v = "xofa" THEN 4 ELSE 0
Eager(v) == v = "xofa"

(***************************************************************************)
(* What a sponge with a given rate computes, said without chunks, counters *)
(* or modes.  One phase starts from a permuted state, takes a whole input, *)
(* pads it once and delivers a stream of output.  The k-th block that the  *)
(* phase adds to the state is a function of the whole input alone, so the  *)
(* state after any number of permutations is written down directly.        *)
(***************************************************************************)

(***************************************************************************)
(* A phase: its variant, the permutations before it, whether a separator   *)
(* was put in at its start, its input so far, and how many bytes came out  *)
(* of it (-1 while it still takes input).                                  *)
(***************************************************************************)
NewPhase(v, chain, sep) ==
    [v |-> v, base |-> chain, sep |-> sep, in |-> <<>>, out |-> -1]

\* The input as it enters the state: padded once it is complete.
PhaseByte(g, k) ==
    IF k <= Len(g.in) THEN g.in[k]
    ELSE IF k = Len(g.in) + 1 /\ g.out >= 0 THEN PadByte ELSE {}

\* The state as block k of the phase (counted from 1) has been added to it.
PhaseBlock(g, k) ==
    [i \in 0 .. STATE_SIZE - 1 |->
        Xor(Xor(Permuted(Len(g.base) + k - 1)[i],
                IF i < RATE THEN PhaseByte(g, (k - 1) * RATE + i + 1) ELSE {}),
            IF k = 1 /\ g.sep /\ i = STATE_SIZE - 1 THEN SeparatorByte ELSE {})]

FullBlocks(g) == Len(g.in) \div RATE

\* The permutation after the padded block runs all its rounds.
PhaseRound(g, k) == IF g.out >= 0 /\ k = FullBlocks(g) + 1 THEN 0 ELSE Inner(g.v)

\* The state of the phase after j permutations.
PhaseState(g, j) ==
    [chain |-> g.base \o [k \in 1 .. j |-> [round |-> PhaseRound(g, k),
                                            b |-> PhaseBlock(g, k)]],
     b     |-> PhaseBlock(g, j + 1)]

CeilDiv(n, d) == (n + d - 1) \div d

\* How many permutations the phase has run.
PhasePermutes(g) ==
    FullBlocks(g) + (IF g.out < 0 THEN 0
                     ELSE IF Eager(g.v) THEN 1 + g.out \div RATE
                     ELSE CeilDiv(g.out, RATE))

CurrentState(g) == PhaseState(g, PhasePermutes(g))

\* Byte k (counted from 1) of the output stream of the phase.
StreamByte(g, k) ==
    PhaseBlock(g, FullBlocks(g) + (k - 1) \div RATE + 2)[(k - 1) % RATE]

\* A phase that has delivered output goes back to taking input.
Reabsorbing(g) ==
    IF g.out < 0 THEN g
    ELSE NewPhase(g.v, Append(CurrentState(g).chain,
                              [round |-> 0, b |-> CurrentState(g).b]), FALSE)

\* A phase is closed with its padding and a separator, without output.
Separated(g) ==
    LET last == PhaseState([g EXCEPT !.out = 0], FullBlocks(g))
    IN  NewPhase(g.v, Append(last.chain, [round |-> Inner(g.v), b |-> last.b]), TRUE)

\* Zeroes up to the next multiple of the rate.
ZeroPadded(in) == in \o [i \in 1 .. (-Len(in)) % RATE |-> {}]

-----------------------------------------------------------------------------
(* The programs. *)

X == INSTANCE AsconXof
XA == INSTANCE AsconXofa

HASH_SIZE == X!ASCON_HASH_SIZE

VARIABLES
    variant,    \* the variant that the program uses
    xof,        \* the objects
    phase,      \* history: the phase each object is in, as the reference has it
    got,        \* history: the output each object delivered in its phase
    start       \* history: the parameters each object was initialised with

vars == <<variant, xof, phase, got, start>>

NoStart == [name |-> 0, custom |-> 0, outlen |-> -1]

Live(o) == start[o] # NoStart

\* What o was initialised with: a length that is too large counts as none.
Parameters(o) ==
    [start[o] EXCEPT !.outlen = IF @ < MAX_OUTLEN THEN @ ELSE 0]

\* The functions of the variant.
Freed == IF variant = "xof" THEN X!ascon_xof_free ELSE XA!ascon_xofa_free
InitFixed(outlen) ==
    IF variant = "xof" THEN X!ascon_xof_init_fixed(outlen)
    ELSE XA!ascon_xofa_init_fixed(outlen)
InitCustom(name, custom, outlen) ==
    IF variant = "xof" THEN X!ascon_xof_init_custom(name, custom, outlen)
    ELSE XA!ascon_xofa_init_custom(name, custom, outlen)
Absorb(x, in) ==
    IF variant = "xof" THEN X!ascon_xof_absorb(x, in) ELSE XA!ascon_xofa_absorb(x, in)
AbsorbCustom(x, custom) ==
    IF variant = "xof" THEN X!ascon_xof_absorb_custom(x, custom)
    ELSE XA!ascon_xofa_absorb_custom(x, custom)
Squeeze(x, n) ==
    IF variant = "xof" THEN X!ascon_xof_squeeze(x, n) ELSE XA!ascon_xofa_squeeze(x, n)
Pad(x) == IF variant = "xof" THEN X!ascon_xof_pad(x) ELSE XA!ascon_xofa_pad(x)
OneShotXof(in) ==
    IF variant = "xof" THEN X!ascon_xof_oneshot(in) ELSE XA!ascon_xofa_oneshot(in)
OneShotHash(in) ==
    IF variant = "xof" THEN X!ascon_hash(in) ELSE XA!ascon_hasha(in)

\* Names of different lengths agree as far as they go.
Name(n) == [i \in 1 .. n |-> {<<"name", 0, i>>}]

Input(n) == [i \in 1 .. n |-> {<<"in", 0, i>>}]

(***************************************************************************)
(* The reference for an initialised object: the output length and the      *)
(* function name go through one permutation; a customization string is a   *)
(* phase of its own that ends with a separator.                            *)
(***************************************************************************)
StartBlock(name, outlen) ==
    [i \in 0 .. STATE_SIZE - 1 |->
        IF i < WORD THEN {<<"iv", IF outlen < MAX_OUTLEN THEN outlen ELSE 0, i + 1>>}
        ELSE IF name > HASH_SIZE THEN {<<"hash", name, i - WORD + 1>>}
        ELSE IF i - WORD < name THEN {<<"name", 0, i - WORD + 1>>}
        ELSE {}]

FirstPhase(name, custom, outlen) ==
    LET g == NewPhase(variant, <<[round |-> 0, b |-> StartBlock(name, outlen)]>>, FALSE)
    IN  IF custom = 0 THEN g ELSE Separated([g EXCEPT !.in = Input(custom)])

-----------------------------------------------------------------------------
Init ==
    /\ variant \in Variants
    /\ xof = [o \in Objects |-> Freed]
    /\ phase = [o \in Objects |-> NewPhase(variant, <<>>, FALSE)]
    /\ got = [o \in Objects |-> <<>>]
    /\ start = [o \in Objects |-> NoStart]

\* Two objects at once are explored less far than one.
Alone(o) == \A other \in Objects \ {o} : ~Live(other)

Within(x, bound) ==
    Len(x.state.chain) <= bound + (IF Eager(variant) THEN 1 ELSE 0)

\* Object o becomes x, in phase g, having delivered `out`.
Becomes(o, x, g, out) ==
    /\ Within(x, IF Alone(o) THEN MaxPermutes ELSE MaxPairPermutes)
    /\ \A other \in Objects \ {o} : Live(other) => Within(xof[other], MaxPairPermutes)
    /\ Len(g.base) <= MaxPhaseStart
    /\ xof' = [xof EXCEPT ![o] = x]
    /\ phase' = [phase EXCEPT ![o] = g]
    /\ got' = [got EXCEPT ![o] = out]
    /\ UNCHANGED variant

DoInitFixed(o, outlen) ==
    /\ ~Live(o)
    /\ Becomes(o, InitFixed(outlen), FirstPhase(0, 0, outlen), <<>>)
    /\ start' = [start EXCEPT ![o] = [name |-> 0, custom |-> 0, outlen |-> outlen]]

DoInitCustom(o, name, custom, outlen) ==
    /\ ~Live(o)
    /\ Becomes(o, InitCustom(Name(name), Input(custom), outlen),
               FirstPhase(name, custom, outlen), <<>>)
    /\ start' = [start EXCEPT ![o] =
                    [name |-> name, custom |-> custom, outlen |-> outlen]]

\* In the C backends reinit is init on an object that holds anything at all.
DoReinit(o) ==
    /\ Live(o)
    /\ LET p == start[o]
       IN  Becomes(o, IF p.name = 0 /\ p.custom = 0 THEN InitFixed(p.outlen)
                      ELSE InitCustom(Name(p.name), Input(p.custom), p.outlen),
                   FirstPhase(p.name, p.custom, p.outlen), <<>>)
    /\ UNCHANGED start

DoFree(o) ==
    /\ Live(o)
    /\ Becomes(o, Freed, NewPhase(variant, <<>>, FALSE), <<>>)
    /\ start' = [start EXCEPT ![o] = NoStart]

DoAbsorb(o, n) ==
    /\ Live(o)
    /\ LET g  == Reabsorbing(phase[o])
           in == [i \in 1 .. n |-> {<<"in", 0, Len(g.in) + i>>}]
       IN  Becomes(o, Absorb(xof[o], in), [g EXCEPT !.in = @ \o in], <<>>)
    /\ UNCHANGED start

\* KMAC absorbs its customization string this way, with the object fresh.
DoAbsorbCustom(o, n) ==
    /\ Live(o) /\ phase[o].out < 0 /\ phase[o].in = <<>> /\ start[o].custom = 0
    /\ Becomes(o, AbsorbCustom(xof[o], Input(n)),
               IF n = 0 THEN phase[o]
               ELSE Separated([phase[o] EXCEPT !.in = Input(n)]), <<>>)
    /\ start' = [start EXCEPT ![o].custom = n]

DoSqueeze(o, n) ==
    /\ Live(o)
    /\ LET r == Squeeze(xof[o], n)
           g == phase[o]
       IN  Becomes(o, r.obj, [g EXCEPT !.out = IF g.out < 0 THEN n ELSE @ + n],
                   got[o] \o r.out)
    /\ UNCHANGED start

DoPad(o) ==
    /\ Live(o)
    /\ LET g == Reabsorbing(phase[o])
       IN  Becomes(o, Pad(xof[o]), [g EXCEPT !.in = ZeroPadded(@)], <<>>)
    /\ UNCHANGED start

DoCopy(dest, src) ==
    /\ Live(src) /\ dest # src
    /\ Becomes(dest, xof[src], phase[src], got[src])
    /\ start' = [start EXCEPT ![dest] = start[src]]

Next ==
    \E o \in Objects :
        \/ \E len \in OutLengths : DoInitFixed(o, len)
        \/ \E name \in NameLengths, custom \in CustomLengths, len \in OutLengths :
              DoInitCustom(o, name, custom, len)
        \/ DoReinit(o)
        \/ DoFree(o)
        \/ \E n \in Lengths : DoAbsorb(o, n) \/ DoSqueeze(o, n)
        \/ \E n \in CustomLengths : DoAbsorbCustom(o, n)
        \/ DoPad(o)
        \/ \E src \in Objects : DoCopy(o, src)

Spec == Init /\ [][Next]_vars

\* For TLC: the objects are interchangeable.
ObjectSymmetry == Permutations(Objects)

-----------------------------------------------------------------------------
(***************************************************************************)
(* StateIsReference: however the input was cut into calls of absorb, and   *)
(* the output into calls of squeeze, however often the program went back   *)
(* from squeezing to absorbing, padded or copied the object, its           *)
(* permutation state is the one that the whole input determines.           *)
(***************************************************************************)
StateIsReference ==
    \A o \in Objects : Live(o) => xof[o].state = CurrentState(phase[o])

(***************************************************************************)
(* OutputIsStream: the bytes that the calls of squeeze returned one after  *)
(* the other are the output stream of the input, none left out, repeated   *)
(* or taken from a block that was not permuted.                            *)
(***************************************************************************)
OutputIsStream ==
    \A o \in Objects : Live(o) =>
        got[o] = [k \in 1 .. Len(got[o]) |-> StreamByte(phase[o], k)]

(***************************************************************************)
(* OneShotAgrees: an object initialised for a hash or for an XOF delivers, *)
(* from whatever pieces, what ascon_hash and ascon_xof deliver in one call.*)
(***************************************************************************)
OneShotAgrees ==
    \A o \in Objects :
        /\ Live(o) /\ start[o].name = 0 /\ start[o].custom = 0
        /\ Len(got[o]) >= HASH_SIZE
        /\ Len(phase[o].base) = 1
        => LET digest == SubSeq(got[o], 1, HASH_SIZE)
           IN  /\ Parameters(o).outlen = HASH_SIZE => digest = OneShotHash(phase[o].in)
               /\ Parameters(o).outlen = 0 => digest = OneShotXof(phase[o].in)

(***************************************************************************)
(* ParametersSeparate: two objects are in the same state only if they were *)
(* initialised with the same function name, customization string and       *)
(* output length, whatever they absorbed afterwards.                       *)
(***************************************************************************)
ParametersSeparate ==
    \A o1, o2 \in Objects :
        Live(o1) /\ Live(o2) /\ xof[o1] = xof[o2] => Parameters(o1) = Parameters(o2)

=============================================================================
