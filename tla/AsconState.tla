---------------------------- MODULE AsconState ----------------------------
(***************************************************************************)
(* The 40-byte permutation state and the operations the modes of the       *)
(* library are written with (core/ascon-direct-xor.c, the macros of        *)
(* core/ascon-util-snp.h).                                                 *)
(*                                                                         *)
(* The permutation is opaque: what it returns for a state is a fresh state *)
(* that is determined by that state and by the number of rounds, and by    *)
(* nothing else.  A state is therefore the list of the permutations that   *)
(* led to it, each with its input, and the contents of its bytes.  A byte  *)
(* is the set of the atoms whose exclusive or it is; an atom is a triple:  *)
(* <<"p", d, i>> is byte i of what the d-th permutation returned, and the  *)
(* other kinds name input bytes, padding, separators and so on.  Two       *)
(* states are equal exactly if the same operations built them.             *)
(***************************************************************************)
EXTENDS Integers, Sequences

\* Bytes of one of the five words of the state: 8 in the code.
CONSTANT WORD

ASSUME WordAssumption == WORD \in Nat \ {0}

STATE_SIZE == 5 * WORD

Zeroes(n) == [i \in 1 .. n |-> {}]

Xor(a, b) == (a \ b) \cup (b \ a)

\* The byte that pads an input (0x80), and the bit that separates domains.
PadByte == {<<"pad", 0, 0>>}
SeparatorByte == {<<"sep", 0, 0>>}

\* What the d-th permutation left in the state.
Permuted(d) == [i \in 0 .. STATE_SIZE - 1 |-> {<<"p", d, i>>}]

ascon_init == [chain |-> <<>>, b |-> [i \in 0 .. STATE_SIZE - 1 |-> {}]]

\* The part of the state that an operation at `offset` of `n` bytes touches.
Touched(offset, n) == {i \in 0 .. STATE_SIZE - 1 : offset <= i /\ i < offset + n}

ascon_add_bytes(s, data, offset) ==
    [s EXCEPT !.b = [i \in DOMAIN @ |->
        IF i \in Touched(offset, Len(data))
        THEN Xor(@[i], data[i - offset + 1]) ELSE @[i]]]

ascon_overwrite_bytes(s, data, offset) ==
    [s EXCEPT !.b = [i \in DOMAIN @ |->
        IF i \in Touched(offset, Len(data)) THEN data[i - offset + 1] ELSE @[i]]]

ascon_extract_bytes(s, offset, n) == [j \in 1 .. n |-> s.b[offset + j - 1]]

ascon_extract_and_add_bytes(s, data, offset) ==
    [j \in 1 .. Len(data) |-> Xor(data[j], s.b[offset + j - 1])]

(***************************************************************************)
(* Bytes that leave a state and may enter another one name the state they  *)
(* were permuted in: <<"p", d, i>> becomes <<"px", chain, i>>.  Coming     *)
(* back into a state that went through the same permutations they are what *)
(* they were.                                                              *)
(***************************************************************************)
Leaving(s, data) ==
    [j \in DOMAIN data |->
        {IF a[1] = "p" THEN <<"px", SubSeq(s.chain, 1, a[2]), a[3]>> ELSE a :
            a \in data[j]}]

Entering(s, data) ==
    [j \in DOMAIN data |->
        {IF a[1] = "px" /\ Len(a[2]) <= Len(s.chain)
            /\ a[2] = SubSeq(s.chain, 1, Len(a[2]))
         THEN <<"p", Len(a[2]), a[3]>> ELSE a : a \in data[j]}]

\* A state that depends on no permutation any more has lost its history.
Forgetful(s) ==
    IF \E i \in DOMAIN s.b : \E a \in s.b[i] : a[1] = "p" THEN s
    ELSE [s EXCEPT !.chain = <<>>]

ascon_pad(s, offset) == ascon_add_bytes(s, <<PadByte>>, offset)
ascon_separator(s) == ascon_add_bytes(s, <<SeparatorByte>>, STATE_SIZE - 1)

\* 12 - round rounds of the permutation.
ascon_permute(s, round) ==
    [chain |-> Append(s.chain, [round |-> round, b |-> s.b]),
     b     |-> Permuted(Len(s.chain) + 1)]

=============================================================================
