------------------------------ MODULE BitWords ------------------------------
(***************************************************************************)
(* Machine words whose bits are formulas.                                  *)
(*                                                                         *)
(* A bit is a polynomial over GF(2): the set of the monomials that occur   *)
(* in it, each the set of its atoms, the unknown input bits.  Two bits are *)
(* equal exactly if they have the same value whatever the inputs are, so   *)
(* one evaluation of an operator settles it for every input.  A word is    *)
(* the sequence of its bits, most significant first, the order in which    *)
(* big-endian bytes have them: loading and storing big-endian is nothing   *)
(* but cutting and joining.                                                *)
(***************************************************************************)
EXTENDS Integers, Sequences, FiniteSets

Off == {}
On == {{}}
Unknown(atom) == {{atom}}

BitXor(p, q) == {m \in p \cup q : m \notin p \cap q}
BitNot(p) == BitXor(p, On)
BitAnd(p, q) ==
    CASE p = Off \/ q = Off -> Off
      [] p = On -> q
      [] q = On -> p
      [] OTHER ->
            LET pairs == p \X q
            IN  {m \in {a[1] \cup a[2] : a \in pairs} :
                    Cardinality({a \in pairs : a[1] \cup a[2] = m}) % 2 = 1}

\* The sequence s; TLC evaluates its elements here, once, and not at every use.
Evaluated(s) == s \o <<>>

WordXor(a, b) == Evaluated([i \in 1 .. Len(a) |-> BitXor(a[i], b[i])])
WordAnd(a, b) == Evaluated([i \in 1 .. Len(a) |-> BitAnd(a[i], b[i])])
WordNot(a) == Evaluated([i \in 1 .. Len(a) |-> BitNot(a[i])])
WordOr(a, b) == WordNot(WordAnd(WordNot(a), WordNot(b)))

\* `a` where the mask is clear, `b` where it is set.
Blend(a, b, mask) == WordXor(WordAnd(a, WordNot(mask)), WordAnd(b, mask))

Blank(n) == [i \in 1 .. n |-> Off]
Ones(n) == [i \in 1 .. n |-> On]

RotR(a, n) ==
    LET k == n % Len(a)
    IN  SubSeq(a, Len(a) - k + 1, Len(a)) \o SubSeq(a, 1, Len(a) - k)
ShiftR(a, n) == Blank(n) \o SubSeq(a, 1, Len(a) - n)
ShiftL(a, n) == SubSeq(a, n + 1, Len(a)) \o Blank(n)

(***************************************************************************)
(* The rotations of a 32-bit word on processors that are fast only in      *)
(* rotating by one bit and by whole bytes (core/ascon-util.h): left by     *)
(* some bytes, then left, or right if negative, by single bits.            *)
(***************************************************************************)
Composition == << <<0, 1>>, <<0, 2>>, <<0, 3>>, <<0, 4>>, <<8, -3>>, <<8, -2>>, <<8, -1>>,
    <<8, 0>>, <<8, 1>>, <<8, 2>>, <<8, 3>>, <<16, -4>>, <<16, -3>>, <<16, -2>>, <<16, -1>>,
    <<16, 0>>, <<16, 1>>, <<16, 2>>, <<16, 3>>, <<16, 4>>, <<24, -3>>, <<24, -2>>, <<24, -1>>,
    <<24, 0>>, <<24, 1>>, <<24, 2>>, <<24, 3>>, <<0, -4>>, <<0, -3>>, <<0, -2>>, <<0, -1>> >>

leftRotate(a, bits) ==
    LET bytes == RotR(a, 32 - Composition[bits][1])
        ones  == Composition[bits][2]
    IN  IF ones < 0 THEN RotR(bytes, -ones) ELSE RotR(bytes, 32 - ones)

\* They are defined by the left rotations.
rightRotate(a, bits) == leftRotate(a, 32 - bits)

High(a) == SubSeq(a, 1, Len(a) \div 2)
Low(a) == SubSeq(a, Len(a) \div 2 + 1, Len(a))

\* The word of `n` bits that holds the number v.
Number(v, n) ==
    Evaluated([i \in 1 .. n |->
        IF n - i < 31 /\ (v \div 2 ^ (n - i)) % 2 = 1 THEN On ELSE Off])

\* A 32-bit constant, as its upper and its lower 16 bits.
Constant32(upper, lower) == Number(upper, 16) \o Number(lower, 16)

\* Byte i of a word, or of the bytes that a sequence of bits stands for.
ByteOf(a, i) == SubSeq(a, 8 * i + 1, 8 * i + 8)

\* n unknown bits that `name` and their place tell apart.
UnknownWord(name, n) == Evaluated([i \in 1 .. n |-> Unknown(<<name, i>>)])

=============================================================================
