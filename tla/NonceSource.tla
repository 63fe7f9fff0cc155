----------------------------- MODULE NonceSource ----------------------------
(***************************************************************************)
(* What the sender promises the link (ascon-lora/README.md, "O que ela     *)
(* garante"): every packet is sealed under a provisioned key joined with   *)
(* its own prefix, and under one key each counter is above all earlier     *)
(* ones.  Values may be skipped, never repeated.                           *)
(***************************************************************************)
EXTENDS Integers

CONSTANTS Keys, Counters

VARIABLE emitted      \* the nonces packets were sealed under, with their key

Above(n, S) == \A m \in S : m.key = n.key => m.ctr < n.ctr

Init == emitted = {}

Emit(k, c) ==
  LET n == [key |-> k, prefix |-> k, ctr |-> c]
  IN  /\ Above(n, emitted)
      /\ emitted' = emitted \cup {n}

Next == \E k \in Keys, c \in Counters : Emit(k, c)

Spec == Init /\ [][Next]_emitted
=============================================================================
