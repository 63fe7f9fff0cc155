---------------------------- MODULE SecureChannel ---------------------------
(***************************************************************************)
(* The service of the AsconSecure link, as its README states it: messages  *)
(* of a node may be lost, but what reaches the application was sealed by   *)
(* that node, arrives at most once, and in the order it was sealed.        *)
(***************************************************************************)
EXTENDS Integers, Sequences

CONSTANTS Keys, Counters

VARIABLES
  emitted,            \* messages sealed so far: key, prefix and counter
  delivered           \* counters of the messages delivered, per key

Source == INSTANCE NonceSource

Init ==
  /\ Source!Init
  /\ delivered = [k \in Keys |-> <<>>]

Send ==
  /\ Source!Next
  /\ UNCHANGED delivered

Deliver(n) ==
  /\ \A i \in 1 .. Len(delivered[n.key]) : delivered[n.key][i] < n.ctr
  /\ delivered' = [delivered EXCEPT ![n.key] = Append(@, n.ctr)]
  /\ UNCHANGED emitted

Next == Send \/ \E n \in emitted : Deliver(n)

Spec == Init /\ [][Next]_<<emitted, delivered>>
=============================================================================
