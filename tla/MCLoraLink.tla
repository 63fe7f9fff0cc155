----------------------------- MODULE MCLoraLink -----------------------------
(***************************************************************************)
(* LoraLink for TLC: two boards, three node numbers, a gateway with two     *)
(* slots.                                                                  *)
(***************************************************************************)
EXTENDS LoraLink, TLC

\* Boards are interchangeable, and so are node numbers.
LinkSymmetry == Permutations(Creds) \cup Permutations(PeerIds)
=============================================================================
