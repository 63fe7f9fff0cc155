------------------------------ MODULE LoraLink ------------------------------
(***************************************************************************)
(* The whole link: the boards, reduced to what LoraSender is shown to      *)
(* implement (NonceSource), the radio, and the gateway of LoraReceiver.    *)
(* The library does not drive the radio: a packet on the air may reach the *)
(* gateway never, several times, late, out of order, under another node's  *)
(* number, or damaged, and anything else may be received as well.          *)
(***************************************************************************)
EXTENDS LoraReceiver

VARIABLE emitted      \* the packets sealed so far

linkVars == <<rxVars, emitted>>

Boards == INSTANCE NonceSource WITH Keys <- Creds

\* What the gateway's radio can receive: every packet ever sealed, and bytes
\* that are no such packet, with any counter in front.
OnAir ==
  {[cred |-> n.key, ctr |-> n.ctr, intact |-> TRUE] : n \in emitted}
    \cup [cred : Creds, ctr : Counters, intact : {FALSE}]

LinkInit == RxInit /\ Boards!Init

BoardSends == Boards!Next /\ UNCHANGED rxVars

GatewayStep == RxNext(OnAir) /\ UNCHANGED emitted

LinkNext == BoardSends \/ GatewayStep

LinkSpec == LinkInit /\ [][LinkNext]_linkVars

-----------------------------------------------------------------------------
(* Properties.                                                             *)

Channel == INSTANCE SecureChannel WITH Keys <- Creds

\* The link delivers only what a board sealed, at most once and in order: board,
\* lossy radio and gateway together implement SecureChannel.
ImplementsSecureChannel == Channel!Spec

\* A counter in the NVS or in the table of the gateway was sealed under its own
\* key, so the next packet of that board is above it and is accepted: neither
\* damaged packets, however large their counter, nor wrong registrations lock a
\* board out (the comment on the order of tag and replay tests).
BoardNeverLockedOut ==
  LET sealed(c) == {n.ctr : n \in {m \in emitted : m.key = c}}
  IN  /\ \A c \in Creds : rxNvs[c] # None => rxNvs[c] \in sealed(c)
      /\ \A i \in Used : peers[i].hasAccepted
                           => peers[i].lastAccepted \in sealed(peers[i].cred)
=============================================================================
