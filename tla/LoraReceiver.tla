---------------------------- MODULE LoraReceiver ----------------------------
(***************************************************************************)
(* The receiving half of the AsconSecure library (ascon-lora/src): the     *)
(* gateway.  It keeps a table of peers, each with the key and prefix that  *)
(* provisioning printed, and accepts a packet only when its tag verifies   *)
(* and its counter is above the last one accepted for that key.  The last  *)
(* counter lives in the NVS, filed under a fingerprint of key and prefix,  *)
(* and in every slot of the table that holds the key.                      *)
(*                                                                         *)
(* A credential stands for a key with its prefix, and for its fingerprint: *)
(* the seven bytes of it that name the NVS entry are taken to be distinct  *)
(* for distinct credentials.  The functions are called from one task, as   *)
(* the sketch does; NVS calls can fail and power can be lost between any   *)
(* two steps.                                                              *)
(***************************************************************************)
EXTENDS Integers, Sequences

CONSTANTS
  Creds,           \* credentials: key, prefix and fingerprint
  PeerIds,         \* node numbers the sketch may use
  MAX_PEERS,       \* slots of the peer table (8 in the code)
  MaxCounter,      \* largest counter a packet carries (bound of the model)
  NvsReadFaults,   \* whether getUInt may fail on an entry that exists
  None             \* an absent NVS entry, no call in progress

ASSUME ReceiverAssumption ==
  /\ MAX_PEERS \in Nat \ {0}
  /\ MaxCounter \in Nat
  /\ NvsReadFaults \in BOOLEAN
  /\ None \notin Nat
  /\ None \notin Creds

VARIABLES
  rxNvs,           \* namespace "ascon-rx": last accepted counter per credential
  receiverReady,
  peers,           \* the peer table
  unwrap,          \* a packet that passed tag and replay tests, or None
  rxRet,           \* the status the last call to return gave its caller
  delivered        \* history: counters handed to the sketch, per credential

rxVars == <<rxNvs, receiverReady, peers, unwrap, rxRet, delivered>>

Slots    == 1 .. MAX_PEERS
Counters == 0 .. MaxCounter

\* A zeroed entry of the table.
EmptySlot == [used |-> FALSE]

Peer == [used : {TRUE}, id : PeerIds, cred : Creds,
         hasAccepted : BOOLEAN, lastAccepted : Counters]

\* What the radio hands to Open: the counter in clear, the credential it was
\* sealed under, and whether it still is what the sender sealed.
Packets == [cred : Creds, ctr : Counters, intact : BOOLEAN]

RxStatuses == {"OK", "NOT_READY", "BUFFER", "AUTH", "REPLAY", "NVS", "PEER",
               "FULL", "EMPTY"}

RxTypeOK ==
  /\ rxNvs \in [Creds -> Counters \cup {None}]
  /\ receiverReady \in BOOLEAN
  /\ peers \in [Slots -> Peer \cup {EmptySlot}]
  /\ unwrap \in [slot : Slots, ctr : Counters, persisted : BOOLEAN] \cup {None}
  /\ rxRet \in RxStatuses
  /\ delivered \in [Creds -> Seq(Counters)]

-----------------------------------------------------------------------------
(* Helpers.                                                                *)

Used == {i \in Slots : peers[i].used}

Lowest(S) == CHOOSE i \in S : \A j \in S : i <= j

\* The slots findPeer(id) can stop at; it takes the first.
SlotsOf(id) == {i \in Used : peers[i].id = id}

\* The slot AddPeer fills: the one the number already has, else a free one.
TargetSlots(id) == IF SlotsOf(id) # {} THEN SlotsOf(id) ELSE Slots \ Used

\* hasAccepted and lastAccepted as AddPeer reads them: isKey tells whether the
\* entry exists, getUInt(key, 0) gives its value, or 0 when the read fails.
StoredCounters(cred) ==
  IF rxNvs[cred] = None
  THEN {[has |-> FALSE, last |-> 0]}
  ELSE [has : {TRUE},
        last : {rxNvs[cred]} \cup (IF NvsReadFaults THEN {0} ELSE {})]

-----------------------------------------------------------------------------
RxInit ==
  /\ rxNvs = [c \in Creds |-> None]
  /\ receiverReady = FALSE
  /\ peers = [i \in Slots |-> EmptySlot]
  /\ unwrap = None
  /\ rxRet = "OK"
  /\ delivered = [c \in Creds |-> <<>>]

\* receiverBeginImpl empties the table before it opens the NVS.
ReceiverBegin ==
  /\ unwrap = None
  /\ peers' = [i \in Slots |-> EmptySlot]
  /\ receiverReady' \in BOOLEAN
  /\ rxRet' = IF receiverReady' THEN "OK" ELSE "NVS"
  /\ UNCHANGED <<rxNvs, unwrap, delivered>>

\* The early returns of addPeerImpl: not initialised, a NULL argument, a full
\* table, or an NVS that does not open.
AddPeerRefused(id) ==
  /\ unwrap = None
  /\ \/ ~receiverReady /\ rxRet' = "NOT_READY"
     \/ receiverReady /\ rxRet' = "BUFFER"
     \/ receiverReady /\ TargetSlots(id) = {} /\ rxRet' = "FULL"
     \/ receiverReady /\ TargetSlots(id) # {} /\ rxRet' = "NVS"
  /\ UNCHANGED <<rxNvs, receiverReady, peers, unwrap, delivered>>

\* Mutant: a number registered again starts without history.
AddPeerForgets(id, cred) ==
  /\ unwrap = None
  /\ receiverReady
  /\ TargetSlots(id) # {}
  /\ peers' = [peers EXCEPT ![Lowest(TargetSlots(id))] =
                 [used |-> TRUE, id |-> id, cred |-> cred,
                  hasAccepted |-> FALSE, lastAccepted |-> 0]]
  /\ rxRet' = "OK"
  /\ UNCHANGED <<rxNvs, receiverReady, unwrap, delivered>>

\* The counter is read before the slot is filled.
AddPeer(id, cred) ==
  /\ unwrap = None
  /\ receiverReady
  /\ TargetSlots(id) # {}
  /\ \E stored \in StoredCounters(cred) :
       peers' = [peers EXCEPT ![Lowest(TargetSlots(id))] =
                   [used |-> TRUE, id |-> id, cred |-> cred,
                    hasAccepted |-> stored.has, lastAccepted |-> stored.last]]
  /\ rxRet' = "OK"
  /\ UNCHANGED <<rxNvs, receiverReady, unwrap, delivered>>

-----------------------------------------------------------------------------
(* asconSecureUnwrap, reached through asconSecureOpen.                     *)

\* The returns before the packet is decrypted: an empty packet (Open), not
\* initialised, an unknown node, a bad argument or length.
UnwrapRefused(id) ==
  /\ unwrap = None
  /\ \/ rxRet' = "EMPTY"
     \/ ~receiverReady /\ rxRet' = "NOT_READY"
     \/ receiverReady /\ SlotsOf(id) = {} /\ rxRet' = "PEER"
     \/ receiverReady /\ rxRet' = "BUFFER"
  /\ UNCHANGED <<rxNvs, receiverReady, peers, unwrap, delivered>>

\* The tag covers ciphertext, header and nonce: it verifies exactly for what was
\* sealed under the credential of the peer, with the counter the packet carries.
TagVerifies(peer, packet) == packet.intact /\ packet.cred = peer.cred

\* Mutant: a counter equal to the last one accepted passes.
ReplayedStrict(peer, counter) ==
  peer.hasAccepted /\ counter < peer.lastAccepted

Replayed(peer, counter) == peer.hasAccepted /\ counter <= peer.lastAccepted

\* Mutant: the counter is taken over before the tag is known to verify.
UnwrapVerifyReplayFirst(id, packet) ==
  /\ unwrap = None
  /\ receiverReady
  /\ SlotsOf(id) # {}
  /\ LET i == Lowest(SlotsOf(id))
     IN  /\ ~Replayed(peers[i], packet.ctr)
         /\ peers' = [peers EXCEPT ![i].hasAccepted = TRUE,
                                   ![i].lastAccepted = packet.ctr]
         /\ unwrap' = IF TagVerifies(peers[i], packet)
                      THEN [slot |-> i, ctr |-> packet.ctr, persisted |-> FALSE]
                      ELSE None
         /\ rxRet' = IF unwrap' = None THEN "AUTH" ELSE rxRet
  /\ UNCHANGED <<rxNvs, receiverReady, delivered>>

\* Decryption into the scratch buffer, then the replay test.
UnwrapVerify(id, packet) ==
  /\ unwrap = None
  /\ receiverReady
  /\ SlotsOf(id) # {}
  /\ LET i == Lowest(SlotsOf(id))
     IN  \/ /\ ~TagVerifies(peers[i], packet)
            /\ rxRet' = "AUTH"
            /\ UNCHANGED unwrap
         \/ /\ TagVerifies(peers[i], packet)
            /\ Replayed(peers[i], packet.ctr)
            /\ rxRet' = "REPLAY"
            /\ UNCHANGED unwrap
         \/ /\ TagVerifies(peers[i], packet)
            /\ ~Replayed(peers[i], packet.ctr)
            /\ unwrap' = [slot |-> i, ctr |-> packet.ctr, persisted |-> FALSE]
            /\ UNCHANGED rxRet
  /\ UNCHANGED <<rxNvs, receiverReady, peers, delivered>>

\* Mutant: delivers although the counter was not written.
UnwrapPersistUnchecked ==
  /\ unwrap # None
  /\ ~unwrap.persisted
  /\ LET cred == peers[unwrap.slot].cred
     IN  rxNvs' \in {rxNvs, [rxNvs EXCEPT ![cred] = unwrap.ctr]}
  /\ unwrap' = [unwrap EXCEPT !.persisted = TRUE]
  /\ UNCHANGED <<receiverReady, peers, rxRet, delivered>>

\* The counter is written before the message is delivered.  When the write
\* reports a failure it may or may not have taken effect, and the message is
\* dropped.
UnwrapPersist ==
  /\ unwrap # None
  /\ ~unwrap.persisted
  /\ LET cred    == peers[unwrap.slot].cred
         written == [rxNvs EXCEPT ![cred] = unwrap.ctr]
     IN  \/ /\ rxNvs' = written
            /\ unwrap' = [unwrap EXCEPT !.persisted = TRUE]
            /\ UNCHANGED rxRet
         \/ /\ rxNvs' \in {rxNvs, written}
            /\ unwrap' = None
            /\ rxRet' = "NVS"
  /\ UNCHANGED <<receiverReady, peers, delivered>>

\* Mutant: only the slot the packet came in on moves its counter.
AcceptedOneSlot(slot, counter) ==
  [peers EXCEPT ![slot] = [@ EXCEPT !.hasAccepted = TRUE,
                                    !.lastAccepted = counter]]

\* Every slot with the same fingerprint moves together.
Accepted(slot, counter) ==
  [i \in Slots |->
     IF peers[i].used /\ peers[i].cred = peers[slot].cred
     THEN [peers[i] EXCEPT !.hasAccepted = TRUE, !.lastAccepted = counter]
     ELSE peers[i]]

UnwrapDeliver ==
  /\ unwrap # None
  /\ unwrap.persisted
  /\ peers' = Accepted(unwrap.slot, unwrap.ctr)
  /\ delivered' = [delivered EXCEPT ![peers[unwrap.slot].cred] =
                                      Append(@, unwrap.ctr)]
  /\ unwrap' = None
  /\ rxRet' = "OK"
  /\ UNCHANGED <<rxNvs, receiverReady>>

-----------------------------------------------------------------------------
\* Power is lost: everything but the NVS goes back to its initial value.
RxPowerCut ==
  /\ receiverReady' = FALSE
  /\ peers' = [i \in Slots |-> EmptySlot]
  /\ unwrap' = None
  /\ rxRet' = "OK"
  /\ UNCHANGED <<rxNvs, delivered>>

\* Whatever the packets are, the rest of the receiver.
RxNext(packets) ==
  \/ ReceiverBegin
  \/ \E id \in PeerIds, cred \in Creds : AddPeer(id, cred)
  \/ \E id \in PeerIds : AddPeerRefused(id)
  \/ \E id \in PeerIds : UnwrapRefused(id)
  \/ \E id \in PeerIds, packet \in packets : UnwrapVerify(id, packet)
  \/ UnwrapPersist
  \/ UnwrapDeliver
  \/ RxPowerCut

RxSpec == RxInit /\ [][RxNext(Packets)]_rxVars

-----------------------------------------------------------------------------
(* Properties.                                                             *)

\* Messages of one key reach the sketch with strictly increasing counters: no
\* message is delivered twice or out of order, through restarts, dropped
\* writes, renumbered nodes and a key registered under two numbers (README,
\* "Anti-replay"; the comment above counterKeyFor).
DeliveredInOrder ==
  \A c \in Creds : \A i \in 1 .. Len(delivered[c]) - 1 :
    delivered[c][i] < delivered[c][i + 1]

\* The last counter handed out under a credential.
HasDelivered(c)  == delivered[c] # <<>>
LastDelivered(c) == delivered[c][Len(delivered[c])]

\* At every moment, also in the middle of an Unwrap, the NVS entry is at least
\* the last delivered counter: a restart never reopens a delivered message.
DeliveredIsPersisted ==
  \A c \in Creds :
    HasDelivered(c) => rxNvs[c] # None /\ rxNvs[c] >= LastDelivered(c)

\* Every slot of the table refuses what was delivered under its key, whichever
\* slot delivered it and whenever the slot was filled.
SlotsRefuseDelivered ==
  \A i \in Used :
    HasDelivered(peers[i].cred) =>
      /\ peers[i].hasAccepted
      /\ peers[i].lastAccepted >= LastDelivered(peers[i].cred)

\* An accepted counter only goes up in the NVS once it was delivered: a step
\* lowers an entry only over a counter that was written and never delivered.
NvsFallsOnlyOverUndelivered ==
  [][\A c \in Creds :
       rxNvs[c] # None =>
         /\ rxNvs'[c] # None
         /\ rxNvs'[c] < rxNvs[c] =>
              rxNvs[c] \notin {delivered[c][i] : i \in 1 .. Len(delivered[c])}]_rxVars

=============================================================================
