--------------------------- MODULE LoraLinkProofs ---------------------------
(***************************************************************************)
(* Proofs about the link, for any number of boards, node numbers, slots    *)
(* and counters, as long as a read of the NVS that finds an entry gives    *)
(* its value (a read that fails is a hazard of its own: see README).       *)
(***************************************************************************)
EXTENDS LoraLink, SequenceLemmas, TLAPS

(* The inductive invariant of the gateway.                                 *)

\* DeliveredInOrder, for any two deliveries instead of neighbours.
StrictlyRising ==
  \A c \in Creds : \A i, j \in 1 .. Len(delivered[c]) :
    i < j => delivered[c][i] < delivered[c][j]

\* Between two steps of Unwrap: the packet is above all that was delivered
\* under its key, its slot has not changed hands, and once written the NVS
\* holds its counter.
UnwrapInv ==
  unwrap # None =>
    LET c == peers[unwrap.slot].cred
    IN  /\ unwrap.slot \in Used
        /\ HasDelivered(c) => LastDelivered(c) < unwrap.ctr
        /\ unwrap.persisted => rxNvs[c] = unwrap.ctr

RxInv ==
  /\ RxTypeOK
  /\ StrictlyRising
  /\ DeliveredIsPersisted
  /\ SlotsRefuseDelivered
  /\ UnwrapInv

(* And of the link.                                                        *)

Sealed(c) == {n.ctr : n \in {m \in emitted : m.key = c}}

EmittedTypeOK ==
  emitted \subseteq {n \in [key : Creds, prefix : Creds, ctr : Counters] : n.prefix = n.key}

\* What Unwrap works on was sealed under the key of its slot.
UnwrapSealed ==
  unwrap # None => unwrap.ctr \in Sealed(peers[unwrap.slot].cred)

LinkInv ==
  /\ RxInv
  /\ EmittedTypeOK
  /\ BoardNeverLockedOut
  /\ UnwrapSealed

-----------------------------------------------------------------------------
(* Helpers of the model.                                                   *)

\* findPeer and the search for a free slot end at a slot of the given ones.
LEMMA LowestIsOne ==
  ASSUME NEW S \in SUBSET Slots, S # {}
  PROVE  Lowest(S) \in S
<1>1. S \in SUBSET Nat
  BY DEF Slots
<1> QED BY <1>1, LeastNumber DEF Lowest

\* A slot in use holds a whole entry.
LEMMA UsedIsPeer ==
  ASSUME RxTypeOK, NEW i \in Used
  PROVE  i \in Slots /\ peers[i] \in Peer
BY DEF RxTypeOK, Used, EmptySlot

LEMMA LastInRange ==
  ASSUME RxTypeOK, NEW c \in Creds, HasDelivered(c)
  PROVE  /\ Len(delivered[c]) \in 1 .. Len(delivered[c])
         /\ LastDelivered(c) \in Counters
BY DEF RxTypeOK, HasDelivered, LastDelivered

-----------------------------------------------------------------------------
(* The gateway's invariant.                                                *)

LEMMA RxInvInit == ASSUME RxInit PROVE RxInv
<1>1. RxTypeOK
  <2>1. peers \in [Slots -> Peer \cup {EmptySlot}]
    BY DEF RxInit
  <2>2. delivered \in [Creds -> Seq(Counters)]
    BY DEF RxInit
  <2> QED BY <2>1, <2>2 DEF RxInit, RxTypeOK, RxStatuses
<1>2. StrictlyRising /\ DeliveredIsPersisted
  BY DEF RxInit, StrictlyRising, DeliveredIsPersisted, HasDelivered
<1>3. SlotsRefuseDelivered /\ UnwrapInv
  BY DEF RxInit, SlotsRefuseDelivered, UnwrapInv, Used, EmptySlot
<1> QED BY <1>1, <1>2, <1>3 DEF RxInv

LEMMA TargetIsSlot ==
  ASSUME NEW id \in PeerIds, TargetSlots(id) # {}
  PROVE  Lowest(TargetSlots(id)) \in Slots
<1>1. TargetSlots(id) \in SUBSET Slots
  BY DEF TargetSlots, SlotsOf, Used
<1> QED BY <1>1, LowestIsOne

LEMMA FoundIsUsed ==
  ASSUME NEW id \in PeerIds, SlotsOf(id) # {}
  PROVE  Lowest(SlotsOf(id)) \in Used
<1>1. SlotsOf(id) \in SUBSET Slots /\ SlotsOf(id) \subseteq Used
  BY DEF SlotsOf, Used
<1> QED BY <1>1, LowestIsOne

\* Emptying the table while no packet is in progress; nothing else matters.
LEMMA TableEmptied ==
  ASSUME RxInv, peers' = [i \in Slots |-> EmptySlot], unwrap' = None,
         receiverReady' \in BOOLEAN, rxRet' \in RxStatuses,
         UNCHANGED <<rxNvs, delivered>>
  PROVE  RxInv'
<1>1. Used' = {}
  BY DEF Used, EmptySlot
<1>2. RxTypeOK'
  BY DEF RxInv, RxTypeOK
<1>3. StrictlyRising' /\ DeliveredIsPersisted'
  BY DEF RxInv, StrictlyRising, DeliveredIsPersisted, HasDelivered, LastDelivered
<1>4. SlotsRefuseDelivered' /\ UnwrapInv'
  BY <1>1 DEF SlotsRefuseDelivered, UnwrapInv
<1> QED BY <1>2, <1>3, <1>4 DEF RxInv

\* A call that only reports a status.
LEMMA OnlyStatus ==
  ASSUME RxInv, rxRet' \in RxStatuses,
         UNCHANGED <<rxNvs, receiverReady, peers, unwrap, delivered>>
  PROVE  RxInv'
<1>1. RxTypeOK'
  BY DEF RxInv, RxTypeOK
<1>2. StrictlyRising' /\ DeliveredIsPersisted'
  BY DEF RxInv, StrictlyRising, DeliveredIsPersisted, HasDelivered, LastDelivered
<1>3. SlotsRefuseDelivered' /\ UnwrapInv'
  BY DEF RxInv, SlotsRefuseDelivered, UnwrapInv, HasDelivered, LastDelivered, Used
<1> QED BY <1>1, <1>2, <1>3 DEF RxInv

\* The entry that AddPeer fills in knows at least the last delivered counter:
\* the NVS has it, and the read of it does not fail.
LEMMA StoredIsEnough ==
  ASSUME ~NvsReadFaults, RxInv, NEW cred \in Creds,
         NEW stored \in StoredCounters(cred)
  PROVE  /\ stored.has \in BOOLEAN
         /\ stored.last \in Counters
         /\ HasDelivered(cred) => stored.has /\ stored.last >= LastDelivered(cred)
<1>1. CASE rxNvs[cred] = None
  <2>1. stored = [has |-> FALSE, last |-> 0]
    BY <1>1 DEF StoredCounters
  <2>2. ~HasDelivered(cred)
    BY <1>1 DEF RxInv, DeliveredIsPersisted
  <2> QED BY <2>1, <2>2, ReceiverAssumption DEF Counters
<1>2. CASE rxNvs[cred] # None
  <2>1. rxNvs[cred] \in Counters
    BY <1>2 DEF RxInv, RxTypeOK
  <2>2. stored \in [has : {TRUE}, last : {rxNvs[cred]}]
    BY <1>2 DEF StoredCounters
  <2>3. stored.has = TRUE /\ stored.last = rxNvs[cred]
    BY <2>2
  <2> QED BY <2>1, <2>3 DEF RxInv, DeliveredIsPersisted
<1> QED BY <1>1, <1>2

LEMMA AddPeerKeepsInv ==
  ASSUME ~NvsReadFaults, RxInv, NEW id \in PeerIds, NEW cred \in Creds,
         AddPeer(id, cred)
  PROVE  RxInv'
<1> DEFINE i == Lowest(TargetSlots(id))
<1>1. i \in Slots
  BY TargetIsSlot DEF AddPeer
<1>2. PICK stored \in StoredCounters(cred) :
        peers' = [peers EXCEPT ![i] =
                   [used |-> TRUE, id |-> id, cred |-> cred,
                    hasAccepted |-> stored.has, lastAccepted |-> stored.last]]
  BY DEF AddPeer
<1> DEFINE entry == [used |-> TRUE, id |-> id, cred |-> cred,
                     hasAccepted |-> stored.has, lastAccepted |-> stored.last]
<1>3. entry \in Peer
  BY StoredIsEnough DEF Peer
<1>4. unwrap = None /\ rxRet' = "OK" /\ UNCHANGED <<rxNvs, receiverReady, unwrap, delivered>>
  BY DEF AddPeer
<1>5. peers' = [peers EXCEPT ![i] = entry]
  BY <1>2
<1> HIDE DEF i
<1>6. RxTypeOK'
  BY <1>1, <1>3, <1>4, <1>5 DEF RxInv, RxTypeOK, RxStatuses
<1>7. StrictlyRising' /\ DeliveredIsPersisted'
  BY <1>4 DEF RxInv, StrictlyRising, DeliveredIsPersisted, HasDelivered, LastDelivered
<1>8. SlotsRefuseDelivered'
  <2> SUFFICES ASSUME NEW j \in Used'
               PROVE  (HasDelivered(peers[j].cred) =>
                         /\ peers[j].hasAccepted
                         /\ peers[j].lastAccepted >= LastDelivered(peers[j].cred))'
    BY DEF SlotsRefuseDelivered
  <2>1. CASE j = i
    <3>1. peers'[j] = entry
      BY <1>1, <1>5, <2>1 DEF RxInv, RxTypeOK
    <3>2. HasDelivered(cred) => stored.has /\ stored.last >= LastDelivered(cred)
      BY StoredIsEnough
    <3> QED BY <1>4, <3>1, <3>2 DEF HasDelivered, LastDelivered
  <2>2. CASE j # i
    <3>1. peers'[j] = peers[j] /\ j \in Used
      BY <1>5, <2>2 DEF RxInv, RxTypeOK, Used
    <3> QED BY <1>4, <3>1 DEF RxInv, SlotsRefuseDelivered, HasDelivered, LastDelivered
  <2> QED BY <2>1, <2>2
<1>9. UnwrapInv'
  BY <1>4 DEF UnwrapInv
<1> QED BY <1>6, <1>7, <1>8, <1>9 DEF RxInv

\* What passed the replay test is above everything delivered under the key.
LEMMA UnwrapVerifyKeepsInv ==
  ASSUME RxInv, NEW id \in PeerIds, NEW packet \in Packets,
         UnwrapVerify(id, packet)
  PROVE  RxInv'
<1> DEFINE i == Lowest(SlotsOf(id))
<1>1. i \in Used
  BY FoundIsUsed DEF UnwrapVerify
<1>2. UNCHANGED <<rxNvs, receiverReady, peers, delivered>>
  BY DEF UnwrapVerify
<1>3. CASE UNCHANGED unwrap /\ rxRet' \in {"AUTH", "REPLAY"}
  BY <1>2, <1>3, OnlyStatus DEF RxStatuses
<1>4. CASE /\ ~Replayed(peers[i], packet.ctr)
           /\ unwrap' = [slot |-> i, ctr |-> packet.ctr, persisted |-> FALSE]
           /\ UNCHANGED rxRet
  <2> HIDE DEF i
  <2>1. i \in Slots /\ peers[i] \in Peer /\ packet.ctr \in Counters
    BY <1>1, UsedIsPeer DEF RxInv, Packets
  <2>2. RxTypeOK'
    BY <1>2, <1>4, <2>1 DEF RxInv, RxTypeOK
  <2>3. StrictlyRising' /\ DeliveredIsPersisted' /\ SlotsRefuseDelivered'
    BY <1>2 DEF RxInv, StrictlyRising, DeliveredIsPersisted, SlotsRefuseDelivered,
                HasDelivered, LastDelivered, Used
  <2>4. HasDelivered(peers[i].cred) => LastDelivered(peers[i].cred) < packet.ctr
    <3> SUFFICES ASSUME HasDelivered(peers[i].cred)
                 PROVE  LastDelivered(peers[i].cred) < packet.ctr
      OBVIOUS
    <3>1. /\ peers[i].hasAccepted
          /\ peers[i].lastAccepted >= LastDelivered(peers[i].cred)
      BY <1>1 DEF RxInv, SlotsRefuseDelivered
    <3>2. /\ peers[i].lastAccepted \in Counters
          /\ LastDelivered(peers[i].cred) \in Counters
      BY <2>1, LastInRange DEF RxInv, Peer
    <3>3. ~(packet.ctr <= peers[i].lastAccepted)
      BY <1>4, <3>1 DEF Replayed
    <3> QED BY <2>1, <3>1, <3>2, <3>3 DEF Counters
  <2>5. UnwrapInv'
    BY <1>1, <1>2, <1>4, <2>4 DEF UnwrapInv, Used, HasDelivered, LastDelivered
  <2> QED BY <2>2, <2>3, <2>5 DEF RxInv
<1> QED BY <1>3, <1>4 DEF UnwrapVerify

\* What the steps of Unwrap after the tests may rely on.
LEMMA InProgress ==
  ASSUME RxInv, unwrap # None, NEW c, c = peers[unwrap.slot].cred
  PROVE  /\ unwrap \in [slot : Slots, ctr : Counters, persisted : BOOLEAN]
         /\ unwrap.slot \in Used
         /\ c \in Creds
         /\ HasDelivered(c) => LastDelivered(c) < unwrap.ctr
         /\ unwrap.persisted => rxNvs[c] = unwrap.ctr
<1>1. unwrap \in [slot : Slots, ctr : Counters, persisted : BOOLEAN]
  BY DEF RxInv, RxTypeOK
<1>2. unwrap.slot \in Used
  BY DEF RxInv, UnwrapInv
<1>3. c \in Creds
  BY <1>2, UsedIsPeer DEF RxInv, Peer
<1> QED BY <1>1, <1>2, <1>3 DEF RxInv, UnwrapInv

LEMMA UnwrapPersistKeepsInv ==
  ASSUME RxInv, UnwrapPersist
  PROVE  RxInv'
<1> DEFINE c == peers[unwrap.slot].cred
           written == [rxNvs EXCEPT ![c] = unwrap.ctr]
<1>1. unwrap # None /\ UNCHANGED <<receiverReady, peers, delivered>>
  BY DEF UnwrapPersist
<1>2. /\ unwrap \in [slot : Slots, ctr : Counters, persisted : BOOLEAN]
      /\ unwrap.slot \in Used
      /\ c \in Creds
      /\ HasDelivered(c) => LastDelivered(c) < unwrap.ctr
  BY <1>1, InProgress
<1>3. rxNvs' \in {rxNvs, written}
  BY DEF UnwrapPersist
<1>4. \/ /\ rxNvs' = written
         /\ unwrap' = [unwrap EXCEPT !.persisted = TRUE]
         /\ UNCHANGED rxRet
      \/ unwrap' = None /\ rxRet' = "NVS"
  BY DEF UnwrapPersist
<1> HIDE DEF c
<1>5. RxTypeOK'
  BY <1>1, <1>2, <1>3, <1>4 DEF RxInv, RxTypeOK, RxStatuses
<1>6. StrictlyRising' /\ SlotsRefuseDelivered'
  BY <1>1 DEF RxInv, StrictlyRising, SlotsRefuseDelivered, HasDelivered, LastDelivered, Used
<1>7. DeliveredIsPersisted'
  <2> SUFFICES ASSUME NEW d \in Creds, HasDelivered(d)
               PROVE  rxNvs'[d] # None /\ rxNvs'[d] >= LastDelivered(d)
    BY <1>1 DEF DeliveredIsPersisted, HasDelivered, LastDelivered
  <2>1. rxNvs[d] # None /\ rxNvs[d] >= LastDelivered(d)
    BY DEF RxInv, DeliveredIsPersisted
  <2>2. CASE rxNvs'[d] = rxNvs[d]
    BY <2>1, <2>2
  <2>3. CASE d = c /\ rxNvs'[d] = unwrap.ctr
    <3>1. unwrap.ctr \in Nat /\ LastDelivered(d) \in Nat
      BY <1>2, LastInRange DEF RxInv, Counters
    <3> QED BY <1>2, <2>3, <3>1, ReceiverAssumption
  <2>4. rxNvs'[d] = rxNvs[d] \/ (d = c /\ rxNvs'[d] = unwrap.ctr)
    BY <1>2, <1>3 DEF RxInv, RxTypeOK
  <2> QED BY <2>2, <2>3, <2>4
<1>8. UnwrapInv'
  <2> SUFFICES ASSUME unwrap' # None
               PROVE  /\ unwrap'.slot \in Used
                      /\ (HasDelivered(peers[unwrap.slot].cred)
                            => LastDelivered(peers[unwrap.slot].cred) < unwrap.ctr)'
                      /\ rxNvs'[peers'[unwrap'.slot].cred] = unwrap'.ctr
    BY <1>1 DEF UnwrapInv, Used
  <2>1. /\ rxNvs' = written
        /\ unwrap'.slot = unwrap.slot
        /\ unwrap'.ctr = unwrap.ctr
    BY <1>2, <1>4
  <2>2. rxNvs'[c] = unwrap.ctr
    BY <1>2, <2>1 DEF RxInv, RxTypeOK
  <2> QED BY <1>1, <1>2, <2>1, <2>2 DEF HasDelivered, LastDelivered, c
<1> QED BY <1>5, <1>6, <1>7, <1>8 DEF RxInv

LEMMA UnwrapDeliverKeepsInv ==
  ASSUME RxInv, UnwrapDeliver
  PROVE  RxInv'
<1> DEFINE c == peers[unwrap.slot].cred
           n == Len(delivered[c])
<1>1. unwrap # None /\ unwrap.persisted /\ UNCHANGED <<rxNvs, receiverReady>>
  BY DEF UnwrapDeliver
<1>2. /\ unwrap \in [slot : Slots, ctr : Counters, persisted : BOOLEAN]
      /\ unwrap.slot \in Used
      /\ c \in Creds
      /\ HasDelivered(c) => LastDelivered(c) < unwrap.ctr
      /\ rxNvs[c] = unwrap.ctr
  BY <1>1, InProgress
<1>3. /\ peers' = Accepted(unwrap.slot, unwrap.ctr)
      /\ delivered' = [delivered EXCEPT ![c] = Append(@, unwrap.ctr)]
      /\ unwrap' = None
      /\ rxRet' = "OK"
  BY DEF UnwrapDeliver
<1>4. unwrap.ctr \in Nat
  BY <1>2 DEF Counters
<1>5. /\ delivered'[c] = Append(delivered[c], unwrap.ctr)
      /\ \A d \in Creds \ {c} : delivered'[d] = delivered[d]
      /\ delivered[c] \in Seq(Counters)
  BY <1>2, <1>3 DEF RxInv, RxTypeOK
<1>6. /\ n \in Nat /\ Len(delivered'[c]) = n + 1
      /\ delivered'[c][n + 1] = unwrap.ctr
      /\ \A i \in 1 .. n : delivered'[c][i] = delivered[c][i]
      /\ delivered'[c] # <<>>
  <2> DEFINE s == delivered[c]
             x == unwrap.ctr
  <2>1. s \in Seq(Counters) /\ x \in Counters /\ delivered'[c] = Append(s, x)
    BY <1>2, <1>5
  <2> HIDE DEF s, x
  <2>2. /\ Append(s, x) # <<>> /\ Len(Append(s, x)) = Len(s) + 1
        /\ \A i \in 1 .. Len(s) : Append(s, x)[i] = s[i]
        /\ Append(s, x)[Len(s) + 1] = x
    BY ONLY <2>1, AppendProperties
  <2>3. Len(s) \in Nat
    BY ONLY <2>1, LenProperties
  <2> QED BY <2>1, <2>2, <2>3 DEF s, x
<1>7. delivered'[c] # <<>> /\ delivered'[c][Len(delivered'[c])] = unwrap.ctr
  <2> DEFINE t == delivered'[c]
  <2>1. t # <<>> /\ Len(t) = n + 1 /\ t[n + 1] = unwrap.ctr
    BY <1>6
  <2> HIDE DEF c, n, t
  <2>2. t # <<>> /\ t[Len(t)] = unwrap.ctr
    BY ONLY <2>1
  <2> QED BY <2>2 DEF t
<1>8. \A i \in Slots :
        peers'[i] = IF i \in Used /\ peers[i].cred = c
                    THEN [peers[i] EXCEPT !.hasAccepted = TRUE, !.lastAccepted = unwrap.ctr]
                    ELSE peers[i]
  BY <1>3 DEF Accepted, Used
<1> HIDE DEF c, n
<1>9. RxTypeOK'
  <2>1. \A i \in Slots : peers'[i] \in Peer \cup {EmptySlot}
    <3> SUFFICES ASSUME NEW i \in Slots
                 PROVE  peers'[i] \in Peer \cup {EmptySlot}
      OBVIOUS
    <3>1. CASE i \in Used /\ peers[i].cred = c
      <4>1. peers[i] \in Peer
        BY <3>1, UsedIsPeer DEF RxInv
      <4>2. peers'[i] = [peers[i] EXCEPT !.hasAccepted = TRUE, !.lastAccepted = unwrap.ctr]
        BY <1>8, <3>1
      <4>3. unwrap.ctr \in Counters
        BY <1>2
      <4> QED BY ONLY <4>1, <4>2, <4>3 DEF Peer
    <3>2. CASE ~(i \in Used /\ peers[i].cred = c)
      BY <1>8, <3>2 DEF RxInv, RxTypeOK
    <3> QED BY <3>1, <3>2
  <2>2. peers' \in [Slots -> Peer \cup {EmptySlot}]
    BY <1>3, <2>1 DEF Accepted
  <2>3. delivered' \in [Creds -> Seq(Counters)]
    BY <1>2, <1>3, AppendProperties DEF RxInv, RxTypeOK
  <2> QED BY <1>1, <1>3, <2>2, <2>3 DEF RxInv, RxTypeOK, RxStatuses
<1>10. StrictlyRising'
  <2> SUFFICES ASSUME NEW d \in Creds, NEW i \in 1 .. Len(delivered'[d]),
                      NEW j \in 1 .. Len(delivered'[d]), i < j
               PROVE  delivered'[d][i] < delivered'[d][j]
    BY DEF StrictlyRising
  <2>1. CASE d # c
    BY <1>5, <2>1 DEF RxInv, StrictlyRising
  <2>2. CASE d = c /\ j <= n
    BY <1>6, <2>2 DEF RxInv, StrictlyRising, n
  <2>3. CASE d = c /\ j = n + 1
    <3>1. i \in 1 .. n /\ delivered'[c][i] = delivered[c][i]
      BY <1>6, <2>3
    <3>2. n \in 1 .. n /\ delivered[c] # <<>>
      BY <1>5, <1>6, <3>1 DEF n
    <3>3. LastDelivered(c) < unwrap.ctr /\ LastDelivered(c) = delivered[c][n]
      BY <1>2, <3>2 DEF HasDelivered, LastDelivered, n
    <3>4. delivered[c][i] = delivered[c][n] \/ delivered[c][i] < delivered[c][n]
      BY <1>2, <3>1, <3>2 DEF RxInv, StrictlyRising, n
    <3>5. delivered[c][i] \in Counters /\ delivered[c][n] \in Counters
      BY <1>5, <3>1, <3>2, ElementOfSeq DEF n
    <3> QED BY <1>4, <1>6, <2>3, <3>1, <3>3, <3>4, <3>5 DEF Counters
  <2> QED BY <1>6, <2>1, <2>2, <2>3
<1>11. DeliveredIsPersisted'
  <2> SUFFICES ASSUME NEW d \in Creds, HasDelivered(d)'
               PROVE  rxNvs[d] # None /\ rxNvs[d] >= LastDelivered(d)'
    BY <1>1 DEF DeliveredIsPersisted
  <2>1. CASE d = c
    BY <1>2, <1>4, <1>7, <2>1, ReceiverAssumption DEF LastDelivered
  <2>2. CASE d # c
    BY <1>5, <2>2 DEF RxInv, DeliveredIsPersisted, HasDelivered, LastDelivered
  <2> QED BY <2>1, <2>2
<1>12. SlotsRefuseDelivered'
  <2> SUFFICES ASSUME NEW i \in Used'
               PROVE  (HasDelivered(peers[i].cred) =>
                         /\ peers[i].hasAccepted
                         /\ peers[i].lastAccepted >= LastDelivered(peers[i].cred))'
    BY DEF SlotsRefuseDelivered
  <2>1. i \in Used /\ peers'[i].cred = peers[i].cred /\ peers[i] \in Peer
    <3>1. i \in Slots /\ peers'[i].used
      BY DEF Used
    <3>2. i \in Used
      BY <1>8, <3>1 DEF Used
    <3>3. peers[i] \in Peer
      BY <3>2, UsedIsPeer DEF RxInv
    <3> QED BY <1>8, <3>1, <3>2, <3>3 DEF Peer
  <2>2. CASE peers[i].cred = c
    <3>1. peers'[i].hasAccepted /\ peers'[i].lastAccepted = unwrap.ctr
      BY <1>8, <2>1, <2>2 DEF Used, Peer
    <3> QED BY <1>4, <1>7, <2>1, <2>2, <3>1 DEF HasDelivered, LastDelivered
  <2>3. CASE peers[i].cred # c
    <3>1. peers'[i] = peers[i]
      BY <1>8, <2>1, <2>3 DEF Used
    <3>2. peers[i].cred \in Creds \ {c}
      BY <2>1, <2>3 DEF Peer
    <3> QED BY <1>5, <2>1, <3>1, <3>2
             DEF RxInv, SlotsRefuseDelivered, HasDelivered, LastDelivered
  <2> QED BY <2>2, <2>3
<1>13. UnwrapInv'
  BY <1>3 DEF UnwrapInv
<1> QED BY <1>9, <1>10, <1>11, <1>12, <1>13 DEF RxInv

\* A step of the gateway, whatever packets it receives.
LEMMA RxStepKeepsInv ==
  ASSUME ~NvsReadFaults, RxInv, RxNext(Packets)
  PROVE  RxInv'
<1>1. CASE ReceiverBegin
  BY <1>1, TableEmptied DEF ReceiverBegin, RxStatuses
<1>2. CASE \E id \in PeerIds, cred \in Creds : AddPeer(id, cred)
  BY <1>2, AddPeerKeepsInv
<1>3. CASE \E id \in PeerIds : AddPeerRefused(id)
  BY <1>3, OnlyStatus DEF AddPeerRefused, RxStatuses
<1>4. CASE \E id \in PeerIds : UnwrapRefused(id)
  BY <1>4, OnlyStatus DEF UnwrapRefused, RxStatuses
<1>5. CASE \E id \in PeerIds, packet \in Packets : UnwrapVerify(id, packet)
  BY <1>5, UnwrapVerifyKeepsInv
<1>6. CASE UnwrapPersist
  BY <1>6, UnwrapPersistKeepsInv
<1>7. CASE UnwrapDeliver
  BY <1>7, UnwrapDeliverKeepsInv
<1>8. CASE RxPowerCut
  BY <1>8, TableEmptied DEF RxPowerCut, RxStatuses
<1> QED BY <1>1, <1>2, <1>3, <1>4, <1>5, <1>6, <1>7, <1>8 DEF RxNext

-----------------------------------------------------------------------------
(* The link's invariant.                                                   *)

LEMMA OnAirIsPackets ==
  ASSUME EmittedTypeOK
  PROVE  OnAir \subseteq Packets
<1> SUFFICES ASSUME NEW packet \in OnAir PROVE packet \in Packets
  OBVIOUS
<1>1. CASE \E n \in emitted : packet = [cred |-> n.key, ctr |-> n.ctr, intact |-> TRUE]
  <2>1. PICK n \in emitted : packet = [cred |-> n.key, ctr |-> n.ctr, intact |-> TRUE]
    BY <1>1
  <2>2. n \in [key : Creds, prefix : Creds, ctr : Counters]
    BY DEF EmittedTypeOK
  <2> QED BY <2>1, <2>2 DEF Packets
<1>2. CASE packet \in [cred : Creds, ctr : Counters, intact : {FALSE}]
  BY <1>2 DEF Packets
<1> QED BY <1>1, <1>2 DEF OnAir

\* What verifies under the credential of a peer was sealed under it.
LEMMA VerifiedIsSealed ==
  ASSUME NEW packet \in OnAir, NEW peer, TagVerifies(peer, packet)
  PROVE  packet.ctr \in Sealed(peer.cred)
<1>1. packet.intact /\ packet.cred = peer.cred
  BY DEF TagVerifies
<1>2. packet \notin [cred : Creds, ctr : Counters, intact : {FALSE}]
  BY <1>1
<1>3. PICK n \in emitted : packet = [cred |-> n.key, ctr |-> n.ctr, intact |-> TRUE]
  BY <1>2 DEF OnAir
<1>4. n.key = peer.cred /\ packet.ctr = n.ctr
  BY <1>1, <1>3
<1> QED BY <1>4 DEF Sealed

\* What BoardNeverLockedOut says, by the name used here.
LEMMA LockedOutSealed ==
  BoardNeverLockedOut <=>
    /\ \A c \in Creds : rxNvs[c] # None => rxNvs[c] \in Sealed(c)
    /\ \A i \in Used : peers[i].hasAccepted
                         => peers[i].lastAccepted \in Sealed(peers[i].cred)
BY DEF BoardNeverLockedOut, Sealed

\* The same of the next state; what is sealed stays sealed.
LEMMA LockedOutSealedNext ==
  ASSUME emitted \subseteq emitted',
         \A c \in Creds : rxNvs'[c] # None => rxNvs'[c] \in Sealed(c),
         \A i \in Used' : peers'[i].hasAccepted
                            => peers'[i].lastAccepted \in Sealed(peers'[i].cred)
  PROVE  BoardNeverLockedOut'
BY DEF BoardNeverLockedOut, Sealed

LEMMA LinkInvInit == ASSUME LinkInit PROVE LinkInv
<1>1. RxInv
  BY RxInvInit DEF LinkInit
<1>2. EmittedTypeOK
  BY DEF LinkInit, Boards!Init, EmittedTypeOK
<1>3. BoardNeverLockedOut
  BY LockedOutSealed DEF LinkInit, RxInit, Used, EmptySlot
<1>4. UnwrapSealed
  BY DEF LinkInit, RxInit, UnwrapSealed
<1> QED BY <1>1, <1>2, <1>3, <1>4 DEF LinkInv

LEMMA BoardSendsKeepsInv ==
  ASSUME LinkInv, BoardSends
  PROVE  LinkInv'
<1>1. PICK k \in Creds, ctr \in Counters :
        emitted' = emitted \cup {[key |-> k, prefix |-> k, ctr |-> ctr]}
  BY DEF BoardSends, Boards!Next, Boards!Emit
<1>2. UNCHANGED rxVars
  BY DEF BoardSends
<1>3. RxInv'
  BY <1>2 DEF LinkInv, RxInv, rxVars, RxTypeOK, StrictlyRising, DeliveredIsPersisted,
              SlotsRefuseDelivered, UnwrapInv, Used, HasDelivered, LastDelivered
<1>4. EmittedTypeOK'
  BY <1>1 DEF LinkInv, EmittedTypeOK
<1>5. emitted \subseteq emitted'
  BY <1>1
<1>6. BoardNeverLockedOut'
  BY <1>2, <1>5, LockedOutSealed, LockedOutSealedNext DEF LinkInv, rxVars, Used
<1>7. UnwrapSealed'
  BY <1>2, <1>5 DEF LinkInv, UnwrapSealed, rxVars, Sealed
<1> QED BY <1>3, <1>4, <1>6, <1>7 DEF LinkInv

\* Steps of the gateway that leave NVS and table alone and start no Unwrap.
LEMMA TableKept ==
  ASSUME LinkInv, UNCHANGED <<rxNvs, peers, emitted>>, unwrap' \in {unwrap, None}
  PROVE  BoardNeverLockedOut' /\ UnwrapSealed'
<1>1. BoardNeverLockedOut'
  BY LockedOutSealed, LockedOutSealedNext DEF LinkInv, Used
<1>2. UnwrapSealed'
  BY DEF LinkInv, UnwrapSealed, Sealed
<1> QED BY <1>1, <1>2

LEMMA TableEmptiedUnlocked ==
  ASSUME LinkInv, peers' = [i \in Slots |-> EmptySlot], unwrap' = None,
         UNCHANGED <<rxNvs, emitted>>
  PROVE  BoardNeverLockedOut' /\ UnwrapSealed'
<1>1. Used' = {}
  BY DEF Used, EmptySlot
<1>2. BoardNeverLockedOut'
  BY <1>1, LockedOutSealed, LockedOutSealedNext DEF LinkInv
<1>3. UnwrapSealed'
  BY DEF UnwrapSealed
<1> QED BY <1>2, <1>3

LEMMA AddPeerUnlocked ==
  ASSUME ~NvsReadFaults, LinkInv, UNCHANGED emitted,
         NEW id \in PeerIds, NEW cred \in Creds, AddPeer(id, cred)
  PROVE  BoardNeverLockedOut' /\ UnwrapSealed'
<1> DEFINE i == Lowest(TargetSlots(id))
<1>1. i \in Slots
  BY TargetIsSlot DEF AddPeer
<1>2. PICK stored \in StoredCounters(cred) :
        peers' = [peers EXCEPT ![i] =
                   [used |-> TRUE, id |-> id, cred |-> cred,
                    hasAccepted |-> stored.has, lastAccepted |-> stored.last]]
  BY DEF AddPeer
<1>3. unwrap' = None /\ UNCHANGED rxNvs
  BY DEF AddPeer
<1>4. stored.has => stored.last \in Sealed(cred)
  <2>1. CASE rxNvs[cred] = None
    BY <2>1 DEF StoredCounters
  <2>2. CASE rxNvs[cred] # None
    <3>1. stored \in [has : {TRUE}, last : {rxNvs[cred]}]
      BY <2>2 DEF StoredCounters
    <3>2. rxNvs[cred] \in Sealed(cred)
      BY <2>2, LockedOutSealed DEF LinkInv
    <3> QED BY <3>1, <3>2
  <2> QED BY <2>1, <2>2
<1> HIDE DEF i
<1>5. BoardNeverLockedOut'
  <2>1. \A j \in Used' : peers'[j].hasAccepted
                           => peers'[j].lastAccepted \in Sealed(peers'[j].cred)
    <3> SUFFICES ASSUME NEW j \in Used', peers'[j].hasAccepted
                 PROVE  peers'[j].lastAccepted \in Sealed(peers'[j].cred)
      OBVIOUS
    <3>1. CASE j = i
      BY <1>1, <1>2, <1>4, <3>1 DEF LinkInv, RxInv, RxTypeOK
    <3>2. CASE j # i
      <4>1. peers'[j] = peers[j] /\ j \in Used
        BY <1>2, <3>2 DEF LinkInv, RxInv, RxTypeOK, Used
      <4> QED BY <4>1, LockedOutSealed DEF LinkInv
    <3> QED BY <3>1, <3>2
  <2> QED BY <1>3, <2>1, LockedOutSealed, LockedOutSealedNext DEF LinkInv
<1>6. UnwrapSealed'
  BY <1>3 DEF UnwrapSealed
<1> QED BY <1>5, <1>6

LEMMA UnwrapVerifyUnlocked ==
  ASSUME LinkInv, UNCHANGED emitted, NEW id \in PeerIds, NEW packet \in OnAir,
         UnwrapVerify(id, packet)
  PROVE  BoardNeverLockedOut' /\ UnwrapSealed'
<1> DEFINE i == Lowest(SlotsOf(id))
<1>1. UNCHANGED <<rxNvs, peers>>
  BY DEF UnwrapVerify
<1>2. CASE UNCHANGED unwrap
  BY <1>1, <1>2, TableKept
<1>3. CASE /\ TagVerifies(peers[i], packet)
           /\ unwrap' = [slot |-> i, ctr |-> packet.ctr, persisted |-> FALSE]
  <2>1. packet.ctr \in Sealed(peers[i].cred)
    BY <1>3, VerifiedIsSealed
  <2>2. UnwrapSealed'
    BY <1>1, <1>3, <2>1 DEF UnwrapSealed, Sealed
  <2>3. BoardNeverLockedOut'
    BY <1>1, LockedOutSealed, LockedOutSealedNext DEF LinkInv, Used
  <2> QED BY <2>2, <2>3
<1> QED BY <1>2, <1>3 DEF UnwrapVerify

LEMMA UnwrapPersistUnlocked ==
  ASSUME LinkInv, UNCHANGED emitted, UnwrapPersist
  PROVE  BoardNeverLockedOut' /\ UnwrapSealed'
<1> DEFINE c == peers[unwrap.slot].cred
           written == [rxNvs EXCEPT ![c] = unwrap.ctr]
<1>1. unwrap # None /\ UNCHANGED peers
  BY DEF UnwrapPersist
<1>2. c \in Creds /\ unwrap.ctr \in Sealed(c)
  BY <1>1, InProgress DEF LinkInv, UnwrapSealed
<1>3. rxNvs' \in {rxNvs, written}
  BY DEF UnwrapPersist
<1>4. unwrap' = None \/ unwrap' = [unwrap EXCEPT !.persisted = TRUE]
  BY DEF UnwrapPersist
<1>5. unwrap \in [slot : Slots, ctr : Counters, persisted : BOOLEAN]
  BY <1>1 DEF LinkInv, RxInv, RxTypeOK
<1> HIDE DEF c
<1>6. \A d \in Creds : rxNvs'[d] # None => rxNvs'[d] \in Sealed(d)
  BY <1>2, <1>3, LockedOutSealed DEF LinkInv, RxInv, RxTypeOK
<1>7. BoardNeverLockedOut'
  BY <1>1, <1>6, LockedOutSealed, LockedOutSealedNext DEF LinkInv, Used
<1>8. UnwrapSealed'
  BY <1>1, <1>2, <1>4, <1>5 DEF UnwrapSealed, Sealed, c
<1> QED BY <1>7, <1>8

LEMMA UnwrapDeliverUnlocked ==
  ASSUME LinkInv, UNCHANGED emitted, UnwrapDeliver
  PROVE  BoardNeverLockedOut' /\ UnwrapSealed'
<1> DEFINE c == peers[unwrap.slot].cred
<1>1. unwrap # None /\ unwrap' = None /\ UNCHANGED rxNvs
  BY DEF UnwrapDeliver
<1>2. unwrap.ctr \in Sealed(c)
  BY <1>1 DEF LinkInv, UnwrapSealed
<1>3. \A i \in Slots :
        peers'[i] = IF i \in Used /\ peers[i].cred = c
                    THEN [peers[i] EXCEPT !.hasAccepted = TRUE, !.lastAccepted = unwrap.ctr]
                    ELSE peers[i]
  BY DEF UnwrapDeliver, Accepted, Used
<1> HIDE DEF c
<1>4. \A i \in Used' : peers'[i].hasAccepted
                         => peers'[i].lastAccepted \in Sealed(peers'[i].cred)
  <2> SUFFICES ASSUME NEW i \in Used', peers'[i].hasAccepted
               PROVE  peers'[i].lastAccepted \in Sealed(peers'[i].cred)
    OBVIOUS
  <2>1. i \in Slots /\ peers'[i].used
    BY DEF Used
  <2>2. i \in Used
    BY <1>3, <2>1 DEF Used
  <2>3. peers[i] \in Peer
    BY <2>2, UsedIsPeer DEF LinkInv, RxInv
  <2>4. CASE peers[i].cred = c
    <3>1. peers'[i].cred = c /\ peers'[i].lastAccepted = unwrap.ctr
      BY <1>3, <2>1, <2>2, <2>3, <2>4 DEF Peer
    <3> QED BY <1>2, <3>1
  <2>5. CASE peers[i].cred # c
    <3>1. peers'[i] = peers[i]
      BY <1>3, <2>1, <2>5
    <3> QED BY <2>2, <3>1, LockedOutSealed DEF LinkInv
  <2> QED BY <2>4, <2>5
<1>5. BoardNeverLockedOut'
  BY <1>1, <1>4, LockedOutSealed, LockedOutSealedNext DEF LinkInv
<1>6. UnwrapSealed'
  BY <1>1 DEF UnwrapSealed
<1> QED BY <1>5, <1>6

LEMMA GatewayStepKeepsInv ==
  ASSUME ~NvsReadFaults, LinkInv, GatewayStep
  PROVE  LinkInv'
<1>1. UNCHANGED emitted /\ RxNext(OnAir)
  BY DEF GatewayStep
<1>2. RxInv'
  <2>1. RxNext(Packets)
    BY <1>1, OnAirIsPackets DEF LinkInv, RxNext
  <2> QED BY <2>1, RxStepKeepsInv DEF LinkInv
<1>3. EmittedTypeOK'
  BY <1>1 DEF LinkInv, EmittedTypeOK
<1>4. BoardNeverLockedOut' /\ UnwrapSealed'
  <2>1. CASE ReceiverBegin
    BY <1>1, <2>1, TableEmptiedUnlocked DEF ReceiverBegin
  <2>2. CASE \E id \in PeerIds, cred \in Creds : AddPeer(id, cred)
    BY <1>1, <2>2, AddPeerUnlocked
  <2>3. CASE \E id \in PeerIds : AddPeerRefused(id)
    BY <1>1, <2>3, TableKept DEF AddPeerRefused
  <2>4. CASE \E id \in PeerIds : UnwrapRefused(id)
    BY <1>1, <2>4, TableKept DEF UnwrapRefused
  <2>5. CASE \E id \in PeerIds, packet \in OnAir : UnwrapVerify(id, packet)
    BY <1>1, <2>5, UnwrapVerifyUnlocked
  <2>6. CASE UnwrapPersist
    BY <1>1, <2>6, UnwrapPersistUnlocked
  <2>7. CASE UnwrapDeliver
    BY <1>1, <2>7, UnwrapDeliverUnlocked
  <2>8. CASE RxPowerCut
    BY <1>1, <2>8, TableEmptiedUnlocked DEF RxPowerCut
  <2> QED BY <1>1, <2>1, <2>2, <2>3, <2>4, <2>5, <2>6, <2>7, <2>8 DEF RxNext
<1> QED BY <1>2, <1>3, <1>4 DEF LinkInv

LEMMA LinkStutterKeepsInv ==
  ASSUME LinkInv, UNCHANGED linkVars
  PROVE  LinkInv'
<1>1. /\ UNCHANGED <<rxNvs, receiverReady, peers, unwrap, rxRet, delivered>>
      /\ UNCHANGED emitted
  BY DEF linkVars, rxVars
<1>2. RxInv'
  BY <1>1, OnlyStatus DEF LinkInv, RxInv, RxTypeOK
<1>3. EmittedTypeOK'
  BY <1>1 DEF LinkInv, EmittedTypeOK
<1> QED BY <1>1, <1>2, <1>3, TableKept DEF LinkInv

\* LinkInv is inductive.
LEMMA LinkStepKeepsInv ==
  ASSUME ~NvsReadFaults, LinkInv, [LinkNext]_linkVars
  PROVE  LinkInv'
BY BoardSendsKeepsInv, GatewayStepKeepsInv, LinkStutterKeepsInv DEF LinkNext

-----------------------------------------------------------------------------
(* The theorems.                                                           *)

\* The invariant holds in every reachable state.
THEOREM LinkInvariant ==
  ASSUME ~NvsReadFaults
  PROVE  LinkSpec => []LinkInv
<1>1. LinkInit => LinkInv
  BY LinkInvInit
<1>2. LinkInv /\ [LinkNext]_linkVars => LinkInv'
  BY LinkStepKeepsInv
<1> QED BY <1>1, <1>2, PTL DEF LinkSpec

\* Variables of the gateway keep their types, with any number of slots.
THEOREM LinkTypeCorrect ==
  ASSUME ~NvsReadFaults
  PROVE  LinkSpec => []RxTypeOK
<1>1. LinkInv => RxTypeOK
  BY DEF LinkInv, RxInv
<1> QED BY <1>1, LinkInvariant, PTL

\* Neighbours are in order because any two deliveries are: no message reaches
\* the sketch twice or after a later one (asconSecureUnwrap, "Anti-replay").
THEOREM DeliveryInOrder ==
  ASSUME ~NvsReadFaults
  PROVE  LinkSpec => []DeliveredInOrder
<1>1. LinkInv => DeliveredInOrder
  <2> SUFFICES ASSUME LinkInv, NEW c \in Creds, NEW i \in 1 .. Len(delivered[c]) - 1
               PROVE  delivered[c][i] < delivered[c][i + 1]
    BY DEF DeliveredInOrder
  <2>1. Len(delivered[c]) \in Nat
    BY DEF LinkInv, RxInv, RxTypeOK
  <2>2. i \in 1 .. Len(delivered[c]) /\ i + 1 \in 1 .. Len(delivered[c]) /\ i < i + 1
    BY <2>1
  <2> QED BY <2>2 DEF LinkInv, RxInv, StrictlyRising
<1> QED BY <1>1, LinkInvariant, PTL

\* The NVS entry is never behind what was delivered (persist before deliver in
\* asconSecureUnwrap).
THEOREM DeliveryIsPersisted ==
  ASSUME ~NvsReadFaults
  PROVE  LinkSpec => []DeliveredIsPersisted
<1>1. LinkInv => DeliveredIsPersisted
  BY DEF LinkInv, RxInv
<1> QED BY <1>1, LinkInvariant, PTL

\* No slot accepts again what was delivered under its key, whichever slot it
\* came in by (addPeerImpl, and the loop over equal fingerprints).
THEOREM EverySlotRefuses ==
  ASSUME ~NvsReadFaults
  PROVE  LinkSpec => []SlotsRefuseDelivered
<1>1. LinkInv => SlotsRefuseDelivered
  BY DEF LinkInv, RxInv
<1> QED BY <1>1, LinkInvariant, PTL

\* Whatever else is on the air, the gateway's counters are counters of packets
\* that the board sealed: the next one is above them.
THEOREM NoLockOut ==
  ASSUME ~NvsReadFaults
  PROVE  LinkSpec => []BoardNeverLockedOut
<1>1. LinkInv => BoardNeverLockedOut
  BY DEF LinkInv
<1> QED BY <1>1, LinkInvariant, PTL

\* A delivered counter is never above the last one.
LEMMA DeliveredUpToLast ==
  ASSUME RxInv, NEW c \in Creds, NEW i \in 1 .. Len(delivered[c])
  PROVE  /\ HasDelivered(c)
         /\ delivered[c][i] \in Nat
         /\ LastDelivered(c) \in Nat
         /\ delivered[c][i] <= LastDelivered(c)
<1>1. delivered[c] \in Seq(Counters) /\ delivered[c] # <<>>
  BY DEF RxInv, RxTypeOK
<1>2. Len(delivered[c]) \in 1 .. Len(delivered[c])
  BY <1>1
<1>3. delivered[c][i] \in Counters /\ delivered[c][Len(delivered[c])] \in Counters
  BY <1>1, <1>2, ElementOfSeq
<1>4. i = Len(delivered[c]) \/ delivered[c][i] < delivered[c][Len(delivered[c])]
  BY <1>1, <1>2 DEF RxInv, StrictlyRising
<1> QED BY <1>1, <1>3, <1>4 DEF HasDelivered, LastDelivered, Counters

\* An entry of the NVS goes down only over a counter that was written and never
\* delivered: the write of a larger counter was cut off before the delivery.
THEOREM NvsFallsOnlyOver ==
  ASSUME ~NvsReadFaults
  PROVE  LinkSpec => NvsFallsOnlyOverUndelivered
<1> DEFINE Falls(c) ==
      rxNvs[c] # None =>
        /\ rxNvs'[c] # None
        /\ rxNvs'[c] < rxNvs[c] =>
             rxNvs[c] \notin {delivered[c][i] : i \in 1 .. Len(delivered[c])}
<1>1. ASSUME LinkInv, [LinkNext]_linkVars
      PROVE  [\A c \in Creds : Falls(c)]_rxVars
  <2> SUFFICES ASSUME NEW c \in Creds, rxNvs[c] # None, LinkNext \/ UNCHANGED linkVars,
                      ~UNCHANGED rxVars
               PROVE  /\ rxNvs'[c] # None
                      /\ rxNvs'[c] < rxNvs[c] =>
                           rxNvs[c] \notin {delivered[c][i] : i \in 1 .. Len(delivered[c])}
    BY <1>1
  <2>1. rxNvs[c] \in Nat
    BY <1>1 DEF LinkInv, RxInv, RxTypeOK, Counters
  <2>2. CASE rxNvs'[c] = rxNvs[c]
    BY <2>1, <2>2
  <2>3. CASE UnwrapPersist /\ rxNvs'[c] # rxNvs[c]
    <3>1. /\ unwrap # None
          /\ rxNvs' = [rxNvs EXCEPT ![peers[unwrap.slot].cred] = unwrap.ctr]
      BY <2>3 DEF UnwrapPersist
    <3>2. c = peers[unwrap.slot].cred /\ rxNvs'[c] = unwrap.ctr
      BY <1>1, <2>3, <3>1 DEF LinkInv, RxInv, RxTypeOK
    <3>3. /\ unwrap.ctr \in Nat
          /\ HasDelivered(c) => LastDelivered(c) < unwrap.ctr
      BY <1>1, <3>1, <3>2, InProgress DEF LinkInv, Counters
    <3>4. ASSUME NEW i \in 1 .. Len(delivered[c]), rxNvs[c] = delivered[c][i]
          PROVE  rxNvs[c] < rxNvs'[c]
      BY <1>1, <3>2, <3>3, <3>4, DeliveredUpToLast DEF LinkInv
    <3> QED BY <2>1, <3>2, <3>3, <3>4, ReceiverAssumption
  <2>4. UnwrapPersist \/ UNCHANGED rxNvs
    BY DEF LinkNext, BoardSends, GatewayStep, RxNext, ReceiverBegin, AddPeer, AddPeerRefused,
           UnwrapRefused, UnwrapVerify, UnwrapDeliver, RxPowerCut, linkVars, rxVars
  <2> QED BY <2>2, <2>3, <2>4
<1> QED BY <1>1, LinkInvariant, PTL DEF LinkSpec, NvsFallsOnlyOverUndelivered

-----------------------------------------------------------------------------
(* The link implements SecureChannel.                                      *)

\* The delivery at the end of Unwrap is the delivery of a sealed packet that is
\* above all delivered before it.
LEMMA DeliverIsDeliver ==
  ASSUME LinkInv, UnwrapDeliver, UNCHANGED emitted
  PROVE  \E n \in emitted : Channel!Deliver(n)
<1> DEFINE c == peers[unwrap.slot].cred
<1>1. unwrap # None /\ delivered' = [delivered EXCEPT ![c] = Append(@, unwrap.ctr)]
  BY DEF UnwrapDeliver
<1>2. /\ unwrap.ctr \in Counters /\ c \in Creds
      /\ HasDelivered(c) => LastDelivered(c) < unwrap.ctr
      /\ unwrap.ctr \in Sealed(c)
  BY <1>1, InProgress DEF LinkInv, UnwrapSealed
<1> HIDE DEF c
<1>3. PICK n \in emitted : n.key = c /\ n.ctr = unwrap.ctr
  BY <1>2 DEF Sealed
<1>4. \A i \in 1 .. Len(delivered[c]) : delivered[c][i] < unwrap.ctr
  <2> SUFFICES ASSUME NEW i \in 1 .. Len(delivered[c])
               PROVE  delivered[c][i] < unwrap.ctr
    OBVIOUS
  <2> QED BY <1>2, DeliveredUpToLast DEF LinkInv, Counters
<1> QED BY <1>1, <1>3, <1>4 DEF Channel!Deliver

\* Every other step of the gateway delivers nothing.
LEMMA GatewayStepIsChannelStep ==
  ASSUME LinkInv, GatewayStep
  PROVE  Channel!Next \/ UNCHANGED <<emitted, delivered>>
<1>1. UNCHANGED emitted /\ RxNext(OnAir)
  BY DEF GatewayStep
<1>2. CASE UnwrapDeliver
  BY <1>1, <1>2, DeliverIsDeliver DEF Channel!Next
<1>3. CASE ~UnwrapDeliver
  BY <1>1, <1>3 DEF RxNext, ReceiverBegin, AddPeer, AddPeerRefused, UnwrapRefused,
                    UnwrapVerify, UnwrapPersist, RxPowerCut
<1> QED BY <1>2, <1>3

\* Boards, a radio that loses, repeats, reorders and damages, and the gateway
\* are together a channel that delivers only what was sealed, in order, once.
THEOREM LinkIsSecureChannel ==
  ASSUME ~NvsReadFaults
  PROVE  LinkSpec => ImplementsSecureChannel
<1>1. LinkInit => Channel!Init
  BY DEF LinkInit, RxInit, Boards!Init, Channel!Init, Channel!Source!Init
<1>2. ASSUME LinkInv, [LinkNext]_linkVars
      PROVE  [Channel!Next]_<<emitted, delivered>>
  <2>1. CASE BoardSends
    BY <2>1 DEF BoardSends, Boards!Next, Boards!Emit, Boards!Above, rxVars, Channel!Next,
                Channel!Send, Channel!Source!Next, Channel!Source!Emit, Channel!Source!Above
  <2>2. CASE GatewayStep
    BY <1>2, <2>2, GatewayStepIsChannelStep
  <2>3. CASE UNCHANGED linkVars
    BY <2>3 DEF linkVars, rxVars
  <2> QED BY <1>2, <2>1, <2>2, <2>3 DEF LinkNext
<1> QED BY <1>1, <1>2, LinkInvariant, PTL DEF LinkSpec, ImplementsSecureChannel, Channel!Spec
=============================================================================
