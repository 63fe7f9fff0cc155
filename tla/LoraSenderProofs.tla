-------------------------- MODULE LoraSenderProofs --------------------------
(***************************************************************************)
(* Theorems about LoraSender, for every window, limit and word width that  *)
(* ConstantsAssumption allows.  The first group holds for any number of    *)
(* tasks; the second for a board on which one task packs.                  *)
(***************************************************************************)
EXTENDS LoraSender, TLAPS

USE DEF nvsVars, stateVars, callVars, setupVars, history, vars

\* Adding two counters stays within a uint32_t.
LEMMA AddStaysInWord ==
  ASSUME NEW a \in UInt32, NEW b \in UInt32
  PROVE  Add32(a, b) \in UInt32
BY ConstantsAssumption DEF UInt32, Add32

\* Up to the limit neither the increment nor the reservation wraps around.
LEMMA NoWrapUpToLimit ==
  ASSUME NEW a \in UInt32, a <= COUNTER_LIMIT
  PROVE  /\ Add32(a, 1) = a + 1
         /\ Add32(a, COUNTER_WINDOW) = a + COUNTER_WINDOW
BY ConstantsAssumption DEF UInt32, Add32

\* The small constants are uint32_t values themselves.
LEMMA SmallValues ==
  /\ 0 \in UInt32
  /\ 1 \in UInt32
  /\ COUNTER_WINDOW \in UInt32
BY ConstantsAssumption DEF UInt32

\* loadSenderState keeps the types, whichever return it takes.
LEMMA LoadType ==
  ASSUME TypeOK, LoadSenderState
  PROVE  /\ senderReady' \in BOOLEAN
         /\ senderKey' \in Materials \cup {Null}
         /\ senderPrefix' \in Materials \cup {Null}
         /\ senderCounter' \in UInt32
         /\ senderReserved' \in UInt32
         /\ ret' \in Statuses
         /\ emitted' = emitted
         /\ sinceLoad' \subseteq emitted'
         /\ reused' = reused
<1>1. CASE LoadFails
  BY <1>1 DEF LoadFails, LoadRefused, TypeOK, Statuses
<1>2. CASE LoadSucceeds
  <2>1. StoredReserved \in UInt32
    BY SmallValues DEF TypeOK, StoredReserved
  <2> QED BY <1>2, <2>1 DEF LoadSucceeds, TypeOK, Statuses
<1> QED BY <1>1, <1>2 DEF LoadSenderState

\* Every step of the tasks keeps the types.
LEMMA WrapType ==
  ASSUME TypeOK, NEW t \in Tasks, Wrap(t)
  PROVE  TypeOK'
<1>1. CASE WrapRefused(t)
  BY <1>1 DEF WrapRefused, Refuse, Goto, TypeOK, Statuses
<1>2. CASE WrapCheck(t)
  BY <1>2 DEF WrapCheck, Refuse, Goto, TypeOK, Statuses
<1>3. CASE ReserveOpen(t)
  <2>1. Add32(senderCounter, COUNTER_WINDOW) \in UInt32
    BY AddStaysInWord, SmallValues DEF TypeOK
  <2> QED BY <1>3, <2>1 DEF ReserveOpen, Refuse, Goto, TypeOK, Statuses
<1>4. CASE ReserveWrite(t)
  BY <1>4 DEF ReserveWrite, Refuse, Goto, TypeOK, Statuses
<1>5. CASE ReservePublish(t)
  BY <1>5 DEF ReservePublish, Goto, TypeOK
<1>6. CASE WrapTake(t)
  <2>1. Add32(senderCounter, 1) \in UInt32
    BY AddStaysInWord, SmallValues DEF TypeOK
  <2> QED BY <1>6, <2>1 DEF WrapTake, Refuse, Goto, TypeOK, Statuses
<1>7. CASE WrapSeal(t)
  <2> DEFINE nonce == [key |-> senderKey, prefix |-> senderPrefix,
                       ctr |-> counter[t]]
  <2>1. nonce \in Nonces
    BY DEF TypeOK, Nonces
  <2>2. /\ emitted' = emitted \cup {nonce}
        /\ sinceLoad' = sinceLoad \cup {nonce}
        /\ reused' \subseteq reused \cup {"ever", "sinceLoad"}
    BY <1>7 DEF WrapSeal
  <2>3. /\ emitted' \subseteq Nonces
        /\ sinceLoad' \subseteq emitted'
        /\ reused' \subseteq {"ever", "sinceLoad"}
    BY <2>1, <2>2 DEF TypeOK
  <2> QED BY <1>7, <2>3 DEF WrapSeal, Goto, TypeOK, Statuses
<1> QED BY <1>1, <1>2, <1>3, <1>4, <1>5, <1>6, <1>7 DEF Wrap

\* So do the steps of Begin, Provision, FactoryReset and a power cut.
LEMMA SetupType ==
  ASSUME TypeOK, Begin \/ Provision \/ FactoryReset \/ PowerCut
  PROVE  TypeOK'
<1> USE DEF SetupReturns
<1>1. CASE Begin
  BY <1>1, LoadType DEF Begin, TypeOK
<1>2. CASE ProvisionStart
  <2>1. CASE LoadSenderState /\ UNCHANGED setupVars
    BY <1>2, <2>1, LoadType DEF ProvisionStart, TypeOK
  <2>2. CASE ~(LoadSenderState /\ UNCHANGED setupVars)
    BY <1>2, <2>2 DEF ProvisionStart, TypeOK, Statuses
  <2> QED BY <2>1, <2>2
<1>3. CASE ProvisionPutPrefix
  BY <1>3 DEF ProvisionPutPrefix, TypeOK, Statuses
<1>4. CASE ProvisionPutReserved
  BY <1>4, SmallValues DEF ProvisionPutReserved, TypeOK, Statuses
<1>5. CASE ProvisionPutKey
  BY <1>5 DEF ProvisionPutKey, TypeOK, Statuses
<1>6. CASE ProvisionLoad
  BY <1>6, LoadType DEF ProvisionLoad, TypeOK
<1>7. CASE ResetStart
  BY <1>7 DEF ResetStart, TypeOK, Statuses
<1>8. CASE ResetClearEntry
  BY <1>8 DEF ResetClearEntry, TypeOK
<1>9. CASE ResetClearFails
  BY <1>9 DEF ResetClearFails, TypeOK, Statuses
<1>10. CASE ResetDone
  BY <1>10, SmallValues DEF ResetDone, TypeOK, Statuses
<1>11. CASE PowerCut
  BY <1>11, SmallValues DEF PowerCut, TypeOK, Statuses
<1> QED BY <1>1, <1>2, <1>3, <1>4, <1>5, <1>6, <1>7, <1>8, <1>9, <1>10, <1>11
        DEF Provision, FactoryReset

\* Type correctness: in particular every counter and reservation the code
\* computes is a uint32_t value, whatever the tasks and the NVS do.
THEOREM SenderTypeCorrect == Spec => []TypeOK
<1>1. Init => TypeOK
  BY SmallValues DEF Init, TypeOK, Statuses
<1>2. TypeOK /\ [Next]_vars => TypeOK'
  <2> SUFFICES ASSUME TypeOK, [Next]_vars PROVE TypeOK'
    OBVIOUS
  <2>1. CASE UNCHANGED vars
    BY <2>1 DEF TypeOK
  <2>2. CASE \E t \in Tasks : Wrap(t)
    BY <2>2, WrapType
  <2>3. CASE Begin \/ Provision \/ FactoryReset \/ PowerCut
    BY <2>3, SetupType
  <2> QED BY <2>1, <2>2, <2>3 DEF Next
<1> QED BY <1>1, <1>2, PTL DEF Spec

-----------------------------------------------------------------------------
(* The inductive invariant for any number of tasks.                        *)

\* A call in progress saw a loaded state, which no setup call disturbs.
CallsInv ==
  \A t \in Tasks : pc[t] # "idle" => senderReady /\ setup = "idle"

\* The pieces of one provisioning never mix: not in the NVS, where the key is
\* written last, and so neither in RAM nor on the air.
PairInv ==
  /\ nvsKey # Null /\ nvsPrefix # Null => nvsPrefix = nvsKey
  /\ senderReady => senderKey # Null /\ senderPrefix = senderKey
  /\ setup \in {"putPrefix", "putReserved", "putKey"} =>
       nvsKey = Null /\ material # Null
  /\ setup \in {"putReserved", "putKey"} => nvsPrefix = material
  /\ SealedUnderProvisionedPair

\* Reservations, in the NVS and on their way to it, are at most one window
\* ahead of the next counter.
WindowInv ==
  /\ \A t \in Tasks : pc[t] # "idle" => senderCounter <= COUNTER_LIMIT
  /\ \A t \in Tasks : pc[t] \in {"write", "publish"} =>
                        reservation[t] <= senderCounter + COUNTER_WINDOW
  /\ setup = "putKey" => nvsReserved = COUNTER_WINDOW
  /\ senderReady /\ nvsKey # Null /\ nvsReserved # Null =>
       nvsReserved <= senderCounter + COUNTER_WINDOW

\* Counters taken since the last load are below the next one, and pairwise
\* different between the packets sealed and the calls about to seal.
SinceLoadInv ==
  /\ senderReady => \A n \in sinceLoad : n.ctr < senderCounter
  /\ \A t \in Tasks : pc[t] = "seal" =>
       /\ counter[t] < senderCounter
       /\ \A n \in sinceLoad : n.ctr # counter[t]
       /\ \A u \in Tasks : pc[u] = "seal" /\ u # t => counter[u] # counter[t]
  /\ NoReuseSinceLoad

SharedInv == TypeOK /\ CallsInv /\ PairInv /\ WindowInv /\ SinceLoadInv

\* The steps of a call to asconSecureWrap.
LEMMA WrapShared ==
  ASSUME SharedInv, NEW t \in Tasks, Wrap(t)
  PROVE  CallsInv' /\ PairInv' /\ WindowInv' /\ SinceLoadInv'
<1> USE DEF SharedInv
<1>1. CASE WrapRefused(t)
  <2> USE <1>1 DEF WrapRefused, Refuse, Goto, TypeOK
  <2>1. CallsInv' BY DEF CallsInv
  <2>2. PairInv' BY DEF PairInv, SealedUnderProvisionedPair
  <2>3. WindowInv' BY DEF WindowInv
  <2>4. SinceLoadInv' BY DEF SinceLoadInv, NoReuseSinceLoad
  <2> QED BY <2>1, <2>2, <2>3, <2>4
<1>2. CASE WrapCheck(t)
  <2> USE <1>2 DEF WrapCheck, Refuse, Goto, TypeOK
  <2>1. CallsInv' BY DEF CallsInv
  <2>2. PairInv' BY DEF PairInv, SealedUnderProvisionedPair
  <2>3. WindowInv'
    BY ConstantsAssumption DEF WindowInv, UInt32
  <2>4. SinceLoadInv' BY DEF SinceLoadInv, NoReuseSinceLoad
  <2> QED BY <2>1, <2>2, <2>3, <2>4
<1>3. CASE ReserveOpen(t)
  <2> USE <1>3 DEF ReserveOpen, Refuse, Goto, TypeOK
  <2>1. CallsInv' BY DEF CallsInv
  <2>2. PairInv' BY DEF PairInv, SealedUnderProvisionedPair
  <2>3. WindowInv'
    <3>1. Add32(senderCounter, COUNTER_WINDOW) = senderCounter + COUNTER_WINDOW
      BY NoWrapUpToLimit DEF WindowInv
    <3> QED BY <3>1, ConstantsAssumption DEF WindowInv, UInt32
  <2>4. SinceLoadInv' BY DEF SinceLoadInv, NoReuseSinceLoad
  <2> QED BY <2>1, <2>2, <2>3, <2>4
<1>4. CASE ReserveWrite(t)
  <2> USE <1>4 DEF ReserveWrite, Refuse, Goto, TypeOK
  <2>1. CallsInv' BY DEF CallsInv
  <2>2. PairInv' BY DEF PairInv, SealedUnderProvisionedPair
  <2>3. WindowInv' BY DEF WindowInv, CallsInv
  <2>4. SinceLoadInv' BY DEF SinceLoadInv, NoReuseSinceLoad
  <2> QED BY <2>1, <2>2, <2>3, <2>4
<1>5. CASE ReservePublish(t)
  <2> USE <1>5 DEF ReservePublish, Goto, TypeOK
  <2>1. CallsInv' BY DEF CallsInv
  <2>2. PairInv' BY DEF PairInv, SealedUnderProvisionedPair
  <2>3. WindowInv' BY DEF WindowInv
  <2>4. SinceLoadInv' BY DEF SinceLoadInv, NoReuseSinceLoad
  <2> QED BY <2>1, <2>2, <2>3, <2>4
<1>6. CASE WrapTake(t)
  <2> USE <1>6 DEF WrapTake, Refuse, Goto, TypeOK
  <2>1. CallsInv' BY DEF CallsInv
  <2>2. PairInv' BY DEF PairInv, SealedUnderProvisionedPair
  <2>3. senderCounter < COUNTER_LIMIT => Add32(senderCounter, 1) = senderCounter + 1
    BY NoWrapUpToLimit DEF WindowInv
  <2>4. WindowInv'
    BY <2>3, ConstantsAssumption DEF WindowInv, UInt32
  <2>5. SinceLoadInv'
    <3>1. /\ senderReady
          /\ \A n \in sinceLoad : n.ctr \in UInt32
      BY DEF CallsInv, Nonces
    <3> QED BY <2>3, <3>1 DEF SinceLoadInv, NoReuseSinceLoad, UInt32
  <2> QED BY <2>1, <2>2, <2>4, <2>5
<1>7. CASE WrapSeal(t)
  <2> USE <1>7 DEF WrapSeal, Goto, TypeOK
  <2>1. CallsInv' BY DEF CallsInv
  <2>2. PairInv'
    BY DEF PairInv, SealedUnderProvisionedPair, CallsInv
  <2>3. WindowInv' BY DEF WindowInv
  <2>4. SinceLoadInv'
    BY DEF SinceLoadInv, NoReuseSinceLoad, CallsInv
  <2> QED BY <2>1, <2>2, <2>3, <2>4
<1> QED BY <1>1, <1>2, <1>3, <1>4, <1>5, <1>6, <1>7 DEF Wrap

\* loadSenderState, between calls.
LEMMA LoadShared ==
  ASSUME SharedInv, LoadSenderState, UNCHANGED <<nvsVars, callVars>>,
         \A t \in Tasks : pc[t] = "idle", setup' = "idle"
  PROVE  CallsInv' /\ PairInv' /\ WindowInv' /\ SinceLoadInv'
<1> USE DEF SharedInv, TypeOK
<1>1. CallsInv' BY DEF CallsInv
<1>2. CASE LoadFails
  <2> USE <1>2 DEF LoadFails, LoadRefused
  <2>1. PairInv' BY DEF PairInv, SealedUnderProvisionedPair
  <2>2. WindowInv' BY DEF WindowInv
  <2>3. SinceLoadInv' BY DEF SinceLoadInv, NoReuseSinceLoad
  <2> QED BY <1>1, <2>1, <2>2, <2>3
<1>3. CASE LoadSucceeds
  <2> USE <1>3 DEF LoadSucceeds
  <2>1. PairInv' BY DEF PairInv, SealedUnderProvisionedPair
  <2>2. WindowInv'
    BY ConstantsAssumption DEF WindowInv, StoredReserved, UInt32
  <2>3. SinceLoadInv' BY DEF SinceLoadInv, NoReuseSinceLoad
  <2> QED BY <1>1, <2>1, <2>2, <2>3
<1> QED BY <1>2, <1>3 DEF LoadSenderState

\* The steps of the setup calls, and a power cut.
LEMMA SetupShared ==
  ASSUME SharedInv, Begin \/ Provision \/ FactoryReset \/ PowerCut
  PROVE  CallsInv' /\ PairInv' /\ WindowInv' /\ SinceLoadInv'
<1> USE DEF SharedInv, SetupReturns
<1>1. CASE Begin
  BY <1>1, LoadShared DEF Begin, Quiet
<1>2. CASE ProvisionStart
  <2>1. CASE LoadSenderState /\ UNCHANGED setupVars
    BY <1>2, <2>1, LoadShared DEF ProvisionStart, Quiet
  <2>2. CASE ~(LoadSenderState /\ UNCHANGED setupVars)
    <3> USE <1>2, <2>2 DEF ProvisionStart, Quiet, TypeOK
    <3>1. CallsInv' BY DEF CallsInv
    <3>2. PairInv'
      BY ConstantsAssumption DEF PairInv, SealedUnderProvisionedPair
    <3>3. WindowInv' BY DEF WindowInv
    <3>4. SinceLoadInv' BY DEF SinceLoadInv, NoReuseSinceLoad
    <3> QED BY <3>1, <3>2, <3>3, <3>4
  <2> QED BY <2>1, <2>2
<1>3. CASE ProvisionPutPrefix
  <2> USE <1>3 DEF ProvisionPutPrefix, TypeOK
  <2>1. CallsInv' BY DEF CallsInv
  <2>2. PairInv' BY DEF PairInv, SealedUnderProvisionedPair
  <2>3. WindowInv' BY DEF WindowInv
  <2>4. SinceLoadInv' BY DEF SinceLoadInv, NoReuseSinceLoad
  <2> QED BY <2>1, <2>2, <2>3, <2>4
<1>4. CASE ProvisionPutReserved
  <2> USE <1>4 DEF ProvisionPutReserved, TypeOK
  <2>1. CallsInv' BY DEF CallsInv
  <2>2. PairInv' BY DEF PairInv, SealedUnderProvisionedPair
  <2>3. WindowInv'
    BY ConstantsAssumption DEF WindowInv, PairInv, UInt32
  <2>4. SinceLoadInv' BY DEF SinceLoadInv, NoReuseSinceLoad
  <2> QED BY <2>1, <2>2, <2>3, <2>4
<1>5. CASE ProvisionPutKey
  <2> USE <1>5 DEF ProvisionPutKey, TypeOK
  <2>1. CallsInv' BY DEF CallsInv
  <2>2. PairInv' BY DEF PairInv, SealedUnderProvisionedPair
  <2>3. WindowInv'
    BY ConstantsAssumption DEF WindowInv, UInt32
  <2>4. SinceLoadInv' BY DEF SinceLoadInv, NoReuseSinceLoad
  <2> QED BY <2>1, <2>2, <2>3, <2>4
<1>6. CASE ProvisionLoad
  <2>1. \A t \in Tasks : pc[t] = "idle"
    BY <1>6 DEF ProvisionLoad, CallsInv
  <2> QED BY <1>6, <2>1, LoadShared DEF ProvisionLoad
<1>7. CASE ResetStart \/ ResetClearEntry \/ ResetClearFails
  <2> USE <1>7 DEF ResetStart, ResetClearEntry, ResetClearFails, Quiet, TypeOK
  <2>1. CallsInv' BY DEF CallsInv
  <2>2. PairInv' BY DEF PairInv, SealedUnderProvisionedPair
  <2>3. WindowInv' BY DEF WindowInv
  <2>4. SinceLoadInv' BY DEF SinceLoadInv, NoReuseSinceLoad
  <2> QED BY <2>1, <2>2, <2>3, <2>4
<1>8. CASE ResetDone
  <2> USE <1>8 DEF ResetDone, TypeOK
  <2>1. CallsInv' BY DEF CallsInv
  <2>2. PairInv' BY DEF PairInv, SealedUnderProvisionedPair
  <2>3. WindowInv' BY <2>1 DEF WindowInv, CallsInv
  <2>4. SinceLoadInv' BY <2>1 DEF SinceLoadInv, NoReuseSinceLoad, CallsInv
  <2> QED BY <2>1, <2>2, <2>3, <2>4
<1>9. CASE PowerCut
  <2> USE <1>9 DEF PowerCut, TypeOK
  <2>1. CallsInv' BY DEF CallsInv
  <2>2. PairInv' BY DEF PairInv, SealedUnderProvisionedPair
  <2>3. WindowInv' BY DEF WindowInv
  <2>4. SinceLoadInv' BY DEF SinceLoadInv, NoReuseSinceLoad
  <2> QED BY <2>1, <2>2, <2>3, <2>4
<1> QED BY <1>1, <1>2, <1>3, <1>4, <1>5, <1>6, <1>7, <1>8, <1>9
        DEF Provision, FactoryReset

\* The shared invariant is inductive.
THEOREM SharedInvariant == Spec => []SharedInv
<1>1. Init => SharedInv
  <2> SUFFICES ASSUME Init PROVE SharedInv
    OBVIOUS
  <2>1. TypeOK
    BY SmallValues DEF Init, TypeOK, Statuses
  <2>2. CallsInv /\ PairInv /\ WindowInv /\ SinceLoadInv
    BY DEF Init, CallsInv, PairInv, WindowInv, SinceLoadInv,
           SealedUnderProvisionedPair, NoReuseSinceLoad
  <2> QED BY <2>1, <2>2 DEF SharedInv
<1>2. SharedInv /\ [Next]_vars => SharedInv'
  <2> SUFFICES ASSUME SharedInv, [Next]_vars PROVE SharedInv'
    OBVIOUS
  <2>1. CASE UNCHANGED vars
    BY <2>1 DEF SharedInv, TypeOK, CallsInv, PairInv, WindowInv, SinceLoadInv,
                SealedUnderProvisionedPair, NoReuseSinceLoad
  <2>2. CASE \E t \in Tasks : Wrap(t)
    BY <2>2, WrapType, WrapShared DEF SharedInv
  <2>3. CASE Begin \/ Provision \/ FactoryReset \/ PowerCut
    BY <2>3, SetupType, SetupShared DEF SharedInv
  <2> QED BY <2>1, <2>2, <2>3 DEF Next
<1> QED BY <1>1, <1>2, PTL DEF Spec

\* Tasks that pack at the same time never seal under the same nonce, as long as
\* the state is not loaded again: the lock in asconSecureWrap is enough.
THEOREM NoReuseBetweenLoads == Spec => []NoReuseSinceLoad
<1>1. SharedInv => NoReuseSinceLoad
  BY DEF SharedInv, SinceLoadInv
<1> QED BY <1>1, SharedInvariant, PTL

\* However provisioning and resets are interrupted, and however many tasks
\* pack, a packet is sealed under a key and the prefix drawn with it.
THEOREM OnlyProvisionedPairs == Spec => []SealedUnderProvisionedPair
<1>1. SharedInv => SealedUnderProvisionedPair
  BY DEF SharedInv, PairInv
<1> QED BY <1>1, SharedInvariant, PTL

\* A power cut costs at most COUNTER_WINDOW counters.
THEOREM AtMostOneWindowLost == Spec => []SkipsAtMostOneWindow
<1>1. SharedInv => SkipsAtMostOneWindow
  <2> SUFFICES ASSUME SharedInv, senderReady, senderKey = nvsKey,
                      nvsReserved # Null
               PROVE  nvsReserved - senderCounter <= COUNTER_WINDOW
    BY DEF SkipsAtMostOneWindow
  <2>1. nvsReserved \in UInt32 /\ senderCounter \in UInt32
    BY DEF SharedInv, TypeOK
  <2>2. nvsReserved <= senderCounter + COUNTER_WINDOW
    BY DEF SharedInv, PairInv, WindowInv
  <2> QED BY <2>1, <2>2, ConstantsAssumption DEF UInt32
<1> QED BY <1>1, SharedInvariant, PTL

-----------------------------------------------------------------------------
(* What one packing task adds.                                             *)

Solo == \A t, u \in Tasks : t = u

\* Provisioning in progress has material nothing was sealed under yet.
FreshInv ==
  /\ \A n \in emitted : n.key \in drawn
  /\ nvsKey \in drawn \cup {Null}
  /\ senderKey \in drawn \cup {Null}
  /\ setup \in {"putPrefix", "putReserved", "putKey"} =>
       /\ material \in drawn
       /\ material # senderKey
       /\ \A n \in emitted : n.key # material

\* The counter does not move between the steps of the one call.
SoloCallInv ==
  \A t \in Tasks :
    /\ pc[t] \in {"open", "write", "publish"} => senderReserved <= senderCounter
    /\ pc[t] \in {"write", "publish"} =>
         reservation[t] = senderCounter + COUNTER_WINDOW
    /\ pc[t] = "publish" => nvsReserved = reservation[t]
    /\ pc[t] = "seal" =>
         /\ counter[t] < senderReserved
         /\ \A n \in emitted : n.key = senderKey => n.ctr < counter[t]

\* What was sealed is below both the next counter and the reservation.
UsedInv ==
  /\ UsedBelowReserved
  /\ senderReady =>
       \A n \in emitted : n.key = senderKey => n.ctr < senderCounter
  /\ senderReady /\ nvsKey # Null /\ senderKey # nvsKey =>
       \A n \in emitted : n.key # nvsKey
  /\ senderReady /\ senderKey = nvsKey /\ nvsReserved # Null =>
       senderReserved <= nvsReserved
  /\ NoNonceReuse

SoloInv == SharedInv /\ FreshInv /\ SoloCallInv /\ UsedInv

LEMMA WrapSolo ==
  ASSUME SoloInv, Solo, NEW t \in Tasks, Wrap(t)
  PROVE  FreshInv' /\ SoloCallInv' /\ UsedInv'
<1> USE DEF SoloInv, SharedInv
<1>0. \A u \in Tasks : u = t
  BY DEF Solo
<1>1. CASE WrapRefused(t)
  <2> USE <1>1 DEF WrapRefused, Refuse, Goto, TypeOK
  <2>1. FreshInv' BY DEF FreshInv
  <2>2. SoloCallInv' BY DEF SoloCallInv
  <2>3. UsedInv' BY DEF UsedInv, UsedBelowReserved, NoNonceReuse
  <2> QED BY <2>1, <2>2, <2>3
<1>2. CASE WrapCheck(t)
  <2> USE <1>2 DEF WrapCheck, Refuse, Goto, TypeOK
  <2>1. FreshInv' BY DEF FreshInv
  <2>2. SoloCallInv' BY DEF SoloCallInv, UInt32
  <2>3. UsedInv' BY DEF UsedInv, UsedBelowReserved, NoNonceReuse
  <2> QED BY <2>1, <2>2, <2>3
<1>3. CASE ReserveOpen(t)
  <2> USE <1>3 DEF ReserveOpen, Refuse, Goto, TypeOK
  <2>1. FreshInv' BY DEF FreshInv
  <2>2. Add32(senderCounter, COUNTER_WINDOW) = senderCounter + COUNTER_WINDOW
    BY NoWrapUpToLimit DEF WindowInv
  <2>3. SoloCallInv' BY <2>2 DEF SoloCallInv
  <2>4. UsedInv' BY DEF UsedInv, UsedBelowReserved, NoNonceReuse
  <2> QED BY <2>1, <2>3, <2>4
<1>4. CASE ReserveWrite(t)
  <2> USE <1>4 DEF ReserveWrite, Refuse, Goto, TypeOK
  <2>1. FreshInv' BY DEF FreshInv
  <2>2. SoloCallInv' BY <1>0 DEF SoloCallInv
  <2>3. /\ senderReady
        /\ reservation[t] = senderCounter + COUNTER_WINDOW
        /\ senderReserved <= reservation[t]
    BY ConstantsAssumption DEF CallsInv, SoloCallInv, UInt32
  <2>4. UsedBelowReserved'
    <3> SUFFICES ASSUME NEW n \in emitted, n.key = nvsKey, nvsReserved' # Null
                 PROVE  n.ctr < nvsReserved'
      BY DEF UsedBelowReserved
    <3>1. n.key # Null /\ n.ctr \in UInt32
      BY DEF PairInv, SealedUnderProvisionedPair, Nonces
    <3>2. senderKey = nvsKey /\ n.ctr < senderCounter
      BY <2>3, <3>1 DEF UsedInv
    <3> QED BY <2>3, <3>1, <3>2, ConstantsAssumption
            DEF UsedInv, UsedBelowReserved, UInt32
  <2>5. UsedInv' BY <2>3, <2>4 DEF UsedInv, NoNonceReuse
  <2> QED BY <2>1, <2>2, <2>5
<1>5. CASE ReservePublish(t)
  <2> USE <1>5 DEF ReservePublish, Goto, TypeOK
  <2>1. FreshInv' BY DEF FreshInv
  <2>2. SoloCallInv' BY <1>0 DEF SoloCallInv
  <2>3. nvsReserved = reservation[t]
    BY DEF SoloCallInv
  <2>4. UsedInv' BY <2>3 DEF UsedInv, UsedBelowReserved, NoNonceReuse, UInt32
  <2> QED BY <2>1, <2>2, <2>4
<1>6. CASE WrapTake(t)
  <2> USE <1>6 DEF WrapTake, Refuse, Goto, TypeOK
  <2>1. FreshInv' BY DEF FreshInv
  <2>2. /\ senderReady
        /\ \A n \in emitted : n.ctr \in UInt32
    BY DEF CallsInv, Nonces
  <2>3. senderCounter < COUNTER_LIMIT => Add32(senderCounter, 1) = senderCounter + 1
    BY NoWrapUpToLimit DEF WindowInv
  <2>4. SoloCallInv' BY <1>0, <2>2, <2>3 DEF SoloCallInv, UsedInv, UInt32
  <2>5. UsedInv'
    BY <2>2, <2>3 DEF UsedInv, UsedBelowReserved, NoNonceReuse, UInt32
  <2> QED BY <2>1, <2>4, <2>5
<1>7. CASE WrapSeal(t)
  <2> USE <1>7 DEF WrapSeal, Goto, TypeOK
  <2> DEFINE nonce == [key |-> senderKey, prefix |-> senderPrefix,
                       ctr |-> counter[t]]
  <2>1. /\ senderReady
        /\ senderKey # Null
        /\ counter[t] < senderCounter
        /\ counter[t] < senderReserved
        /\ \A n \in emitted : n.key = senderKey => n.ctr < counter[t]
    BY DEF CallsInv, PairInv, SinceLoadInv, SoloCallInv
  <2>2. emitted' = emitted \cup {nonce} /\ nonce \notin emitted
    <3>1. counter[t] \in UInt32
      OBVIOUS
    <3> QED BY <2>1, <3>1 DEF UInt32
  <2>3. FreshInv' BY <2>1, <2>2 DEF FreshInv, CallsInv
  <2>4. SoloCallInv' BY <1>0 DEF SoloCallInv
  <2>5. UsedBelowReserved'
    BY <2>1, <2>2 DEF UsedInv, UsedBelowReserved, UInt32
  <2>6. NoNonceReuse'
    BY <2>2 DEF UsedInv, NoNonceReuse
  <2>7. UsedInv' BY <2>1, <2>2, <2>5, <2>6 DEF UsedInv
  <2> QED BY <2>3, <2>4, <2>7
<1> QED BY <1>1, <1>2, <1>3, <1>4, <1>5, <1>6, <1>7 DEF Wrap

\* loadSenderState, between calls.
LEMMA LoadSolo ==
  ASSUME SoloInv, LoadSenderState, UNCHANGED <<nvsVars, callVars, drawn>>,
         \A t \in Tasks : pc[t] = "idle", setup' = "idle"
  PROVE  FreshInv' /\ SoloCallInv' /\ UsedInv'
<1> USE DEF SoloInv, SharedInv, TypeOK
<1>1. SoloCallInv' BY DEF SoloCallInv
<1>2. CASE LoadFails
  <2> USE <1>2 DEF LoadFails, LoadRefused
  <2>1. FreshInv' BY DEF FreshInv
  <2>2. UsedInv' BY DEF UsedInv, UsedBelowReserved, NoNonceReuse
  <2> QED BY <1>1, <2>1, <2>2
<1>3. CASE LoadSucceeds
  <2> USE <1>3 DEF LoadSucceeds
  <2>1. FreshInv' BY DEF FreshInv
  <2>2. nvsReserved # Null /\ StoredReserved = nvsReserved
    BY ConstantsAssumption DEF StoredReserved
  <2>3. UsedInv'
    BY <2>2 DEF UsedInv, UsedBelowReserved, NoNonceReuse, UInt32
  <2> QED BY <1>1, <2>1, <2>3
<1> QED BY <1>2, <1>3 DEF LoadSenderState

LEMMA SetupSolo ==
  ASSUME SoloInv, Begin \/ Provision \/ FactoryReset \/ PowerCut
  PROVE  FreshInv' /\ SoloCallInv' /\ UsedInv'
<1> USE DEF SoloInv, SharedInv, SetupReturns
<1>1. CASE Begin
  BY <1>1, LoadSolo DEF Begin, Quiet
<1>2. CASE ProvisionStart
  <2>1. CASE LoadSenderState /\ UNCHANGED setupVars
    BY <1>2, <2>1, LoadSolo DEF ProvisionStart, Quiet
  <2>2. CASE ~(LoadSenderState /\ UNCHANGED setupVars)
    <3> USE <1>2, <2>2 DEF ProvisionStart, Quiet, TypeOK
    <3>1. FreshInv' BY ConstantsAssumption DEF FreshInv
    <3>2. SoloCallInv' BY DEF SoloCallInv
    <3>3. UsedInv' BY DEF UsedInv, UsedBelowReserved, NoNonceReuse
    <3> QED BY <3>1, <3>2, <3>3
  <2> QED BY <2>1, <2>2
<1>3. CASE ProvisionPutPrefix
  <2> USE <1>3 DEF ProvisionPutPrefix, TypeOK
  <2>1. FreshInv' BY DEF FreshInv
  <2>2. SoloCallInv' BY DEF SoloCallInv
  <2>3. UsedInv' BY DEF UsedInv, UsedBelowReserved, NoNonceReuse
  <2> QED BY <2>1, <2>2, <2>3
<1>4. CASE ProvisionPutReserved
  <2> USE <1>4 DEF ProvisionPutReserved, TypeOK
  <2>1. FreshInv' BY DEF FreshInv
  <2>2. SoloCallInv' BY DEF SoloCallInv, CallsInv
  <2>3. nvsKey = Null /\ \A n \in emitted : n.key # Null
    BY DEF PairInv, SealedUnderProvisionedPair
  <2>4. UsedInv' BY <2>3 DEF UsedInv, UsedBelowReserved, NoNonceReuse, PairInv
  <2> QED BY <2>1, <2>2, <2>4
<1>5. CASE ProvisionPutKey
  <2> USE <1>5 DEF ProvisionPutKey, TypeOK
  <2>1. FreshInv' BY DEF FreshInv
  <2>2. SoloCallInv' BY DEF SoloCallInv
  <2>3. /\ material # senderKey
        /\ \A n \in emitted : n.key # material
    BY DEF FreshInv
  <2>4. UsedInv' BY <2>3 DEF UsedInv, UsedBelowReserved, NoNonceReuse
  <2> QED BY <2>1, <2>2, <2>4
<1>6. CASE ProvisionLoad
  <2>1. \A t \in Tasks : pc[t] = "idle"
    BY <1>6 DEF ProvisionLoad, CallsInv
  <2> QED BY <1>6, <2>1, LoadSolo DEF ProvisionLoad
<1>7. CASE ResetStart \/ ResetClearEntry \/ ResetClearFails
  <2> USE <1>7 DEF ResetStart, ResetClearEntry, ResetClearFails, Quiet, TypeOK
  <2>1. FreshInv' BY DEF FreshInv
  <2>2. SoloCallInv' BY DEF SoloCallInv, CallsInv
  <2>3. \A n \in emitted : n.key # Null
    BY DEF PairInv, SealedUnderProvisionedPair
  <2>4. UsedInv' BY <2>3 DEF UsedInv, UsedBelowReserved, NoNonceReuse, PairInv
  <2> QED BY <2>1, <2>2, <2>4
<1>8. CASE ResetDone
  <2> USE <1>8 DEF ResetDone, TypeOK
  <2>1. FreshInv' BY DEF FreshInv
  <2>2. SoloCallInv' BY DEF SoloCallInv, CallsInv
  <2>3. UsedInv' BY DEF UsedInv, UsedBelowReserved, NoNonceReuse
  <2> QED BY <2>1, <2>2, <2>3
<1>9. CASE PowerCut
  <2> USE <1>9 DEF PowerCut, TypeOK
  <2>1. FreshInv' BY DEF FreshInv
  <2>2. SoloCallInv' BY DEF SoloCallInv
  <2>3. UsedInv' BY DEF UsedInv, UsedBelowReserved, NoNonceReuse
  <2> QED BY <2>1, <2>2, <2>3
<1> QED BY <1>1, <1>2, <1>3, <1>4, <1>5, <1>6, <1>7, <1>8, <1>9
        DEF Provision, FactoryReset

\* With one packing task the full invariant is inductive.
THEOREM SoloInvariant == ASSUME Solo PROVE Spec => []SoloInv
<1>1. Init => SoloInv
  <2> SUFFICES ASSUME Init PROVE SoloInv
    OBVIOUS
  <2>1. TypeOK
    BY SmallValues DEF Init, TypeOK, Statuses
  <2>2. CallsInv /\ PairInv /\ WindowInv /\ SinceLoadInv
    BY DEF Init, CallsInv, PairInv, WindowInv, SinceLoadInv,
           SealedUnderProvisionedPair, NoReuseSinceLoad
  <2>3. FreshInv /\ SoloCallInv /\ UsedInv
    BY DEF Init, FreshInv, SoloCallInv, UsedInv, UsedBelowReserved, NoNonceReuse
  <2> QED BY <2>1, <2>2, <2>3 DEF SoloInv, SharedInv
<1>2. SoloInv /\ [Next]_vars => SoloInv'
  <2> SUFFICES ASSUME SoloInv, [Next]_vars PROVE SoloInv'
    OBVIOUS
  <2>1. CASE UNCHANGED vars
    BY <2>1 DEF SoloInv, SharedInv, TypeOK, CallsInv, PairInv, WindowInv,
                SinceLoadInv, SealedUnderProvisionedPair, NoReuseSinceLoad,
                FreshInv, SoloCallInv, UsedInv, UsedBelowReserved, NoNonceReuse
  <2>2. CASE \E t \in Tasks : Wrap(t)
    BY <2>2, WrapType, WrapShared, WrapSolo DEF SoloInv, SharedInv
  <2>3. CASE Begin \/ Provision \/ FactoryReset \/ PowerCut
    BY <2>3, SetupType, SetupShared, SetupSolo DEF SoloInv, SharedInv
  <2> QED BY <2>1, <2>2, <2>3 DEF Next
<1> QED BY <1>1, <1>2, PTL DEF Spec

\* The main promise of the sender: with one packing task no nonce is ever used
\* twice with a key, through power cuts at any point, writes that fail with or
\* without effect, interrupted provisionings and half-done resets.
THEOREM NonceNeverReused == ASSUME Solo PROVE Spec => []NoNonceReuse
<1>1. SoloInv => NoNonceReuse
  BY DEF SoloInv, UsedInv
<1> QED BY <1>1, SoloInvariant, PTL

\* The reservation in the NVS is above every counter used under its key.
THEOREM ReservationAboveUsed == ASSUME Solo PROVE Spec => []UsedBelowReserved
<1>1. SoloInv => UsedBelowReserved
  BY DEF SoloInv, UsedInv
<1> QED BY <1>1, SoloInvariant, PTL

\* No step lowers the reservation of a key that stays in the NVS.
THEOREM NeverLowersReservation == ASSUME Solo PROVE Spec => ReservationNeverLowered
<1>1. SoloInv /\ [Next]_vars =>
        [nvsKey # Null /\ nvsKey' = nvsKey /\ nvsReserved # Null
           => nvsReserved' = Null \/ nvsReserved' >= nvsReserved]_vars
  <2> SUFFICES ASSUME SoloInv, Next, nvsKey # Null, nvsKey' = nvsKey,
                      nvsReserved # Null, nvsReserved' # Null
               PROVE  nvsReserved' >= nvsReserved
    OBVIOUS
  <2> USE DEF SoloInv, SharedInv, TypeOK
  <2>0. CASE nvsReserved' = nvsReserved
    BY <2>0 DEF UInt32
  <2>1. CASE \E t \in Tasks : ReserveWrite(t)
    <3> PICK t \in Tasks : ReserveWrite(t)
      BY <2>1
    <3>1. /\ senderReady
          /\ reservation[t] = senderCounter + COUNTER_WINDOW
          /\ nvsReserved <= senderCounter + COUNTER_WINDOW
      BY DEF ReserveWrite, CallsInv, WindowInv, SoloCallInv
    <3>2. nvsReserved' \in {nvsReserved, reservation[t]}
      BY DEF ReserveWrite
    <3> QED BY <3>1, <3>2, ConstantsAssumption DEF UInt32
  <2>2. CASE ProvisionPutReserved
    BY <2>2 DEF ProvisionPutReserved, PairInv
  <2>3. CASE /\ ~(\E t \in Tasks : ReserveWrite(t))
             /\ ~ProvisionPutReserved
             /\ nvsReserved' # nvsReserved
    BY <2>3 DEF Next, Wrap, WrapRefused, WrapCheck, ReserveOpen, ReservePublish,
                WrapTake, WrapSeal, Begin, Provision, ProvisionStart,
                ProvisionPutPrefix, ProvisionPutKey, ProvisionLoad,
                FactoryReset, ResetStart, ResetClearEntry, ResetClearFails,
                ResetDone, PowerCut
  <2> QED BY <2>0, <2>1, <2>2, <2>3
<1> QED BY <1>1, SoloInvariant, PTL DEF Spec, ReservationNeverLowered

\* The sender implements NonceSource: only sealing changes what was emitted, and
\* it adds a nonce of a provisioned pair above all earlier ones of its key.
THEOREM SenderImplementsNonceSource ==
  ASSUME Solo PROVE Spec => ImplementsNonceSource
<1>1. Init => Source!Init
  BY DEF Init, Source!Init
<1>2. SoloInv /\ [Next]_vars => [Source!Next]_emitted
  <2> SUFFICES ASSUME SoloInv, Next, emitted' # emitted
               PROVE  Source!Next
    OBVIOUS
  <2> USE DEF SoloInv, SharedInv, TypeOK
  <2>1. PICK t \in Tasks : WrapSeal(t)
    BY DEF Next, Wrap, WrapRefused, WrapCheck, ReserveOpen, ReserveWrite,
           ReservePublish, WrapTake, Begin, Provision, ProvisionStart,
           ProvisionPutPrefix, ProvisionPutReserved, ProvisionPutKey,
           ProvisionLoad, FactoryReset, ResetStart, ResetClearEntry,
           ResetClearFails, ResetDone, PowerCut, SetupReturns,
           LoadSenderState, LoadFails, LoadRefused, LoadSucceeds
  <2>2. /\ senderKey \in Materials
        /\ senderPrefix = senderKey
        /\ counter[t] \in UInt32
        /\ \A n \in emitted : n.key = senderKey => n.ctr < counter[t]
    BY <2>1 DEF WrapSeal, CallsInv, PairInv, SoloCallInv
  <2>3. Source!Emit(senderKey, counter[t])
    BY <2>1, <2>2 DEF WrapSeal, Source!Emit, Source!Above
  <2> QED BY <2>2, <2>3 DEF Source!Next
<1> QED BY <1>1, <1>2, SoloInvariant, PTL
        DEF Spec, ImplementsNonceSource, Source!Spec
=============================================================================
