----------------------------- MODULE LoraSender -----------------------------
(***************************************************************************)
(* The sending half of the AsconSecure library (ascon-lora/src): a sensor  *)
(* board that owns one key and one nonce prefix, and seals every message   *)
(* under the nonce  prefix || counter.  Ascon-128a is only sound while no  *)
(* nonce is used twice with a key, so the 32-bit counter has to survive    *)
(* power cuts.  It is persisted in batches: before a value is used, a      *)
(* bound above it (the reservation) is written to the NVS.                 *)
(*                                                                         *)
(* The actors are the tasks that call asconSecurePack/asconSecureWrap, the *)
(* code that calls Provision, Begin and FactoryReset, and the power        *)
(* supply.  An NVS write can fail, with or without having taken effect,    *)
(* and power can be lost between any two steps.                            *)
(***************************************************************************)
EXTENDS Integers

CONSTANTS
  Tasks,           \* tasks that may be inside asconSecureWrap at once
  Materials,       \* outcomes of the random generator: a key with its prefix
  COUNTER_WINDOW,  \* size of one reservation (32 in the code)
  COUNTER_LIMIT,   \* first counter value that is refused (0xFFFFF000)
  WORD,            \* number of values of a uint32_t (2^32)
  Null             \* an absent NVS entry, a zeroed buffer

\* The constants of AsconSecureInterno.h: a reservation is never empty, and
\* the limit leaves room for one window below the wrap of the counter.
ASSUME ConstantsAssumption ==
  /\ COUNTER_WINDOW \in Nat \ {0}
  /\ COUNTER_LIMIT \in Nat
  /\ COUNTER_WINDOW < COUNTER_LIMIT
  /\ WORD \in Nat
  /\ COUNTER_LIMIT + COUNTER_WINDOW < WORD
  /\ Null \notin Materials
  /\ Null \notin Nat
  /\ Tasks # {}

VARIABLES
  \* --- the NVS namespace "ascon-sec", which survives a power cut ---
  nvsKey,          \* entry "k"
  nvsPrefix,       \* entry "p"
  nvsReserved,     \* entry "ctr"
  \* --- the globals of AsconSecureEmissor.cpp ---
  senderReady,
  senderKey,
  senderPrefix,
  senderCounter,
  senderReserved,
  \* --- calls in progress ---
  pc,              \* where each task is inside asconSecureWrap
  reservation,     \* the local variable of reserveCounters, per task
  counter,         \* the local variable of asconSecureWrap, per task
  setup,           \* where the caller of Provision or FactoryReset is
  material,        \* the local variable of provisionImpl
  ret,             \* the status the last call to return gave its caller
  \* --- history ---
  drawn,           \* materials the generator has produced so far
  emitted,         \* nonces a packet was sealed under, with their key
  sinceLoad,       \* the ones sealed since the state was last loaded
  reused           \* what was sealed a second time: "ever", "sinceLoad"

nvsVars    == <<nvsKey, nvsPrefix, nvsReserved>>
stateVars  == <<senderReady, senderKey, senderPrefix, senderCounter,
                senderReserved>>
callVars   == <<pc, reservation, counter>>
setupVars  == <<setup, material, drawn>>
history    == <<emitted, sinceLoad, reused>>
vars       == <<nvsVars, stateVars, callVars, setupVars, ret, history>>

UInt32 == 0 .. WORD - 1

Statuses == {"OK", "NOT_READY", "BUFFER", "NVS", "RNG", "EXHAUSTED",
             "NOT_PROVISIONED"}

\* A key together with the 16-byte nonce buildNonce makes of prefix and counter.
Nonces == [key : Materials \cup {Null}, prefix : Materials \cup {Null},
           ctr : UInt32]

TypeOK ==
  /\ nvsKey \in Materials \cup {Null}
  /\ nvsPrefix \in Materials \cup {Null}
  /\ nvsReserved \in UInt32 \cup {Null}
  /\ senderReady \in BOOLEAN
  /\ senderKey \in Materials \cup {Null}
  /\ senderPrefix \in Materials \cup {Null}
  /\ senderCounter \in UInt32
  /\ senderReserved \in UInt32
  /\ pc \in [Tasks -> {"idle", "open", "write", "publish", "take", "seal"}]
  /\ reservation \in [Tasks -> UInt32]
  /\ counter \in [Tasks -> UInt32]
  /\ setup \in {"idle", "putPrefix", "putReserved", "putKey", "load", "clear"}
  /\ material \in Materials \cup {Null}
  /\ ret \in Statuses
  /\ drawn \subseteq Materials
  /\ emitted \subseteq Nonces
  /\ sinceLoad \subseteq emitted
  /\ reused \subseteq {"ever", "sinceLoad"}

-----------------------------------------------------------------------------
(* Helpers.                                                                *)

\* Addition of two uint32_t values.
Add32(a, b) == IF a + b < WORD THEN a + b ELSE a + b - WORD

\* No Pack is in flight.  Provision, Begin and FactoryReset belong to setup()
\* in the three sketches, before the loop that packs; they take no lock, and
\* are modelled as called in that order only.
Quiet == setup = "idle" /\ \A t \in Tasks : pc[t] = "idle"

\* The value getUInt(NVS_RESERVED, 0) gives for what the NVS holds.
StoredReserved == IF nvsReserved = Null THEN 0 ELSE nvsReserved

-----------------------------------------------------------------------------
Init ==
  /\ nvsKey = Null
  /\ nvsPrefix = Null
  /\ nvsReserved = Null
  /\ senderReady = FALSE
  /\ senderKey = Null
  /\ senderPrefix = Null
  /\ senderCounter = 0
  /\ senderReserved = 0
  /\ pc = [t \in Tasks |-> "idle"]
  /\ reservation = [t \in Tasks |-> 0]
  /\ counter = [t \in Tasks |-> 0]
  /\ setup = "idle"
  /\ material = Null
  /\ ret = "OK"
  /\ drawn = {}
  /\ emitted = {}
  /\ sinceLoad = {}
  /\ reused = {}

-----------------------------------------------------------------------------
(* loadSenderState, shared by Begin and Provision.  It only reads the NVS, *)
(* so a power cut in the middle of it leaves nothing behind.               *)

LoadRefused(status) ==
  /\ senderReady' = FALSE
  /\ ret' = status
  /\ UNCHANGED <<senderCounter, senderReserved, history>>

\* The early returns: the namespace does not open; there is no key; the key or
\* the prefix cannot be read; or the reservation read is below one window,
\* because the entry is gone or getUInt fell back to its default.
LoadFails ==
  \/ /\ LoadRefused("NVS")
     /\ UNCHANGED <<senderKey, senderPrefix>>
  \/ /\ nvsKey = Null
     /\ LoadRefused("NOT_PROVISIONED")
     /\ UNCHANGED <<senderKey, senderPrefix>>
  \/ /\ nvsKey # Null
     /\ LoadRefused("NVS")
     /\ senderKey' = nvsKey
     /\ UNCHANGED senderPrefix
  \/ /\ nvsKey # Null
     /\ nvsPrefix # Null
     /\ \E read \in {StoredReserved, 0} : read < COUNTER_WINDOW
     /\ LoadRefused("NVS")
     /\ senderKey' = Null
     /\ senderPrefix' = Null

\* Mutant: restarts one window back, as if a reservation were never used up.
LoadSucceedsOneWindowBack ==
  /\ nvsKey # Null
  /\ nvsPrefix # Null
  /\ StoredReserved >= COUNTER_WINDOW
  /\ senderKey' = nvsKey
  /\ senderPrefix' = nvsPrefix
  /\ senderCounter' = StoredReserved - COUNTER_WINDOW
  /\ senderReserved' = StoredReserved
  /\ senderReady' = TRUE
  /\ ret' = "OK"
  /\ sinceLoad' = {}
  /\ UNCHANGED <<emitted, reused>>

\* The counter restarts from the reservation, not from the last value used.
LoadSucceeds ==
  /\ nvsKey # Null
  /\ nvsPrefix # Null
  /\ StoredReserved >= COUNTER_WINDOW
  /\ senderKey' = nvsKey
  /\ senderPrefix' = nvsPrefix
  /\ senderCounter' = StoredReserved
  /\ senderReserved' = StoredReserved
  /\ senderReady' = TRUE
  /\ ret' = "OK"
  /\ sinceLoad' = {}
  /\ UNCHANGED <<emitted, reused>>

LoadSenderState == LoadFails \/ LoadSucceeds

Begin ==
  /\ Quiet
  /\ LoadSenderState
  /\ UNCHANGED <<nvsVars, callVars, setupVars>>

-----------------------------------------------------------------------------
(* asconSecureWrap, reached through asconSecurePack.                       *)

Goto(t, label) == pc' = [pc EXCEPT ![t] = label]

\* The call returns an error: *packetLength is 0 and no packet leaves.
Refuse(t, status) == Goto(t, "idle") /\ ret' = status

\* The refusals before the counter is looked at: sender not ready, or an
\* argument the length, capacity, NULL and overlap tests turn down.
WrapRefused(t) ==
  /\ setup = "idle"
  /\ pc[t] = "idle"
  /\ Refuse(t, IF senderReady THEN "BUFFER" ELSE "NOT_READY")
  /\ UNCHANGED <<nvsVars, stateVars, reservation, counter, setupVars, history>>

\* The first critical section, with the arguments accepted.
WrapCheck(t) ==
  /\ setup = "idle"
  /\ pc[t] = "idle"
  /\ senderReady
  /\ \/ /\ senderCounter >= COUNTER_LIMIT
        /\ Refuse(t, "EXHAUSTED")
     \/ /\ senderCounter < COUNTER_LIMIT
        /\ Goto(t, IF senderCounter >= senderReserved THEN "open" ELSE "take")
        /\ UNCHANGED ret
  /\ UNCHANGED <<nvsVars, stateVars, reservation, counter, setupVars, history>>

\* Mutant: three windows at a time, in wider arithmetic than a uint32_t.
ReserveOpenTooFar(t) ==
  /\ pc[t] = "open"
  /\ Goto(t, "write")
  /\ reservation' = [reservation EXCEPT
                       ![t] = senderCounter + 3 * COUNTER_WINDOW]
  /\ UNCHANGED <<nvsVars, stateVars, counter, setupVars, ret, history>>

\* reserveCounters, up to the end of its first critical section.
ReserveOpen(t) ==
  /\ pc[t] = "open"
  /\ \/ /\ Refuse(t, "NVS")
        /\ UNCHANGED reservation
     \/ /\ Goto(t, "write")
        /\ reservation' = [reservation EXCEPT
                             ![t] = Add32(senderCounter, COUNTER_WINDOW)]
        /\ UNCHANGED ret
  /\ UNCHANGED <<nvsVars, stateVars, counter, setupVars, history>>

\* Mutant: the result of putUInt is not looked at.
ReserveWriteUnchecked(t) ==
  /\ pc[t] = "write"
  /\ nvsReserved' \in {nvsReserved, reservation[t]}
  /\ Goto(t, "publish")
  /\ UNCHANGED <<nvsKey, nvsPrefix, stateVars, reservation, counter,
                 setupVars, ret, history>>

\* putUInt runs outside the lock.  When it reports a failure the value may or
\* may not have reached the flash.
ReserveWrite(t) ==
  /\ pc[t] = "write"
  /\ \/ /\ nvsReserved' = reservation[t]
        /\ Goto(t, "publish")
        /\ UNCHANGED ret
     \/ /\ nvsReserved' \in {nvsReserved, reservation[t]}
        /\ Refuse(t, "NVS")
  /\ UNCHANGED <<nvsKey, nvsPrefix, stateVars, reservation, counter,
                 setupVars, history>>

\* Mutant: writes back the counter that was read before the NVS write.
ReservePublishStale(t) ==
  /\ pc[t] = "publish"
  /\ senderReserved' = reservation[t]
  /\ senderCounter' = reservation[t] - COUNTER_WINDOW
  /\ Goto(t, "take")
  /\ UNCHANGED <<nvsVars, senderReady, senderKey, senderPrefix,
                 reservation, counter, setupVars, ret, history>>

\* The second critical section of reserveCounters.
ReservePublish(t) ==
  /\ pc[t] = "publish"
  /\ senderReserved' = IF reservation[t] > senderReserved THEN reservation[t]
                                                          ELSE senderReserved
  /\ Goto(t, "take")
  /\ UNCHANGED <<nvsVars, senderReady, senderKey, senderPrefix, senderCounter,
                 reservation, counter, setupVars, ret, history>>

\* The last critical section: both tests again, then the increment.
WrapTake(t) ==
  /\ pc[t] = "take"
  /\ \/ /\ senderCounter >= COUNTER_LIMIT
        /\ Refuse(t, "EXHAUSTED")
        /\ UNCHANGED <<senderCounter, counter>>
     \/ /\ senderCounter < COUNTER_LIMIT
        /\ senderCounter >= senderReserved
        /\ Refuse(t, "NVS")
        /\ UNCHANGED <<senderCounter, counter>>
     \/ /\ senderCounter < COUNTER_LIMIT
        /\ senderCounter < senderReserved
        /\ counter' = [counter EXCEPT ![t] = senderCounter]
        /\ senderCounter' = Add32(senderCounter, 1)
        /\ Goto(t, "seal")
        /\ UNCHANGED ret
  /\ UNCHANGED <<nvsVars, senderReady, senderKey, senderPrefix, senderReserved,
                 reservation, setupVars, history>>

\* buildNonce, the encryption in place and the return of the packet.
WrapSeal(t) ==
  LET nonce == [key |-> senderKey, prefix |-> senderPrefix, ctr |-> counter[t]]
  IN  /\ pc[t] = "seal"
      /\ emitted' = emitted \cup {nonce}
      /\ sinceLoad' = sinceLoad \cup {nonce}
      /\ reused' = reused
                   \cup (IF nonce \in emitted THEN {"ever"} ELSE {})
                   \cup (IF nonce \in sinceLoad THEN {"sinceLoad"} ELSE {})
      /\ Goto(t, "idle")
      /\ ret' = "OK"
      /\ UNCHANGED <<nvsVars, stateVars, reservation, counter, setupVars>>

-----------------------------------------------------------------------------
(* provisionImpl.  The key is written last: it marks a board whose         *)
(* provisioning is complete.                                               *)

\* A setup call returns without having touched the globals of the sender.
SetupReturns(status) ==
  /\ setup' = "idle"
  /\ material' = Null
  /\ ret' = status
  /\ UNCHANGED <<stateVars, history>>

\* Mutant: an existing key does not stop a new provisioning.
ProvisionStartAlways ==
  /\ Quiet
  /\ \E m \in Materials \ drawn :
       /\ material' = m
       /\ drawn' = drawn \cup {m}
  /\ setup' = "putPrefix"
  /\ UNCHANGED <<nvsVars, callVars, stateVars, ret, history>>

\* The namespace does not open, the generator fails, or a key already exists
\* and is only loaded.
ProvisionStart ==
  /\ Quiet
  /\ \/ SetupReturns("NVS") /\ UNCHANGED drawn
     \/ nvsKey = Null /\ SetupReturns("RNG") /\ UNCHANGED drawn
     \/ nvsKey # Null /\ LoadSenderState /\ UNCHANGED setupVars
     \/ /\ nvsKey = Null
        /\ \E m \in Materials \ drawn :
             /\ material' = m
             /\ drawn' = drawn \cup {m}
        /\ setup' = "putPrefix"
        /\ UNCHANGED <<stateVars, ret, history>>
  /\ UNCHANGED <<nvsVars, callVars>>

ProvisionPutPrefix ==
  /\ setup = "putPrefix"
  /\ \/ /\ nvsPrefix' = material
        /\ setup' = "putReserved"
        /\ UNCHANGED <<material, stateVars, ret, history>>
     \/ /\ nvsPrefix' \in {nvsPrefix, material}
        /\ SetupReturns("NVS")
  /\ UNCHANGED <<nvsKey, nvsReserved, callVars, drawn>>

ProvisionPutReserved ==
  /\ setup = "putReserved"
  /\ \/ /\ nvsReserved' = COUNTER_WINDOW
        /\ setup' = "putKey"
        /\ UNCHANGED <<material, stateVars, ret, history>>
     \/ /\ nvsReserved' \in {nvsReserved, COUNTER_WINDOW}
        /\ SetupReturns("NVS")
  /\ UNCHANGED <<nvsKey, nvsPrefix, callVars, drawn>>

ProvisionPutKey ==
  /\ setup = "putKey"
  /\ \/ /\ nvsKey' = material
        /\ setup' = "load"
        /\ UNCHANGED <<material, stateVars, ret, history>>
     \/ /\ nvsKey' \in {nvsKey, material}
        /\ SetupReturns("NVS")
  /\ UNCHANGED <<nvsPrefix, nvsReserved, callVars, drawn>>

\* The closing call of loadSenderState.
ProvisionLoad ==
  /\ setup = "load"
  /\ LoadSenderState
  /\ setup' = "idle"
  /\ material' = Null
  /\ UNCHANGED <<nvsVars, callVars, drawn>>

-----------------------------------------------------------------------------
(* factoryResetImpl.  nvs.clear() removes the entries one at a time, in no *)
(* order the library can rely on, and may stop half-way.                   *)

ResetStart ==
  /\ Quiet
  /\ \/ SetupReturns("NVS")
     \/ setup' = "clear" /\ UNCHANGED <<material, stateVars, ret, history>>
  /\ UNCHANGED <<nvsVars, callVars, drawn>>

ResetClearEntry ==
  /\ setup = "clear"
  /\ \/ nvsKey # Null /\ nvsKey' = Null /\ UNCHANGED <<nvsPrefix, nvsReserved>>
     \/ nvsPrefix # Null /\ nvsPrefix' = Null /\ UNCHANGED <<nvsKey, nvsReserved>>
     \/ nvsReserved # Null /\ nvsReserved' = Null /\ UNCHANGED <<nvsKey, nvsPrefix>>
  /\ UNCHANGED <<stateVars, callVars, setupVars, ret, history>>

ResetClearFails ==
  /\ setup = "clear"
  /\ SetupReturns("NVS")
  /\ UNCHANGED <<nvsVars, callVars, drawn>>

ResetDone ==
  /\ setup = "clear"
  /\ nvsKey = Null
  /\ nvsPrefix = Null
  /\ nvsReserved = Null
  /\ senderKey' = Null
  /\ senderPrefix' = Null
  /\ senderCounter' = 0
  /\ senderReserved' = 0
  /\ senderReady' = FALSE
  /\ setup' = "idle"
  /\ ret' = "OK"
  /\ UNCHANGED <<nvsVars, callVars, material, drawn, history>>

-----------------------------------------------------------------------------
\* Power is lost: everything but the NVS goes back to its initial value.
PowerCut ==
  /\ senderReady' = FALSE
  /\ senderKey' = Null
  /\ senderPrefix' = Null
  /\ senderCounter' = 0
  /\ senderReserved' = 0
  /\ pc' = [t \in Tasks |-> "idle"]
  /\ reservation' = [t \in Tasks |-> 0]
  /\ counter' = [t \in Tasks |-> 0]
  /\ setup' = "idle"
  /\ material' = Null
  /\ ret' = "OK"
  /\ UNCHANGED <<nvsVars, drawn, history>>

Wrap(t) ==
  \/ WrapRefused(t)
  \/ WrapCheck(t)
  \/ ReserveOpen(t)
  \/ ReserveWrite(t)
  \/ ReservePublish(t)
  \/ WrapTake(t)
  \/ WrapSeal(t)

Provision ==
  \/ ProvisionStart
  \/ ProvisionPutPrefix
  \/ ProvisionPutReserved
  \/ ProvisionPutKey
  \/ ProvisionLoad

FactoryReset ==
  \/ ResetStart
  \/ ResetClearEntry
  \/ ResetClearFails
  \/ ResetDone

Next ==
  \/ \E t \in Tasks : Wrap(t)
  \/ Begin
  \/ Provision
  \/ FactoryReset
  \/ PowerCut

Spec == Init /\ [][Next]_vars

\* What the receiver may rely on.
Source == INSTANCE NonceSource WITH Keys <- Materials, Counters <- UInt32

-----------------------------------------------------------------------------
(* Properties.                                                             *)

\* No packet is ever sealed under a key and nonce that already sealed another
\* one, whatever was lost to power cuts, failed NVS writes, interrupted
\* provisioning or half-done resets (ascon-lora/README.md, "Nonce nunca
\* repetido, mesmo com quedas de energia").
NoNonceReuse == "ever" \notin reused

\* A board with one packing task is a source of nonces that only grow: it
\* implements the abstract specification the link is built on, through power
\* cuts, failed writes and new provisionings.
ImplementsNonceSource == Source!Spec

\* Between two loads of the state the lock alone keeps nonces apart: tasks
\* racing through asconSecureWrap never seal under the same counter.
NoReuseSinceLoad == "sinceLoad" \notin reused

\* The reservation in the NVS is above every counter sealed under the key the
\* NVS holds, so restarting from it is safe at any moment (the comment on
\* senderReserved and the one above reserveCounters).
UsedBelowReserved ==
  \A n \in emitted :
    n.key = nvsKey /\ nvsReserved # Null => n.ctr < nvsReserved

\* A packet is never sealed under a zeroed key, nor under a key joined with a
\* prefix of another provisioning: the block printed for the receiver opens
\* every packet of the board, although key, prefix and counter are written and
\* erased in separate steps.
SealedUnderProvisionedPair ==
  \A n \in emitted : n.key # Null /\ n.prefix = n.key

\* A power cut throws away at most one window of counters: the reservation is
\* never more than COUNTER_WINDOW ahead of the next value (README, "Uma queda
\* joga fora ate 32 valores").
SkipsAtMostOneWindow ==
  senderReady /\ senderKey = nvsKey /\ nvsReserved # Null
    => nvsReserved - senderCounter <= COUNTER_WINDOW

\* While a key stays in the NVS its reservation is never lowered, neither by a
\* restart, a retried write nor the setup calls.
ReservationNeverLowered ==
  [][nvsKey # Null /\ nvsKey' = nvsKey /\ nvsReserved # Null
       => nvsReserved' = Null \/ nvsReserved' >= nvsReserved]_vars

=============================================================================
