----------------------- MODULE DemuxerRegistryProofs -----------------------
(***************************************************************************)
(* The registry's safety properties and its types, the range of the counts *)
(* among them, proved for any number of consumers, of demuxers spawned and *)
(* of restarts of the input.                                               *)
(***************************************************************************)
EXTENDS DemuxerRegistry, FiniteSetTheorems, TLAPS

Pcs == {"idle", "acquiring", "holding", "cancelling", "removing"}

(* A consumer on its way through acquire_demuxer or a drop has a slot that  *)
(* was made, and removes it from the registry only once it is cancelled.    *)
HandleInv ==
    /\ mapped \in 0 .. spawned
    /\ spawned \in 0 .. MaxSlots
    /\ pc \in [Consumers -> Pcs]
    /\ held \in [Consumers -> 0 .. spawned]
    /\ \A c \in Consumers :
          /\ pc[c] = "idle" <=> held[c] = None
          /\ pc[c] = "removing" => held[c] \in cancelled

Holders(s) == {c \in Consumers : pc[c] = "holding" /\ held[c] = s}

(* A slot's count is the number of handles there are of it: those of        *)
(* consumers between the increment and the decrement.                       *)
CountInv ==
    /\ refcount \in [Slots -> Int]
    /\ \A s \in Slots : refcount[s] = Cardinality(Holders(s))

(* The handles of a slot, and the slots, are what they look like. *)
LEMMA HoldersFinite == \A s : IsFiniteSet(Holders(s))
  BY RegistryAssumption, FS_Subset DEF Holders

(* A made slot is a slot. *)
LEMMA HeldIsSlot ==
  ASSUME HandleInv, NEW c \in Consumers, pc[c] # "idle"
  PROVE  held[c] \in Slots
  BY RegistryAssumption DEF HandleInv, Slots, None

----------------------------------------------------------------------------

(* Nothing has been acquired at first. *)
LEMMA HandleInit == Init => HandleInv /\ OneLiveDemuxer
  BY RegistryAssumption DEF Init, HandleInv, OneLiveDemuxer, Slots, None, Pcs

(* Every step keeps the handles as HandleInv has them, and at most one      *)
(* demuxer live: a slot is spawned only when the mapped one is cancelled,   *)
(* and the entry removed is that of a cancelled slot.                       *)
LEMMA HandleStep ==
  ASSUME HandleInv, OneLiveDemuxer, [Next]_vars
  PROVE  HandleInv' /\ OneLiveDemuxer'
<1> USE RegistryAssumption DEF HandleInv, OneLiveDemuxer, Slots, None, Pcs
<1>1. CASE UNCHANGED vars
  BY <1>1 DEF vars, slotVars, consumerVars
<1>2. CASE RegisterPublisher \/ UnregisterPublisher \/ InputEnds
  BY <1>2 DEF RegisterPublisher, UnregisterPublisher, InputEnds, slotVars, consumerVars
<1>3. ASSUME NEW s \in Slots, TaskExits(s) \/ TaskPanics(s)
      PROVE  HandleInv' /\ OneLiveDemuxer'
  BY <1>3 DEF TaskExits, TaskPanics, consumerVars
<1>4. ASSUME NEW c \in Consumers, Step(c)
      PROVE  HandleInv' /\ OneLiveDemuxer'
  <2>1. CASE AcquireShared(c)
    BY <2>1 DEF AcquireShared, Reusable, slotVars
  <2>2. CASE AcquireSpawned(c)
    BY <2>2 DEF AcquireSpawned, Reusable
  <2>3. CASE Count(c)
    BY <2>3 DEF Count
  <2>4. CASE DropHandle(c)
    BY <2>4 DEF DropHandle
  <2>5. CASE CancelSlot(c)
    BY <2>5 DEF CancelSlot
  <2>6. CASE RemoveSlot(c)
    BY <2>6 DEF RemoveSlot, Removed
  <2> QED
    BY <1>4, <2>1, <2>2, <2>3, <2>4, <2>5, <2>6 DEF Step
<1> QED
  BY <1>1, <1>2, <1>3, <1>4 DEF Next

(* There is at most one demuxer of the input that is not cancelled, and it  *)
(* is the one in the registry (acquire_demuxer, DemuxerHandle::drop).       *)
THEOREM OneDemuxer == Spec => []OneLiveDemuxer
<1>1. HandleInv /\ OneLiveDemuxer /\ [Next]_vars => HandleInv' /\ OneLiveDemuxer'
  BY HandleStep
<1> QED
  BY HandleInit, <1>1, PTL DEF Spec

----------------------------------------------------------------------------

(* A step that changes no handle changes no count. *)
LEMMA CountUntouched ==
  ASSUME CountInv, UNCHANGED <<pc, held, refcount>>
  PROVE  CountInv'
  BY DEF CountInv, Holders

(* Counting a handle: its slot gains a holder, the other slots none. *)
LEMMA CountAdds ==
  ASSUME HandleInv, CountInv, NEW c \in Consumers, Count(c)
  PROVE  CountInv'
<1>1. PICK s \in Slots : s = held[c]
  BY HeldIsSlot DEF Count
<1>2. Holders(s)' = Holders(s) \cup {c} /\ c \notin Holders(s)
  BY <1>1 DEF Count, Holders, HandleInv
<1>3. \A t \in Slots \ {s} : Holders(t)' = Holders(t)
  BY <1>1 DEF Count, Holders, HandleInv
<1>4. Cardinality(Holders(s)') = Cardinality(Holders(s)) + 1
  BY <1>2, HoldersFinite, FS_AddElement
<1>5. refcount' = [refcount EXCEPT ![s] = @ + 1]
  BY <1>1 DEF Count
<1>6. refcount' \in [Slots -> Int] /\ refcount'[s] = Cardinality(Holders(s)')
  BY <1>1, <1>4, <1>5 DEF CountInv
<1>7. \A t \in Slots \ {s} : refcount'[t] = refcount[t]
  BY <1>1, <1>5 DEF CountInv
<1>8. \A t \in Slots \ {s} : refcount'[t] = Cardinality(Holders(t)')
  BY <1>3, <1>7 DEF CountInv
<1> QED
  BY <1>6, <1>8 DEF CountInv

(* Dropping a handle: its slot loses a holder, the other slots none. *)
LEMMA DropSubtracts ==
  ASSUME HandleInv, CountInv, NEW c \in Consumers, DropHandle(c)
  PROVE  CountInv'
<1>1. PICK s \in Slots : s = held[c]
  BY HeldIsSlot DEF DropHandle
<1>2. Holders(s)' = Holders(s) \ {c} /\ c \in Holders(s)
  BY <1>1 DEF DropHandle, Holders, HandleInv
<1>3. \A t \in Slots \ {s} : Holders(t)' = Holders(t)
  BY <1>1 DEF DropHandle, Holders, HandleInv
<1>4. Cardinality(Holders(s)') = Cardinality(Holders(s)) - 1
  BY <1>2, HoldersFinite, FS_RemoveElement
<1>5. refcount' = [refcount EXCEPT ![s] = @ - 1]
  BY <1>1 DEF DropHandle
<1>6. refcount' \in [Slots -> Int] /\ refcount'[s] = Cardinality(Holders(s)')
  BY <1>1, <1>4, <1>5 DEF CountInv
<1>7. \A t \in Slots \ {s} : refcount'[t] = refcount[t]
  BY <1>1, <1>5 DEF CountInv
<1>8. \A t \in Slots \ {s} : refcount'[t] = Cardinality(Holders(t)')
  BY <1>3, <1>7 DEF CountInv
<1> QED
  BY <1>6, <1>8 DEF CountInv

(* Every step keeps the counts: an acquisition or a drop passes through     *)
(* states in which the handle is not counted, and changes none of them.     *)
LEMMA CountStep ==
  ASSUME HandleInv, CountInv, [Next]_vars
  PROVE  CountInv'
<1>1. CASE UNCHANGED vars
  BY <1>1, CountUntouched DEF vars, slotVars, consumerVars
<1>2. CASE RegisterPublisher \/ UnregisterPublisher \/ InputEnds
  BY <1>2, CountUntouched
  DEF RegisterPublisher, UnregisterPublisher, InputEnds, slotVars, consumerVars
<1>3. ASSUME NEW s \in Slots, TaskExits(s) \/ TaskPanics(s)
      PROVE  CountInv'
  BY <1>3, CountUntouched DEF TaskExits, TaskPanics, consumerVars
<1>4. ASSUME NEW c \in Consumers, Step(c)
      PROVE  CountInv'
  <2>1. CASE AcquireShared(c) \/ AcquireSpawned(c) \/ CancelSlot(c) \/ RemoveSlot(c)
    <3>1. pc[c] # "holding" /\ pc'[c] # "holding"
      BY <2>1 DEF AcquireShared, AcquireSpawned, CancelSlot, RemoveSlot, HandleInv
    <3>2. \A d \in Consumers \ {c} : pc'[d] = pc[d] /\ held'[d] = held[d]
      BY <2>1 DEF AcquireShared, AcquireSpawned, CancelSlot, RemoveSlot, HandleInv
    <3>3. \A s : Holders(s)' = Holders(s)
      BY <3>1, <3>2 DEF Holders
    <3>4. refcount' = refcount
      BY <2>1 DEF AcquireShared, AcquireSpawned, CancelSlot, RemoveSlot, slotVars
    <3> QED
      BY <3>3, <3>4 DEF CountInv
  <2>2. CASE Count(c)
    BY <2>2, CountAdds
  <2>3. CASE DropHandle(c)
    BY <2>3, DropSubtracts
  <2> QED
    BY <1>4, <2>1, <2>2, <2>3 DEF Step
<1> QED
  BY <1>1, <1>2, <1>3, <1>4 DEF Next

(* The drop that is not the last leaves another holder of the slot. *)
LEMMA NotLastLeavesOne ==
  ASSUME HandleInv, CountInv, NEW c \in Consumers, pc[c] = "holding", ~ IsLast(c)
  PROVE  \E d \in Consumers \ {c} : held[d] = held[c]
<1> DEFINE s == held[c]
<1>1. c \in Holders(s)
  BY DEF Holders
<1>2. Cardinality(Holders(s)) # 1
  BY HeldIsSlot DEF IsLast, CountInv
<1>3. Holders(s) # {c}
  BY <1>2, FS_Singleton
<1> QED
  BY <1>1, <1>3 DEF Holders

(* Every step leaves a live demuxer in somebody's hands: only a drop gives  *)
(* a slot up, and it either leaves another holder or has it cancelled first. *)
LEMMA OrphanStep ==
  ASSUME HandleInv, CountInv, NoOrphanDemuxer, [Next]_vars
  PROVE  NoOrphanDemuxer'
<1> USE DEF NoOrphanDemuxer
<1>1. CASE UNCHANGED vars
  BY <1>1 DEF vars, slotVars, consumerVars
<1>2. CASE RegisterPublisher \/ UnregisterPublisher \/ InputEnds
  BY <1>2 DEF RegisterPublisher, UnregisterPublisher, InputEnds, slotVars, consumerVars
<1>3. ASSUME NEW s \in Slots, TaskExits(s) \/ TaskPanics(s)
      PROVE  NoOrphanDemuxer'
  BY <1>3 DEF TaskExits, TaskPanics, consumerVars
<1>4. ASSUME NEW c \in Consumers, Step(c)
      PROVE  NoOrphanDemuxer'
  <2>1. CASE AcquireShared(c)
    BY <2>1 DEF AcquireShared, HandleInv, Slots, None, slotVars
  <2>2. CASE AcquireSpawned(c)
    BY <2>2 DEF AcquireSpawned, HandleInv, Slots, None
  <2>3. CASE Count(c) \/ CancelSlot(c)
    BY <2>3 DEF Count, CancelSlot
  <2>4. CASE DropHandle(c)
    BY <2>4, NotLastLeavesOne DEF DropHandle, HandleInv
  <2>5. CASE RemoveSlot(c)
    BY <2>5 DEF RemoveSlot, HandleInv
  <2> QED
    BY <1>4, <2>1, <2>2, <2>3, <2>4, <2>5 DEF Step
<1> QED
  BY <1>1, <1>2, <1>3, <1>4 DEF Next

RegistryInv == HandleInv /\ OneLiveDemuxer /\ CountInv /\ NoOrphanDemuxer

LEMMA RegistryInit == Init => RegistryInv
<1>1. Init => NoOrphanDemuxer
  BY DEF Init, NoOrphanDemuxer
<1>2. Init => CountInv
  <2>1. Init => \A s \in Slots : Holders(s) = {}
    BY DEF Init, Holders
  <2> QED
    BY <2>1, FS_EmptySet DEF Init, CountInv
<1> QED
  BY <1>1, <1>2, HandleInit DEF RegistryInv

LEMMA RegistryStep == RegistryInv /\ [Next]_vars => RegistryInv'
  BY HandleStep, CountStep, OrphanStep DEF RegistryInv

(* A demuxer that is not cancelled is in somebody's hands, so that the last *)
(* drop always comes and ends it.                                           *)
THEOREM NoOrphan == Spec => []NoOrphanDemuxer
<1>1. RegistryInv => NoOrphanDemuxer
  BY DEF RegistryInv
<1> QED
  BY <1>1, RegistryInit, RegistryStep, PTL DEF Spec

----------------------------------------------------------------------------

(* What CountInv leaves of the types: the channels, and the sets of slots.  *)
ChannelTypes ==
    /\ publisher \in Generations \cup {None}
    /\ sending \subseteq Generations
    /\ started \in 0 .. MaxGenerations
    /\ channel \in [Slots -> Generations \cup {None}]
    /\ cancelled \subseteq Slots /\ tasks \subseteq Slots
    /\ seen \in [Consumers -> Generations \cup {None}]

LEMMA ChannelStep ==
  ASSUME HandleInv, ChannelTypes, [Next]_vars
  PROVE  ChannelTypes'
<1> USE DEF ChannelTypes
<1>1. CASE UNCHANGED vars
  BY <1>1 DEF vars, inputVars, slotVars, consumerVars
<1>2. CASE RegisterPublisher
  BY <1>2, RegistryAssumption DEF RegisterPublisher, slotVars, consumerVars, Generations
<1>3. CASE UnregisterPublisher \/ InputEnds
  BY <1>3 DEF UnregisterPublisher, InputEnds, slotVars, consumerVars
<1>4. ASSUME NEW s \in Slots, TaskExits(s) \/ TaskPanics(s)
      PROVE  ChannelTypes'
  BY <1>4 DEF TaskExits, TaskPanics, inputVars, consumerVars
<1>5. ASSUME NEW c \in Consumers, Step(c)
      PROVE  ChannelTypes'
  <2>1. CASE AcquireShared(c)
    BY <2>1 DEF AcquireShared, inputVars, slotVars
  <2>2. CASE AcquireSpawned(c)
    <3>1. spawned + 1 \in Slots
      BY <2>2, RegistryAssumption DEF AcquireSpawned, HandleInv, Slots
    <3> QED
      BY <2>2, <3>1 DEF AcquireSpawned, inputVars
  <2>3. CASE Count(c) \/ DropHandle(c) \/ RemoveSlot(c)
    BY <2>3 DEF Count, DropHandle, RemoveSlot, inputVars
  <2>4. CASE CancelSlot(c)
    BY <2>4, HeldIsSlot DEF CancelSlot, inputVars
  <2> QED
    BY <1>5, <2>1, <2>2, <2>3, <2>4 DEF Step
<1> QED
  BY <1>1, <1>2, <1>3, <1>4, <1>5 DEF Next

(* The counts are the handles, so that fetch_sub never takes one below      *)
(* zero, and there are never more than consumers.                           *)
LEMMA CountsInRange ==
  ASSUME CountInv
  PROVE  refcount \in [Slots -> 0 .. Cardinality(Consumers)]
<1>1. ASSUME NEW s \in Slots PROVE refcount[s] \in 0 .. Cardinality(Consumers)
  <2>1. Holders(s) \subseteq Consumers /\ IsFiniteSet(Consumers)
    BY RegistryAssumption DEF Holders
  <2>2. Cardinality(Holders(s)) <= Cardinality(Consumers) /\ IsFiniteSet(Holders(s))
    BY <2>1, FS_Subset
  <2>3. Cardinality(Holders(s)) \in Nat /\ Cardinality(Consumers) \in Nat
    BY <2>1, <2>2, FS_CardinalityType
  <2> QED BY <2>2, <2>3 DEF CountInv
<1> QED BY <1>1 DEF CountInv

(* Every variable has its type, for any number of consumers: in particular  *)
(* DemuxerHandle::drop never brings a slot's AtomicUsize below zero, where  *)
(* it would wrap round, whatever the order of acquisitions and drops.       *)
THEOREM RefcountNeverWraps == Spec => []TypeOK
<1>1. Init => ChannelTypes
  BY RegistryAssumption DEF Init, ChannelTypes
<1>2. RegistryInv /\ ChannelTypes /\ [Next]_vars => ChannelTypes'
  BY ChannelStep DEF RegistryInv
<1>3. RegistryInv /\ ChannelTypes => TypeOK
  BY CountsInRange, RegistryAssumption
     DEF RegistryInv, HandleInv, ChannelTypes, TypeOK, Slots, None, Pcs
<1> QED
  BY <1>1, <1>2, <1>3, RegistryInit, RegistryStep, PTL DEF Spec
=============================================================================
