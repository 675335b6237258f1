-------------------------- MODULE DemuxerRegistry --------------------------
(***************************************************************************)
(* The refcounted demuxer of one input (engine/manager.rs: acquire_demuxer, *)
(* DemuxerHandle and the input's publisher; engine/flow.rs: the demuxer's  *)
(* own task).  Flows that assemble a programme from the input each acquire *)
(* a handle; the first spawns the demuxer, the last to drop cancels it.    *)
(*                                                                         *)
(* The registry is a concurrent map: each access of it under its shard     *)
(* lock is one step, and each atomic of a slot is another.  Entries of     *)
(* different inputs share nothing, so the module has one.                  *)
(***************************************************************************)
EXTENDS Integers, FiniteSets

CONSTANTS Consumers,       \* flows that reference the input
          MaxSlots,        \* demuxers spawned, over a behaviour
          MaxGenerations,  \* starts of the input, each with a broadcast channel of its own
          Fragile          \* the demuxers spawned whose task may panic

ASSUME RegistryAssumption ==
    /\ IsFiniteSet(Consumers)
    /\ MaxSlots \in Nat /\ MaxGenerations \in Nat
    /\ Fragile \subseteq 1 .. MaxSlots

Slots       == 1 .. MaxSlots
Generations == 1 .. MaxGenerations
None        == 0

VARIABLES
    publisher, \* the channel registered for the input, or None
    sending,   \* channels whose sender the input's task still holds
    started,   \* channels made so far
    mapped,    \* the slot in the registry, or None
    spawned,   \* slots made so far
    channel,   \* per slot, the channel its task receives from
    cancelled, \* slots whose token is cancelled, and slots not yet made
    refcount,  \* per slot
    tasks,     \* slots whose task runs
    pc,        \* per consumer, where it is in acquire_demuxer or in the handle's drop
    held,      \* per consumer, the slot it has, or None
    seen       \* per consumer, the publisher when it looked its slot up

inputVars    == <<publisher, sending, started>>
slotVars     == <<mapped, spawned, channel, cancelled, refcount, tasks>>
consumerVars == <<pc, held, seen>>
vars         == <<inputVars, slotVars, consumerVars>>

----------------------------------------------------------------------------
(* The input. *)

\* It starts: register_input_publisher installs its new channel.
RegisterPublisher ==
    /\ started < MaxGenerations
    /\ started'   = started + 1
    /\ publisher' = started + 1
    /\ sending'   = sending \cup {started + 1}
    /\ UNCHANGED <<slotVars, consumerVars>>

\* The owning flow stops: first the registration goes, then the task's sender.
UnregisterPublisher ==
    /\ publisher # None
    /\ publisher' = None
    /\ UNCHANGED <<sending, started, slotVars, consumerVars>>

InputEnds ==
    \E g \in sending :
        /\ g # publisher
        /\ sending' = sending \ {g}
        /\ UNCHANGED <<publisher, started, slotVars, consumerVars>>

----------------------------------------------------------------------------
(* The demuxer's task. *)

\* Every sender of its channel is gone: the registry's and the input's task's.
Closed(s) == channel[s] # publisher /\ channel[s] \notin sending

\* Mutant: the task does not watch its token.
ExitsOnClose(s) == Closed(s)

\* It ends when its token is cancelled or its channel is closed.
Exits(s) == s \in cancelled \/ Closed(s)

\* It cancels its own token on the way out.
TaskExits(s) ==
    /\ s \in tasks
    /\ Exits(s)
    /\ tasks'     = tasks \ {s}
    /\ cancelled' = cancelled \cup {s}
    /\ UNCHANGED <<inputVars, mapped, spawned, channel, refcount, consumerVars>>

\* A panic unwinds past that: the slot stays, not cancelled, without a task.
TaskPanics(s) ==
    /\ s \in tasks \cap Fragile
    /\ tasks' = tasks \ {s}
    /\ UNCHANGED <<inputVars, mapped, spawned, channel, cancelled, refcount, consumerVars>>

----------------------------------------------------------------------------
(* acquire_demuxer *)

Reusable(s) == s # None /\ s \notin cancelled

\* Under the shard lock: a mapped slot that is not cancelled is shared.
AcquireShared(c) ==
    /\ pc[c] = "idle"
    /\ Reusable(mapped)
    /\ held' = [held EXCEPT ![c] = mapped]
    /\ seen' = [seen EXCEPT ![c] = publisher]
    /\ pc'   = [pc EXCEPT ![c] = "acquiring"]
    /\ UNCHANGED <<inputVars, slotVars>>

\* Under the shard lock: no slot, or a cancelled one, which the new one replaces.
\* Without a publisher nothing is spawned, and acquire_demuxer returns None.
AcquireSpawned(c) ==
    /\ pc[c] = "idle"
    /\ ~ Reusable(mapped)
    /\ publisher # None
    /\ spawned < MaxSlots
    /\ LET s == spawned + 1
       IN  /\ spawned'   = s
           /\ mapped'    = s
           /\ channel'   = [channel EXCEPT ![s] = publisher]
           /\ cancelled' = cancelled \ {s}
           /\ tasks'     = tasks \cup {s}
           /\ held'      = [held EXCEPT ![c] = s]
    /\ seen' = [seen EXCEPT ![c] = publisher]
    /\ pc'   = [pc EXCEPT ![c] = "acquiring"]
    /\ UNCHANGED <<inputVars, refcount>>

\* Mutant: only the acquisition that spawned the demuxer is counted.
CountFirst(c) ==
    /\ pc[c] = "acquiring"
    /\ refcount' = [refcount EXCEPT ![held[c]] = 1]
    /\ pc'       = [pc EXCEPT ![c] = "holding"]
    /\ UNCHANGED <<inputVars, mapped, spawned, channel, cancelled, tasks, held, seen>>

\* After the lock: the handle is counted.
Count(c) ==
    /\ pc[c] = "acquiring"
    /\ refcount' = [refcount EXCEPT ![held[c]] = @ + 1]
    /\ pc'       = [pc EXCEPT ![c] = "holding"]
    /\ UNCHANGED <<inputVars, mapped, spawned, channel, cancelled, tasks, held, seen>>

----------------------------------------------------------------------------
(* DemuxerHandle::drop *)

\* Mutant: the last handle dropped is not told from the others.
LastIsZero(c) == refcount[held[c]] = 0

\* fetch_sub returned one.
IsLast(c) == refcount[held[c]] = 1

DropHandle(c) ==
    /\ pc[c] = "holding"
    /\ refcount' = [refcount EXCEPT ![held[c]] = @ - 1]
    /\ IF IsLast(c)
       THEN pc' = [pc EXCEPT ![c] = "cancelling"] /\ UNCHANGED held
       ELSE pc' = [pc EXCEPT ![c] = "idle"] /\ held' = [held EXCEPT ![c] = None]
    /\ seen' = [seen EXCEPT ![c] = None]
    /\ UNCHANGED <<inputVars, mapped, spawned, channel, cancelled, tasks>>

CancelSlot(c) ==
    /\ pc[c] = "cancelling"
    /\ cancelled' = cancelled \cup {held[c]}
    /\ pc'        = [pc EXCEPT ![c] = "removing"]
    /\ UNCHANGED <<inputVars, mapped, spawned, channel, refcount, tasks, held, seen>>

\* Mutant: the entry is removed by its key alone.
RemovedByKey(c) == None

\* remove_if: only the slot this handle had.
Removed(c) == IF mapped = held[c] THEN None ELSE mapped

RemoveSlot(c) ==
    /\ pc[c] = "removing"
    /\ mapped' = Removed(c)
    /\ pc'     = [pc EXCEPT ![c] = "idle"]
    /\ held'   = [held EXCEPT ![c] = None]
    /\ UNCHANGED <<inputVars, spawned, channel, cancelled, refcount, tasks, seen>>

----------------------------------------------------------------------------

Init ==
    /\ publisher = None /\ sending = {} /\ started = 0
    /\ mapped = None /\ spawned = 0
    /\ channel = [s \in Slots |-> None]
    /\ cancelled = Slots /\ tasks = {}
    /\ refcount = [s \in Slots |-> 0]
    /\ pc = [c \in Consumers |-> "idle"]
    /\ held = [c \in Consumers |-> None]
    /\ seen = [c \in Consumers |-> None]

Step(c) ==
    \/ AcquireShared(c) \/ AcquireSpawned(c) \/ Count(c)
    \/ DropHandle(c) \/ CancelSlot(c) \/ RemoveSlot(c)

Next ==
    \/ RegisterPublisher \/ UnregisterPublisher \/ InputEnds
    \/ \E s \in Slots : TaskExits(s) \/ TaskPanics(s)
    \/ \E c \in Consumers : Step(c)

\* A drop and an acquisition once begun finish; a task sees its cancelled token.
Fairness ==
    /\ \A s \in Slots : WF_vars(TaskExits(s))
    /\ \A c \in Consumers :
          WF_vars(Count(c)) /\ WF_vars(CancelSlot(c)) /\ WF_vars(RemoveSlot(c))

Spec == Init /\ [][Next]_vars /\ Fairness

----------------------------------------------------------------------------

(* Every variable has its type; the counts never go below zero (they are    *)
(* AtomicUsize) or above the consumers.                                     *)
TypeOK ==
    /\ publisher \in Generations \cup {None}
    /\ sending \subseteq Generations
    /\ started \in 0 .. MaxGenerations
    /\ mapped \in Slots \cup {None}
    /\ spawned \in 0 .. MaxSlots
    /\ channel \in [Slots -> Generations \cup {None}]
    /\ cancelled \subseteq Slots /\ tasks \subseteq Slots
    /\ refcount \in [Slots -> 0 .. Cardinality(Consumers)]
    /\ pc \in [Consumers -> {"idle", "acquiring", "holding", "cancelling", "removing"}]
    /\ held \in [Consumers -> Slots \cup {None}]
    /\ seen \in [Consumers -> Generations \cup {None}]

(* There is at most one demuxer of the input that is not cancelled, the one *)
(* in the registry: two would publish every elementary stream twice.  The   *)
(* drop of a handle whose slot was replaced meanwhile must not evict the    *)
(* successor.                                                               *)
OneLiveDemuxer == \A s \in Slots : s \notin cancelled => mapped = s

(* A demuxer that is not cancelled is in somebody's hands: no interleaving  *)
(* of acquisitions and drops leaves one running for nobody, with a count    *)
(* that no later drop brings to zero.                                       *)
NoOrphanDemuxer == \A s \in Slots : s \notin cancelled => \E c \in Consumers : held[c] = s

(* Once nobody has a demuxer, or the input it received from has stopped,    *)
(* its task ends and its slot is cancelled, so that nobody is given a       *)
(* demuxer that can never follow the input's next start - unless the task   *)
(* panicked.                                                                *)
AbandonedTaskEnds ==
    \A s \in Slots :
        (Closed(s) \/ \A c \in Consumers : held[c] # s)
            ~> (s \notin tasks /\ s \in cancelled \cup Fragile)

(* A consumer that has acquired a demuxer is served: as long as the input   *)
(* keeps the publisher it had when the consumer looked the demuxer up, the  *)
(* demuxer is not cancelled and receives from that publisher.               *)
AcquiredDemuxerServes ==
    \A c \in Consumers :
        pc[c] = "holding" /\ publisher # None /\ publisher = seen[c]
            => held[c] \notin cancelled /\ channel[held[c]] = publisher

=============================================================================
