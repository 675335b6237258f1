----------------------------- MODULE FlowRegistry -----------------------------
(***************************************************************************)
(* The life cycle of media flows (src/src/engine/manager.rs: create_flow,  *)
(* destroy_flow, restart_from_config, start_flow_group, stop_flow_group,   *)
(* stop_all; src/src/engine/flow.rs: FlowRuntime::start, StartUnwind,      *)
(* FlowRuntime::stop).                                                     *)
(*                                                                         *)
(* Commands are tasks of the REST server and of the manager connection;    *)
(* nothing orders them.  A command works on one flow, or on several at     *)
(* once (a group, a whole new configuration), and for each of them it is   *)
(* at some stage.  A step is the code between two accesses of the          *)
(* registry's maps or between two awaits.  A run is one FlowRuntime: the   *)
(* registry, the statistics and the input publishers are keyed by flow,    *)
(* and each entry belongs to some run.                                     *)
(***************************************************************************)
EXTENDS Naturals, FiniteSets

CONSTANTS Flows,      \* flow ids; the inputs of a flow are its own
          Commands,   \* commands under way at one time
          MaxCommands \* commands over a behaviour

ASSUME RegistryBounds ==
  /\ IsFiniteSet(Flows) /\ IsFiniteSet(Commands)
  /\ MaxCommands \in Nat /\ Flows # {}

(* The runs of a flow are numbered from 1.                                 *)
None == 0

VARIABLES flows,      \* FlowManager.flows: the run of each flow, or None
          stopping,   \* FlowManager.stopping
          stats,      \* StatsCollector.flow_stats: the run whose accumulator it is
          publisher,  \* FlowManager.input_publishers, of the flow's inputs
          live,       \* live[f]: runs of f whose tasks run, started and not cancelled
          made,       \* made[f]: runs of f started so far
          op,         \* what each command does
          members,    \* the flows it does it to
          at,         \* at[c][f]: how far it is with f
          hand,       \* hand[c][f]: the run it is starting or stopping
          issued,     \* commands begun so far
          overlapped, \* history: flows two commands have worked on at once
          uncounted   \* history: flows torn down with their statistics left

maps == <<flows, stopping, stats, publisher>>
runVars == <<live, made>>
cmdVars == <<op, members, issued, overlapped>>
vars == <<maps, runVars, cmdVars, at, hand, uncounted>>

Settled == {"none", "ok", "failed", "absent", "stopped"}
Stages == Settled \cup {"check", "start", "starting", "remove", "mark", "stopping",
                        "sweep", "swept", "draining"}
Ops == {"idle", "create", "destroy", "restart", "group_start", "group_stop",
        "replace", "recreate"}

(* The node has come up: main has created the enabled flows in turn, and   *)
(* those that started run.                                                 *)
Init ==
  /\ \E up \in SUBSET Flows :
       flows = [f \in Flows |-> IF f \in up THEN 1 ELSE None]
  /\ made = flows
  /\ live = [f \in Flows |-> {flows[f]} \ {None}]
  /\ stats = flows
  /\ publisher = flows
  /\ stopping = {}
  /\ op = [c \in Commands |-> "idle"]
  /\ members = [c \in Commands |-> {}]
  /\ at = [c \in Commands |-> [f \in Flows |-> "none"]]
  /\ hand = [c \in Commands |-> [f \in Flows |-> None]]
  /\ issued = 0
  /\ overlapped = {}
  /\ uncounted = {}

To(c, f, stage) == at' = [at EXCEPT ![c][f] = stage]

------------------------------------------------------------------------------
(* create_flow                                                             *)

(* The gate, and the test that the flow does not run.  A refusal by the    *)
(* resource gate or by the assembly plan, before anything is registered,   *)
(* changes nothing.                                                        *)
CheckAbsent(c, f) ==
  /\ at[c][f] = "check"
  /\ \/ flows[f] = None /\ To(c, f, "start")
     \/ To(c, f, "failed")
  /\ UNCHANGED <<maps, runVars, cmdVars, hand, uncounted>>

(* Mutant: an accumulator already registered for the flow is kept.         *)
KeptStats(f, r) == IF stats[f] = None THEN r ELSE stats[f]

(* register_flow: the new run's accumulator replaces any other.            *)
RegisteredStats(f, r) == r

(* FlowRuntime::start up to its first await: the statistics, the input     *)
(* publishers and the tasks.                                               *)
StartRun(c, f) ==
  LET r == made[f] + 1 IN
  /\ at[c][f] = "start"
  /\ made' = [made EXCEPT ![f] = r]
  /\ live' = [live EXCEPT ![f] = @ \cup {r}]
  /\ stats' = [stats EXCEPT ![f] = RegisteredStats(f, r)]
  /\ publisher' = [publisher EXCEPT ![f] = r]
  /\ hand' = [hand EXCEPT ![c][f] = r]
  /\ uncounted' = uncounted \ {f}
  /\ To(c, f, "starting")
  /\ UNCHANGED <<flows, stopping, cmdVars>>

(* Mutant: the unwinding cancels the tasks and leaves the registrations.   *)
UnwindTasksOnly(c, f) ==
  /\ live' = [live EXCEPT ![f] = @ \ {hand[c][f]}]
  /\ UNCHANGED <<stats, publisher>>

(* StartUnwind::drop: the registrations are removed by id.                 *)
Unwind(c, f) ==
  /\ publisher' = [publisher EXCEPT ![f] = None]
  /\ live' = [live EXCEPT ![f] = @ \ {hand[c][f]}]
  /\ stats' = [stats EXCEPT ![f] = None]

(* start fails at or after its first await, or the request it serves is    *)
(* dropped there.                                                          *)
StartFails(c, f) ==
  /\ at[c][f] = "starting"
  /\ Unwind(c, f)
  /\ To(c, f, "failed")
  /\ UNCHANGED <<flows, stopping, made, cmdVars, hand, uncounted>>

(* start returns: the run enters the registry.  A run that was there is    *)
(* dropped from it; nothing cancels its tasks.                             *)
InsertRun(c, f) ==
  /\ at[c][f] = "starting"
  /\ flows' = [flows EXCEPT ![f] = hand[c][f]]
  /\ To(c, f, "ok")
  /\ UNCHANGED <<stopping, stats, publisher, runVars, cmdVars, hand, uncounted>>

------------------------------------------------------------------------------
(* destroy_flow                                                            *)

(* Mutant: the entry is read and left in the registry.                     *)
LeftInRegistry(f) == flows[f]

(* flows.remove                                                            *)
AfterRemove(f) == None

RemoveRun(c, f) ==
  /\ at[c][f] = "remove"
  /\ IF flows[f] = None
     THEN /\ To(c, f, "absent")
          /\ UNCHANGED <<flows, hand>>
     ELSE /\ hand' = [hand EXCEPT ![c][f] = flows[f]]
          /\ flows' = [flows EXCEPT ![f] = AfterRemove(f)]
          /\ To(c, f, "mark")
  /\ UNCHANGED <<stopping, stats, publisher, runVars, cmdVars, uncounted>>

(* The stopping mark, and stop() up to its first await: the publishers are *)
(* unregistered by id and the token of the flow is cancelled.              *)
StopRun(c, f) ==
  /\ at[c][f] = "mark"
  /\ stopping' = stopping \cup {f}
  /\ publisher' = [publisher EXCEPT ![f] = None]
  /\ live' = [live EXCEPT ![f] = @ \ {hand[c][f]}]
  /\ To(c, f, "stopping")
  /\ UNCHANGED <<flows, stats, made, cmdVars, hand, uncounted>>

(* The tasks have ended: the statistics are unregistered by id, and the    *)
(* StoppingGuard clears the mark.                                          *)
StopDone(c, f) ==
  /\ at[c][f] = "stopping"
  /\ stats' = [stats EXCEPT ![f] = None]
  /\ stopping' = stopping \ {f}
  /\ To(c, f, "stopped")
  /\ UNCHANGED <<flows, publisher, runVars, cmdVars, hand, uncounted>>

(* Mutant: the mark is cleared at the end of destroy_flow only.            *)
MarkAfterPanic(f) == stopping

(* StoppingGuard::drop                                                     *)
MarkAfterUnwind(f) == stopping \ {f}

(* stop() panics, or the request is dropped while it waits: the guard      *)
(* clears the mark, and the rest of destroy_flow is not reached.           *)
StopInterrupted(c, f) ==
  /\ at[c][f] = "stopping"
  /\ op[c] \in {"destroy", "restart"}
  /\ stopping' = MarkAfterUnwind(f)
  /\ uncounted' = uncounted \cup {f}
  /\ op' = [op EXCEPT ![c] = "destroy"]
  /\ To(c, f, "stopped")
  /\ UNCHANGED <<flows, stats, publisher, runVars, members, issued, overlapped, hand>>

------------------------------------------------------------------------------
(* stop_all, of a configuration that replaces the running one: the ids are *)
(* read, every run is removed, then all are stopped.  Neither the mark nor *)
(* the statistics are touched.                                             *)
SweepRun(c, f) ==
  /\ at[c][f] = "sweep"
  /\ hand' = [hand EXCEPT ![c][f] = flows[f]]
  /\ flows' = [flows EXCEPT ![f] = None]
  /\ To(c, f, IF flows[f] = None THEN "absent" ELSE "swept")
  /\ UNCHANGED <<stopping, stats, publisher, runVars, cmdVars, uncounted>>

DrainRun(c, f) ==
  /\ at[c][f] = "swept"
  /\ \A g \in Flows : at[c][g] # "sweep"
  /\ publisher' = [publisher EXCEPT ![f] = None]
  /\ live' = [live EXCEPT ![f] = @ \ {hand[c][f]}]
  /\ uncounted' = uncounted \cup {f}
  /\ To(c, f, "draining")
  /\ UNCHANGED <<flows, stopping, stats, made, cmdVars, hand>>

DrainDone(c, f) ==
  /\ at[c][f] = "draining"
  /\ To(c, f, "stopped")
  /\ UNCHANGED <<maps, runVars, cmdVars, hand, uncounted>>

------------------------------------------------------------------------------
(* The commands                                                            *)

Busy(c) == op[c] # "idle"

(* A new configuration concerns every flow.                                *)
Touches(o, ms) == IF o \in {"replace", "recreate"} THEN Flows ELSE ms

TouchedByOthers ==
  UNION {Touches(op[d], members[d]) : d \in {e \in Commands : Busy(e)}}

Begin(c, o, ms, stages) ==
  /\ ~Busy(c)
  /\ issued < MaxCommands
  /\ issued' = issued + 1
  /\ op' = [op EXCEPT ![c] = o]
  /\ members' = [members EXCEPT ![c] = ms]
  /\ at' = [at EXCEPT ![c] = stages]
  /\ overlapped' = overlapped \cup (Touches(o, ms) \cap TouchedByOthers)
  /\ UNCHANGED <<maps, runVars, hand, uncounted>>

Stage(ms, stage) == [f \in Flows |-> IF f \in ms THEN stage ELSE "none"]

BeginCreate(c) == \E f \in Flows : Begin(c, "create", {f}, Stage({f}, "check"))

BeginDestroy(c) == \E f \in Flows : Begin(c, "destroy", {f}, Stage({f}, "remove"))

BeginRestart(c) == \E f \in Flows : Begin(c, "restart", {f}, Stage({f}, "remove"))

(* start_flow_group refuses a group with a member that runs, and creates   *)
(* the members at once.                                                    *)
BeginGroupStart(c) ==
  \E ms \in SUBSET Flows \ {{}} :
    /\ \A f \in ms : flows[f] = None
    /\ Begin(c, "group_start", ms, Stage(ms, "check"))

BeginGroupStop(c) ==
  \E ms \in SUBSET Flows \ {{}} : Begin(c, "group_stop", ms, Stage(ms, "remove"))

(* replace_config and reload_config: stop_all of the flows that run, then  *)
(* ms, the enabled flows of the new configuration, in turn.                *)
BeginReplace(c) ==
  \E ms \in SUBSET Flows :
    Begin(c, "replace", ms, Stage({f \in Flows : flows[f] # None}, "sweep"))

AllSettled(c) == \A f \in Flows : at[c][f] \in Settled

RecreateNext(c) ==
  /\ op[c] \in {"replace", "recreate"}
  /\ AllSettled(c)
  /\ \E f \in members[c] :
       /\ members' = [members EXCEPT ![c] = @ \ {f}]
       /\ To(c, f, "check")
  /\ op' = [op EXCEPT ![c] = "recreate"]
  /\ UNCHANGED <<maps, runVars, issued, overlapped, hand, uncounted>>

(* restart_from_config: once the old run is gone, the new one is created.  *)
RestartStarts(c, f) ==
  /\ op[c] = "restart"
  /\ at[c][f] \in {"absent", "stopped"}
  /\ op' = [op EXCEPT ![c] = "create"]
  /\ To(c, f, "check")
  /\ UNCHANGED <<maps, runVars, members, issued, overlapped, hand, uncounted>>

(* Mutant: the member that failed last is taken for the only one started.  *)
RollsBackUnlessAlone(c) ==
  /\ op[c] = "group_start"
  /\ Cardinality({f \in Flows : at[c][f] = "failed"}) > 1

(* A group with a member that failed is stopped, member by member.         *)
RollsBack(c) ==
  /\ op[c] = "group_start"
  /\ \E f \in Flows : at[c][f] = "failed"

RollbackNext(c, f) ==
  /\ RollsBack(c)
  /\ AllSettled(c)
  /\ at[c][f] = "ok"
  /\ To(c, f, "remove")
  /\ UNCHANGED <<maps, runVars, cmdVars, hand, uncounted>>

End(c) ==
  /\ Busy(c)
  /\ AllSettled(c)
  /\ op[c] # "restart"
  /\ op[c] \in {"replace", "recreate"} => members[c] = {}
  /\ RollsBack(c) => \A f \in Flows : at[c][f] # "ok"
  /\ op' = [op EXCEPT ![c] = "idle"]
  /\ members' = [members EXCEPT ![c] = {}]
  /\ at' = [at EXCEPT ![c] = Stage({}, "none")]
  /\ hand' = [hand EXCEPT ![c] = [f \in Flows |-> None]]
  /\ UNCHANGED <<maps, runVars, issued, overlapped, uncounted>>

Work(c, f) ==
  \/ CheckAbsent(c, f) \/ StartRun(c, f) \/ StartFails(c, f) \/ InsertRun(c, f)
  \/ RemoveRun(c, f) \/ StopRun(c, f) \/ StopDone(c, f) \/ StopInterrupted(c, f)
  \/ SweepRun(c, f) \/ DrainRun(c, f) \/ DrainDone(c, f)
  \/ RestartStarts(c, f) \/ RollbackNext(c, f)

Commence(c) ==
  \/ BeginCreate(c) \/ BeginDestroy(c) \/ BeginRestart(c)
  \/ BeginGroupStart(c) \/ BeginGroupStop(c) \/ BeginReplace(c)

Next ==
  \E c \in Commands :
    \/ Commence(c) \/ RecreateNext(c) \/ End(c)
    \/ \E f \in Flows : Work(c, f)

(* A command once begun goes on: start and every wait of stop() are        *)
(* bounded in time.                                                        *)
Fairness ==
  \A c \in Commands :
    /\ \A f \in Flows : WF_vars(Work(c, f))
    /\ WF_vars(RecreateNext(c) \/ End(c))

Spec == Init /\ [][Next]_vars /\ Fairness

------------------------------------------------------------------------------
(* Every variable has its type. *)
TypeOK ==
  /\ flows \in [Flows -> Nat]
  /\ stopping \subseteq Flows
  /\ stats \in [Flows -> Nat]
  /\ publisher \in [Flows -> Nat]
  /\ live \in [Flows -> SUBSET (Nat \ {None})]
  /\ made \in [Flows -> Nat]
  /\ op \in [Commands -> Ops]
  /\ members \in [Commands -> SUBSET Flows]
  /\ at \in [Commands -> [Flows -> Stages]]
  /\ hand \in [Commands -> [Flows -> Nat]]
  /\ issued \in 0..MaxCommands
  /\ overlapped \subseteq Flows
  /\ uncounted \subseteq Flows

InHand(c, f) == at[c][f] \in {"starting", "mark", "stopping", "swept", "draining"}

(* Whatever the commands do to each other, the registry never names a run  *)
(* that has been told to stop, and no run is started or stopped by two     *)
(* commands: flows.remove hands a run to one of them.                      *)
RegisteredRunLives ==
  /\ \A f \in Flows : flows[f] # None => flows[f] \in live[f]
  /\ \A c, d \in Commands, f \in Flows :
       InHand(c, f) /\ InHand(d, f) /\ hand[c][f] = hand[d][f] => c = d

(* The run of a flow whose commands came one at a time is the flow's only  *)
(* live run, and its statistics and publishers are those of that run, over *)
(* failed starts, restarts, group roll-backs and new configurations.       *)
RegistrationsMatch ==
  \A f \in Flows \ overlapped :
    flows[f] # None => /\ live[f] = {flows[f]}
                       /\ stats[f] = flows[f]
                       /\ publisher[f] = flows[f]

(* Between such commands a flow that is not in the registry has left       *)
(* nothing behind: no task, no publisher, no stopping mark, and no         *)
(* statistics but where the teardown was interrupted or was stop_all's.    *)
NothingLeftBehind ==
  \A f \in Flows \ overlapped :
    flows[f] = None /\ f \notin TouchedByOthers
      => /\ live[f] = {}
         /\ publisher[f] = None
         /\ f \notin stopping
         /\ f \notin uncounted => stats[f] = None

(* start_flow_group is all or nothing: when it ends with a member that     *)
(* failed, none of the members only it has worked on runs.                 *)
GroupAllOrNothing ==
  [][\A c \in Commands :
       /\ op[c] = "group_start" /\ op'[c] = "idle"
       /\ \E f \in Flows : at[c][f] = "failed"
       =>
         \A f \in members[c] \ overlapped : live[f] = {} /\ flows[f] = None]_vars

(* A flow is not marked as stopping for ever, whichever teardowns overlap  *)
(* and wherever one is interrupted: commands refused for the mark can be   *)
(* retried.                                                                *)
StoppingEnds == \A f \in Flows : f \in stopping ~> f \notin stopping

(* "Flow creation and destruction are serialized per flow ID ..., so       *)
(* duplicate flow IDs are detected atomically": no run is replaced in the  *)
(* registry by another.                                                    *)
DuplicatesDetected ==
  [][\A f \in Flows : flows[f] # None => flows'[f] \in {flows[f], None}]_vars
=============================================================================
