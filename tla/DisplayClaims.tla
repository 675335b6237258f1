---------------------------- MODULE DisplayClaims ----------------------------
(***************************************************************************)
(* The per-edge registry of display claims (src/src/display/               *)
(* claim_registry.rs) and the display tasks that use it (the head and the  *)
(* end of run_display_output, src/src/engine/output_display.rs).           *)
(*                                                                         *)
(* A task is one start of a display output.  It claims its port, waits for *)
(* its turn if the port is taken, drives the port while it keeps the Guard *)
(* and exits.  The registry knows outputs, not tasks: the holder of a port *)
(* is recorded by output id, and releases and withdrawals name it.         *)
(*                                                                         *)
(* The shard lock of the registry's map is held for the whole of each      *)
(* registry call, so each of them is one step.                             *)
(***************************************************************************)
EXTENDS Naturals, Sequences, FiniteSets, Queues

CONSTANTS Tasks,      \* starts of display outputs
          Outputs,    \* ids of display outputs
          Ports,      \* ClaimKeys: connector and sound device
          OutputOf,   \* the output a task is a start of
          PortOf,     \* the port the task's configuration names
          Overlaps,   \* may a second task of an output start beside the first
          Nobody      \* a port without a holder

ASSUME DisplayAssumption ==
  /\ OutputOf \in [Tasks -> Outputs]
  /\ PortOf \in [Tasks -> Ports]
  /\ Nobody \notin Outputs
  /\ Overlaps \in BOOLEAN

VARIABLES holder,     \* KeyState.holder of each port: an output id
          waiters,    \* KeyState.waiters: the queued tasks, oldest first
          at,         \* where each task is
          cancelled,  \* tasks whose cancel token has fired
          notified    \* tasks whose Notify holds a permit

vars == <<holder, waiters, at, cancelled, notified>>

Init ==
  /\ holder = [p \in Ports |-> Nobody]
  /\ waiters = [p \in Ports |-> <<>>]
  /\ at = [t \in Tasks |-> "new"]
  /\ cancelled = {}
  /\ notified = {}

Active(t) == at[t] \in {"waiting", "holding"}

Siblings(t) == {u \in Tasks \ {t} : OutputOf[u] = OutputOf[t]}

------------------------------------------------------------------------------
(* The promotion loop shared by release_and_promote and cancel_or_release: *)
(* waiters are popped until one is found whose token has not fired; it     *)
(* becomes the holder and is notified.                                     *)
AllCancelled(q) == \A i \in DOMAIN q : q[i] \in cancelled

(* Mutant: the queue is popped from its back.                              *)
LastLive(q) ==
  CHOOSE i \in DOMAIN q : /\ q[i] \notin cancelled
                          /\ \A j \in (i + 1)..Len(q) : q[j] \in cancelled

FirstLive(q) ==
  CHOOSE i \in DOMAIN q : /\ q[i] \notin cancelled
                          /\ \A j \in 1..(i - 1) : q[j] \in cancelled

Promote(p) ==
  LET q == waiters[p]
      i == FirstLive(q)
  IN IF AllCancelled(q)
     THEN /\ holder' = [holder EXCEPT ![p] = Nobody]
          /\ waiters' = [waiters EXCEPT ![p] = <<>>]
          /\ UNCHANGED notified
     ELSE /\ holder' = [holder EXCEPT ![p] = OutputOf[q[i]]]
          /\ waiters' = [waiters EXCEPT ![p] = SubSeq(q, i + 1, Len(q))]
          /\ notified' = notified \cup {q[i]}

(* Guard::drop: a release by an output that is not the holder does nothing.*)
release_and_promote(p, o) ==
  IF holder[p] = o
  THEN Promote(p)
  ELSE UNCHANGED <<holder, waiters, notified>>

(* The tasks whose waiters pass retain(|w| w.output_id != o).              *)
TasksOfOthers(o) == {u \in Tasks : OutputOf[u] # o}

(* Mutant: a wait that ends only withdraws from the queue.                 *)
WithdrawOnly(p, o) ==
  /\ waiters' = [waiters EXCEPT
                   ![p] = Retain(@, TasksOfOthers(o))]
  /\ UNCHANGED <<holder, notified>>

(* Mutant: the slot is vacated and the next waiter left asleep.            *)
VacateOnly(p, o) ==
  IF holder[p] = o
  THEN /\ holder' = [holder EXCEPT ![p] = Nobody]
       /\ UNCHANGED <<waiters, notified>>
  ELSE /\ waiters' = [waiters EXCEPT
                        ![p] = Retain(@, TasksOfOthers(o))]
       /\ UNCHANGED <<holder, notified>>

(* Cleanup::drop of a wait that ends without a grant: the holder's slot is *)
(* given on if the registry names this output, and otherwise every entry   *)
(* of the output leaves the queue.                                         *)
cancel_or_release(p, o) ==
  IF holder[p] = o
  THEN Promote(p)
  ELSE /\ waiters' = [waiters EXCEPT
                        ![p] = Retain(@, TasksOfOthers(o))]
       /\ UNCHANGED <<holder, notified>>

------------------------------------------------------------------------------
(* Mutant: a port with an empty queue counts as free.                      *)
FreeOfWaiters(p) == waiters[p] = <<>>

Free(p) == holder[p] = Nobody /\ waiters[p] = <<>>

(* A task starts and claims its port.  remove_output waits for the task of *)
(* an output to end before another is started.  An older task is still     *)
(* there (Overlaps) when a flow's stop has waited 5 s for it and lets it   *)
(* go, after a flow's start that failed, which cancels its tasks without   *)
(* waiting, and when two add_output of one output overlap.                 *)
try_claim(t) ==
  LET p == PortOf[t]
      free == Free(p)
  IN /\ at[t] = "new"
     /\ Overlaps \/ \A u \in Siblings(t) : ~Active(u)
     /\ at' = [at EXCEPT ![t] = IF free THEN "holding" ELSE "waiting"]
     /\ holder' = IF free THEN [holder EXCEPT ![p] = OutputOf[t]] ELSE holder
     /\ waiters' = IF free THEN waiters
                           ELSE [waiters EXCEPT ![p] = Append(@, t)]
     /\ UNCHANGED <<cancelled, notified>>

(* The flow stops, the output is removed or switched off: the token of the *)
(* task fires, whether or not the task has run yet.                        *)
Cancel(t) ==
  /\ at[t] # "gone"
  /\ t \notin cancelled
  /\ cancelled' = cancelled \cup {t}
  /\ UNCHANGED <<holder, waiters, at, notified>>

(* wait_for_grant, notified arm: the select is biased, so a token that has *)
(* fired wins over a permit.                                               *)
Granted(t) ==
  /\ at[t] = "waiting"
  /\ t \notin cancelled
  /\ t \in notified
  /\ at' = [at EXCEPT ![t] = "holding"]
  /\ notified' = notified \ {t}
  /\ UNCHANGED <<holder, waiters, cancelled>>

(* wait_for_grant, cancelled arm.                                          *)
GiveUp(t) ==
  /\ at[t] = "waiting"
  /\ t \in cancelled
  /\ at' = [at EXCEPT ![t] = "gone"]
  /\ cancel_or_release(PortOf[t], OutputOf[t])
  /\ UNCHANGED cancelled

(* The task ends and drops its Guard: cancelled and drained, or a fatal    *)
(* error of the port.                                                      *)
Release(t) ==
  /\ at[t] = "holding"
  /\ at' = [at EXCEPT ![t] = "gone"]
  /\ release_and_promote(PortOf[t], OutputOf[t])
  /\ UNCHANGED cancelled

Step(t) == try_claim(t) \/ Cancel(t) \/ Granted(t) \/ GiveUp(t) \/ Release(t)

Next == \E t \in Tasks : Step(t)

(* The runtime polls a task that can go on; a cancelled holder drains for  *)
(* at most DISPLAY_DRAIN_GRACE and returns.  A holder nobody cancels may   *)
(* keep its port for ever.                                                 *)
Fairness ==
  \A t \in Tasks : /\ WF_vars(Granted(t))
                   /\ WF_vars(GiveUp(t))
                   /\ WF_vars(t \in cancelled /\ Release(t))

Spec == Init /\ [][Next]_vars /\ Fairness

------------------------------------------------------------------------------
(* The tasks that own port p: the driving one, or the one that has been    *)
(* promoted and has not been polled since.                                 *)
Owners(p) ==
  {t \in Tasks : /\ PortOf[t] = p
                 /\ \/ at[t] = "holding"
                    \/ at[t] = "waiting" /\ t \in notified}

(* One master per connector: two tasks never own one port, whatever the    *)
(* order of releases, cancellations and promotions (Guard, WaitTicket).    *)
OneOwner == \A p \in Ports : \A t, u \in Owners(p) : t = u

(* No promotion is lost: a port that the registry says is taken has a task *)
(* that will give it on, and no live task waits at a port that is free.    *)
NoStrandedPort ==
  \A p \in Ports :
    /\ holder[p] # Nobody => \E t \in Owners(p) : OutputOf[t] = holder[p]
    /\ holder[p] = Nobody =>
         \A t \in Tasks : PortOf[t] = p /\ at[t] = "waiting" => t \in cancelled

(* A waiter with only cancelled tasks before it is served or gives up: the *)
(* holder's drain, the cancelled waiters and the promotion chain end.      *)
Queued(t, i) == i \in DOMAIN waiters[PortOf[t]] /\ waiters[PortOf[t]][i] = t

NextInLine(t) ==
  /\ at[t] = "waiting"
  /\ Owners(PortOf[t]) \subseteq cancelled \cup {t}
  /\ \A i \in DOMAIN waiters[PortOf[t]] :
       Queued(t, i) => \A j \in 1..(i - 1) : waiters[PortOf[t]][j] \in cancelled

WaiterServed == \A t \in Tasks : NextInLine(t) ~> at[t] # "waiting"

------------------------------------------------------------------------------
(* The registry implements the line of DisplayPort: the owner of a port is *)
(* the head of its line and the waiters whose tokens have not fired follow *)
(* it; a token that fires takes a waiter out of the line.                  *)
Owner(p) == CHOOSE t \in Owners(p) : TRUE

LineOf(p) ==
  LET live == Retain(waiters[p], Tasks \ cancelled)
  IN IF Owners(p) = {} THEN live ELSE <<Owner(p)>> \o live

Port == INSTANCE DisplayPort
          WITH line <- [p \in Ports |-> LineOf(p)],
               driving <- {t \in Tasks : at[t] = "holding"},
               arrived <- {t \in Tasks : at[t] # "new"}

(* First come, first served: every step of the registry and of its tasks   *)
(* is a step of the line, so only the oldest live waiter is ever promoted. *)
ServesInOrder == Port!Spec
=============================================================================
