----------------------------- MODULE DisplayPort -----------------------------
(***************************************************************************)
(* What the display claim registry promises to the display outputs of the  *)
(* edge: a physical port (connector and sound device) is a line of tasks,  *)
(* served first come, first served.  Only the task at the head of a port's *)
(* line drives the port, a task that arrives at an idle port drives it at  *)
(* once, and a task may leave its line whenever it likes.                  *)
(***************************************************************************)
EXTENDS Naturals, Sequences, Queues

CONSTANTS Tasks,    \* the display tasks, one per start of a display output
          Ports,    \* the physical ports
          PortOf    \* the port each task is configured for

VARIABLES line,     \* line[p]: the tasks at port p in the order they came
          driving,  \* the tasks that drive their port
          arrived   \* the tasks that have come to their port so far

lineVars == <<line, driving, arrived>>

Without(s, t) == Retain(s, Tasks \ {t})

InLine(t) == \E i \in DOMAIN line[PortOf[t]] : line[PortOf[t]][i] = t

Init ==
  /\ line = [p \in Ports |-> <<>>]
  /\ driving = {}
  /\ arrived = {}

(* A task comes to its port; an idle port is its own at once.              *)
Arrive(t) ==
  /\ t \notin arrived
  /\ arrived' = arrived \cup {t}
  /\ line' = [line EXCEPT ![PortOf[t]] = Append(@, t)]
  /\ driving' = IF line[PortOf[t]] = <<>> THEN driving \cup {t} ELSE driving

(* A task comes to its port and turns round.                               *)
PassBy(t) ==
  /\ t \notin arrived
  /\ arrived' = arrived \cup {t}
  /\ UNCHANGED <<line, driving>>

(* The head of the line starts to drive the port.                          *)
Enter(t) ==
  /\ line[PortOf[t]] # <<>>
  /\ Head(line[PortOf[t]]) = t
  /\ t \notin driving
  /\ driving' = driving \cup {t}
  /\ UNCHANGED <<line, arrived>>

(* A task stops driving, or waits no longer.                               *)
Leave(t) ==
  /\ InLine(t)
  /\ line' = [line EXCEPT ![PortOf[t]] = Without(@, t)]
  /\ driving' = driving \ {t}
  /\ UNCHANGED arrived

Next == \E t \in Tasks : Arrive(t) \/ PassBy(t) \/ Enter(t) \/ Leave(t)

Spec == Init /\ [][Next]_lineVars
=============================================================================
