--------------------------- MODULE MCDisplayClaims ---------------------------
(* Three outputs at two ports.  Output o1 is started twice at one port and *)
(* o2 a second time at the other.                                          *)
EXTENDS DisplayClaims

CONSTANTS t1, t2, t3, t4, t5, o1, o2, o3, p1, p2

MCTasks == {t1, t2, t3, t4, t5}

MCOutputOf ==
  [t \in MCTasks |-> CASE t \in {t1, t4} -> o1
                       [] t \in {t2, t5} -> o2
                       [] OTHER -> o3]

MCPortOf == [t \in MCTasks |-> IF t = t5 THEN p2 ELSE p1]
=============================================================================
