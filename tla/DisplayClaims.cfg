SPECIFICATION Spec
CONSTANTS
  t1 = t1
  t2 = t2
  t3 = t3
  t4 = t4
  t5 = t5
  o1 = o1
  o2 = o2
  o3 = o3
  p1 = p1
  p2 = p2
  Tasks <- MCTasks
  Outputs = {o1, o2, o3}
  Ports = {p1, p2}
  OutputOf <- MCOutputOf
  PortOf <- MCPortOf
  Overlaps = FALSE
  Nobody = Nobody
INVARIANTS OneOwner NoStrandedPort
PROPERTIES WaiterServed ServesInOrder
CHECK_DEADLOCK FALSE
