\* A process closure that owns the trigger drops it on the data thread.
SPECIFICATION Spec
CONSTANTS
  p1 = p1
  b1 = b1
  b2 = b2
  Port = {p1}
  Lease = {b1, b2}
  PortOf <- BufferPorts
  Program <- TriggerPrograms
INVARIANTS
  CountedOnControlThread
CHECK_DEADLOCK FALSE
