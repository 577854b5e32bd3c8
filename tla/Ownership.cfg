\* Three programs: one whose callback data owns a port, a trigger and a buffer, with a
\* timer, used by the data thread while the control thread drops things in any order;
\* one with the shared objects of a context, the weak pointers to them, and a process
\* closure that may drop the trigger it owns; and one with a module.
SPECIFICATION FairSpec
CONSTANTS
  p1 = p1
  b1 = b1
  b2 = b2
  Port = {p1}
  Lease = {b1, b2}
  PortOf <- BufferPorts
  Program <- Programs
INVARIANTS
  CallbackSeesLiveData
  HandlesAreLive
  OnlyTheTriggerCountsElsewhere
PROPERTIES
  NothingLeaks
  ImplementsTree
\* Every object may be gone.
CHECK_DEADLOCK FALSE
