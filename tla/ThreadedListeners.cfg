\* A program thread and the loop thread; a stream with two listeners, dropped in any
\* order, and a module that may destroy itself.
SPECIFICATION FairSpec
CONSTANTS
  a1 = a1
  stream = stream
  mod = mod
  l1 = l1
  l2 = l2
  m = m
  App = {a1}
  Loop = loop
  Nobody = Nobody
  None = None
  MaxGuards = 1
  MaxCalls = 3
  MaxArrivals = 1
  Object = {stream, mod}
  Listener = {l1, l2, m}
  Of <- ListenerOf
  Module = {mod}
  MaxWalks = 1
  MaxEvents = 1
INVARIANTS
  ListsStayWhole
  DestroyedOnce
PROPERTIES
  DanglesOnlyIfOutlived
  CallsAreComplete
  LockedStopHangs
  EveryCallReturns
\* A program that has stopped its loop makes no more calls.
CHECK_DEADLOCK FALSE
