\* Two global ids and one proxy, which may be bound again and again.
SPECIFICATION Spec
CONSTANTS
  Null = Null
  None = None
  Untold = Untold
  Crash = Crash
  AsyncBit = 3
  p1 = p1
  p2 = p2
  Id = {1, 2}
  Proxy = {p1}
  Types = {"Node", "Port", "Device", "Client", "Link", "Module", "Factory", "Metadata"}
  New = {"Link"}
  MaxCalls = 4
  MaxChanges = 1
INVARIANTS
  BarrierHolds
  StaleBindIsTold
  EventsFitTheProxy
  MirrorsAgree
  CallsAreAnswered
CHECK_DEADLOCK FALSE
