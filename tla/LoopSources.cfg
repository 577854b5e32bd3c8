\* An event and an idle source on the control thread's own loop, a timer on
\* another thread's.
SPECIFICATION FairSpec
CONSTANTS
  s1 = s1
  s2 = s2
  s3 = s3
  Source = {s1, s2, s3}
  Kind <- Kinds
  NoSource = NoSource
  MaxExpirations = 2
  MaxDepth = 3
INVARIANTS
  RegisteredHasClosure
  RunningClosureAlive
  DisarmedIsQuiet
  NoLostClosure
  NoSignalLost
  Balanced
PROPERTIES
  SignalledIsCalled
