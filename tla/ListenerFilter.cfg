SPECIFICATION CallbackSpec
CONSTANTS
  Main <- OnMain
  Data <- OnData
  CallbackThread <- Threads
  Kind = "filter"
  Event <- FilterEvents
  EmittedOn <- FilterEmits
  Nests <- FilterNests
  MaxDepth = 3
INVARIANTS
  ReferencesAreExclusive
  RunningClosureIsLive
