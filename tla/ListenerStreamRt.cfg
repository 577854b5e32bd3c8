SPECIFICATION CallbackSpec
CONSTANTS
  Main <- OnMain
  Data <- OnData
  CallbackThread <- Threads
  Kind = "stream"
  Event <- StreamEvents
  EmittedOn <- StreamEmits
  Nests <- NoNests
  MaxDepth = 3
INVARIANT
  ReferencesAreExclusive
