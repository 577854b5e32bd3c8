\* The programs of round_trip, which may call a builder or a parser again after a
\* container was left early.
SPECIFICATION RoundTripSpec
CONSTANTS
  Modulus = 1024
  Leaf <- MixedLeaves
  Key <- OneKey
  Child <- IntAndLongElements
  Existing = 8
  Start = 8
  Capacity = 80
  MaxDepth = 3
  MaxItems = 2
  Input <- Inputs
  Asked <- AskedTypes
  MaxExtra = 1
  BuiltLeaf <- BuiltLeaves
  BuiltKey <- EnumKey
  BuiltDepth = 3
  BuiltItems = 2
  MaxLength = 40
  OldLength = 20
  ParsedType <- ParsedTypes
  MaxHandedOver = 56
INVARIANTS
  LinkedFramesAreAlive
CHECK_DEADLOCK FALSE
