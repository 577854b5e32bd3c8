\* A Vec that is appended to and cannot grow past 80 bytes, a builder on an old
\* Vec, what they wrote given to both readers, and slices from elsewhere: as
\* written, cut short, continued and with one word changed.
SPECIFICATION RoundTripSpec
CONSTANTS
  Modulus = 1024
  Leaf <- MixedLeaves
  Key <- OneKey
  Child <- IntAndLongElements
  Existing = 8
  Start = 8
  Capacity = 80
  MaxDepth = 3
  MaxItems = 2
  Input <- Inputs
  Asked <- AskedTypes
  MaxExtra = 1
  BuiltLeaf <- BuiltLeaves
  BuiltKey <- EnumKey
  BuiltDepth = 3
  BuiltItems = 2
  MaxLength = 40
  OldLength = 20
  ParsedType <- ParsedTypes
  MaxHandedOver = 56
INVARIANTS
  CountersAreExact
  OutputIsEncoding
  SlicesAreReadWhole
  BuiltIsEncoding
  FramesMatchContainers
  ParsedIsWritten
PROPERTIES
  EndSeeksBack
  LeftAtItsEnd
\* A pod that is complete is returned.
CHECK_DEADLOCK FALSE
