\* Integers of six bits for 32 and of eleven for 64.
SPECIFICATION ProcessingSpec
CONSTANTS
  IntMax = 31
  UsizeMax = 2047
  Elements <- MCElements
  Shapes <- MCShapes
  Layouts <- MCLayouts
  Rates <- MCRates
  RateChoices <- MCRateChoices
  Alternatives <- MCAlternatives
  LayoutLists <- MCLayoutLists
  MaxSizes = {0, 50}
  Addresses = {0, 2}
  Chunks <- MCChunks
  Tokens <- MCTokens
  Results <- MCResults
INVARIANTS
  AgreedIsOffered
  WrittenIsRead
  ControlsReadByOne
CHECK_DEADLOCK FALSE
