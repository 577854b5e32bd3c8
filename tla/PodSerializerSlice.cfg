\* A slice of 64 bytes, written from its start: its end is not its position.
SPECIFICATION Spec
CONSTANTS
  Modulus = 65536
  Leaf <- FewLeaves
  Key <- OneKey
  Child <- IntElements
  Existing = 64
  Start = 0
  Capacity = 64
  MaxDepth = 2
  MaxItems = 2
PROPERTIES
  EndSeeksBack
CHECK_DEADLOCK FALSE
