SPECIFICATION Spec
CONSTANTS
  M = 8
  Capacity = 5
  Offset = 3
INVARIANT
  HeldCanBeFreed
