SPECIFICATION Spec
CONSTANTS
  M = 8
  Capacity = 5
  Offset = 2
INVARIANTS
  TypeOK
  StackExact
  FlagsExact
  CountExact
  HeldCanBeFreed
PROPERTY
  NeverHandedOutTwice
