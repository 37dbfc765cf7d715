SPECIFICATION StoreSpec
CONSTANTS
  NumLevels = 3
  BlockSize <- MCBlockSize
  Requests  = {0, 1, 2, 4}
  NULL    = NULL
  SizeT   = 64
  Zero    = zero
  Uint32  = 8
  Values  = {v1, zero}
  Lengths = {0, 1, 2}
  Any     = any
VIEW CurrentState
INVARIANTS
  StoreTypeOK
  ReadYourWrites
PROPERTIES
  ImplementsBlockStore
  PastPoolRefused
