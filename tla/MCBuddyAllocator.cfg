SPECIFICATION Spec
CONSTANTS
  NumLevels <- MCNumLevels
  BlockSize <- MCBlockSize
  Requests  <- MCRequests
  NULL = NULL
VIEW CurrentState
INVARIANTS
  TypeOK
  NoOverlap
  NoLeak
  Coalesced
  HandlesExact
  FreeListsExact
  WholeAgain
  IndInv
PROPERTIES
  FailureAtomic
  ImplementsRegions
