SPECIFICATION Spec
CONSTANTS
  M = 4
  MaxClients = 2
  MaxFiles = 2
  FileSizes = {1, 3}
  Contexts = {c1}
  NULL = NULL
VIEW CurrentState
INVARIANT CellsInRegion
