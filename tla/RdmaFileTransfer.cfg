CONSTANTS
  c1 = c1
  c2 = c2
  n1 = n1
  n2 = n2
  None = None
  Clients <- MCClients
  Namings <- MCNamings
  Chunks <- MCChunks
SPECIFICATION Spec
CHECK_DEADLOCK FALSE
INVARIANTS
  FilesAreInOrder
  DoneMeansWhole
  ContextIsNotInUse
  CompletionsSucceedAndFit
PROPERTIES
  BuffersAreFree
  EveryClientEnds
