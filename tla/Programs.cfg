\* The small programs, one per behaviour; they may stop.
CONSTANTS
  Conns = {1, 2}
  MsgSize = 3
  WarmUp = 2
  MaxCmds = 3
  SockRoom = 2
  TypedAhead = {"cd d", "quit"}
  NCpus = 3
  Rounds = 2
  BlockSize = 4
  BlockCount = 6
  MaxDepth = 7
  MaxThreads = 2
  MaxWarmUp = 1
  MaxIter = 2
  Skip = 1
  MaxLen = 5
  MaxLines = 3
  MaxTyped = 2
  MaxEchoed = 4
  Cells = 2
  Clients = {1, 2}
  Size = 2
  Space = 3
  Loops = 2
  Workers = 2
  MaxCount = 2
SPECIFICATION Spec
INVARIANTS
  SocketProtocolsHold
  ThreadsShareTheWork
  TextAgrees
  NumbersAgree
PROPERTIES
  ServerOutlivesClients
  ProgramsEnd
CHECK_DEADLOCK FALSE
