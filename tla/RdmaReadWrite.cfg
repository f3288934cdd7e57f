CONSTANT AcksFirst = TRUE
SPECIFICATION Spec
CHECK_DEADLOCK FALSE
INVARIANTS
  MrIsSentOnce
  PrintsThePeersMessage
  CutOffByAFinishedPeer
PROPERTY BothSidesEnd
