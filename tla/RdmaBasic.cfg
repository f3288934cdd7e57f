CONSTANTS
  Clients = {c1, c2}
  Server = server
SPECIFICATION Spec
CHECK_DEADLOCK FALSE
INVARIANTS
  OnlyAFreedConnectionKills
  DisconnectsAfterTheSwap
  SleepsOnlyWhenDrained
PROPERTY EveryClientEnds
