CONSTANTS
  Threads = {t1, t2, t3, t4}
  None = None
  PendingLoops = 1
SPECIFICATION Spec
SYMMETRY Symmetry
INVARIANTS
  MutualExclusion
  HandOffReachesWaiter
  IInv
PROPERTY NodesOutsideQueueAreLeftAlone
