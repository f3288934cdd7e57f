CONSTANTS
  Threads = {t1, t2, t3, t4}
  None = None
SPECIFICATION Spec
INVARIANTS
  MutualExclusion
PROPERTIES
  NodesAreOnlyBorrowed
  FifoSpec
