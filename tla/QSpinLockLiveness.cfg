CONSTANTS
  Threads = {t1, t2, t3}
  None = None
  PendingLoops = 1
SPECIFICATION Spec
PROPERTIES
  EveryLockerEnters
  FifoSpec
