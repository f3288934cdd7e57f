CONSTANTS
  Cpus = {c1, c2}
  locked = locked
  pending = pending
  tail = tail
  None = None
  Bits <- MCBits
  Calls <- MCCalls
  Plus <- MCPlus
  Minus <- MCMinus
  Neg <- MCNeg
SPECIFICATION Spec
INVARIANTS
  SleeperMissesNothing
PROPERTIES
  WaiterNotices
  FailuresMeanProgress
  IsAtomic
