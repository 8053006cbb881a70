SPECIFICATION LocksSpec
CONSTANTS
  Threads = {t1, t2, t3}
  RwThreads = {t1, t2, t3, t4}
  None = None
  MAX_COMPLETIONS = 2
  SEM_VALUE_MAX = 2
  InitialValue = 1
INVARIANTS MutualExclusion NoStrandedWaiter RwsemHolds NothingIsLost
PROPERTIES LockReturns WriterReturns
