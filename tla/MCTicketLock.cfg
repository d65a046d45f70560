SPECIFICATION FairSpec
CONSTANTS
  Threads = {t1, t2, t3}
  W = 4
INVARIANTS TypeOK MutualExclusion TicketsInWindow
PROPERTIES ImplementsFifoMutex EventuallyServed
