SPECIFICATION FairSpec
CONSTANTS
  Threads = {t1, t2, t3}
  MaxBuffers = 4
INVARIANTS PoolConsistent PacketKept NoMoreThanSenders
PROPERTIES ImplementsMutex SomebodyEnters
