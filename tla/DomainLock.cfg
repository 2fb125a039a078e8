\* Four handlers on two domains; three records, so that one can be replaced.
SPECIFICATION FairSpec
CONSTANTS
  Threads = {t1, t2, t3, t4}
  Keys = {k1, k2}
  Locks = {l1, l2, l3}
  NoThread = NoThread
  NoLock = NoLock
INVARIANTS TypeOK MutualExclusion NoLeak
PROPERTIES ImplementsKeyedMutex EveryoneIsServed
