SPECIFICATION FairSpec
CONSTANTS
  t1 = t1  t2 = t2  s1 = s1  s2 = s2  p1 = p1  p2 = p2
  NoThread = NoThread
  Thread <- TwoThreads
  Submits <- TwoSubmits
  Posts <- TwoPosts
CHECK_DEADLOCK FALSE
INVARIANTS TypeOK HeldExactlyOnce DrainedBeforeStop OwnPostsPrecedeNextEvent NoLostWakeup
PROPERTIES ImplementsExecutor RunMakesProgress
