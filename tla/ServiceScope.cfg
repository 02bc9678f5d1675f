SPECIFICATION FairSpec
CONSTANTS
  t1 = t1  t2 = t2  a = a  b = b
  NoScope = NoScope  NoThread = NoThread
  Threads <- TwoThreads
  Scopes <- TwoScopes
  MaxCleanups = 2  MaxInstances = 1
CHECK_DEADLOCK FALSE
INVARIANTS ParentsEndLast EndIsComplete
PROPERTIES SharedOutcome EndingEnds
