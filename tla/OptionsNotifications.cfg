SPECIFICATION FairSpec
CONSTANTS
  t1 = t1  t2 = t2  a = a  b = b
  NoThread = NoThread
  Threads <- TwoThreads
  Slots <- TwoSlots
  MaxVersion = 3
  MaxDepth = 6
CHECK_DEADLOCK FALSE
INVARIANTS DispatchIsOrderly ResetFences
PROPERTIES ImplementsFeed ResetReturns
