SPECIFICATION CliSpec
CONSTANTS
  t1 = t1  t2 = t2  monitorThread = monitorThread  App = App  NoThread = NoThread
  Monitor <- monitorThread
  Thread <- Threads
  Code <- ExitCodes
  Signal <- Signals
  ServiceCount = 3
CHECK_DEADLOCK FALSE
INVARIANTS CliTypeOK TeardownOrder
PROPERTIES StopIsHonoured
