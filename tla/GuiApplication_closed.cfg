SPECIFICATION GuiSpec
CONSTANTS
  Caller = Caller  Ender = Ender  User = User  App = App  NoThread = NoThread
  Thread <- MCThread
  Code <- MCCode
  ServiceCount = 2
CHECK_DEADLOCK FALSE
PROPERTIES ClosedRootStops
