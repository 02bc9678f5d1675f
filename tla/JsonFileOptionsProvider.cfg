SPECIFICATION Spec
CONSTANTS
  one = one  two = two
  Good <- MCGood
  Unparsable = Unparsable  Refused = Refused  Torn = Torn  Missing = Missing  Nothing = Nothing
  Optional = TRUE  Platforms = {"posix", "windows"}
  Kinds = {"write", "save", "fault", "crash", "reload"}  MaxEvents = 2
CHECK_DEADLOCK FALSE
INVARIANTS SaveIsAtomic NothingMissed
PROPERTIES SettlesOnFile WatcherEnds
