SPECIFICATION Spec
CONSTANTS
  w1 = w1  w2 = w2  c1 = c1  c2 = c2  d1 = d1
  NoWindow = NoWindow
  Windows = {w1, w2}
  Contexts = {c1, c2}
  Devices = {d1}
  MaxVersion = 1
  PressKinds = {"key", "touch"}
  PlainKinds = {"text"}
  HeardKinds = {"key"}
  Wishes <- AllWishes
  MaxSubs = 1  MaxNative = 2  MaxRequests = 3  MaxBoth = 4
SYMMETRY Symmetry
CHECK_DEADLOCK FALSE
INVARIANTS DisabledHoldsNothing
