SPECIFICATION PresenterSpec
CONSTANTS
  left = left  right = right
  Images <- MCImages
  NoImage = NoImage
  Sizes = {1, 2}
  MaxFaults = 2
CHECK_DEADLOCK FALSE
INVARIANTS ObjectsLiveLongEnough CallsAreValid
PROPERTIES CallsReturn
