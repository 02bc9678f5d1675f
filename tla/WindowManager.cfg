SPECIFICATION Spec
CONSTANTS
  MaxWindows = 3  MaxStack = 3  Controlled = {2, 3}
  NoConfiguration = NoConfiguration
  ReentrantKinds <- Structural
  ReentrantFrames <- Closing
CHECK_DEADLOCK FALSE
INVARIANTS NothingLeftBehind SuppressedIsDisabled SuppressionIsCurrent
