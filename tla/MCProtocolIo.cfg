SPECIFICATION Spec
CONSTANTS
  Modes <- MCModes
  MaxCaptures = 2
  MaxEvents = 3
CHECK_DEADLOCK FALSE
INVARIANT
  StartedIsServed
  OneLoopEach
  QuietWhenReset
PROPERTY
  NothingHangs
