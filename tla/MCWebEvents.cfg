SPECIFICATION Spec
CONSTANTS
  MaxTransitions = 2
  MaxChanges = 1
  MaxTicks = 1
  MaxHistory = 1
  MaxCallbacks = 1
CHECK_DEADLOCK FALSE
INVARIANT
  TypeOK
  ToldOnce
  PagesAreCurrent
  NothingMissed
