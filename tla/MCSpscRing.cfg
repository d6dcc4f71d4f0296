SPECIFICATION Spec
CONSTANTS
  p1 = p1
  p2 = p2
  NoItem = NoItem
  Capacity = 4
  Items <- MCItems
INVARIANTS
  TypeOK
  ReservedSlotsSafe
  SlotsHoldPublishedItems
PROPERTY
  ImplementsFifo
