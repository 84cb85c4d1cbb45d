SPECIFICATION Spec
CONSTANTS
  Null = Null
  p = p  c = c  g = g  q = q
  Sandboxes = {p, c, g, q}
  From <- ChainFrom
  SlotOf <- ChainSlots
  MaxFaults = 3
INVARIANTS NothingOutlives BootsDoNotCollide
PROPERTIES SaveIsWholeOrFails OnlyOwnCallsEndAVM KeepsContract
CHECK_DEADLOCK FALSE
