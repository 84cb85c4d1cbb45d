SPECIFICATION Spec
CONSTANTS
  Null = Null
  p = p  c = c  g = g  q = q
  Sandboxes = {p, c, g, q}
  From <- ChainFrom
  SlotOf <- ChainSlots
  MaxFaults = 3
INVARIANTS SavedImageIsWhole
CHECK_DEADLOCK FALSE
