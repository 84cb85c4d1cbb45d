SPECIFICATION Spec
CONSTANTS
  Null = Null
  p = p  c = c  g = g  q = q
  Sandboxes = {p, c, g}
  From <- ForkFrom
  SlotOf <- ForkSlots
  MaxFaults = 0
PROPERTIES OnlyOwnCallsEndAVM
CHECK_DEADLOCK FALSE
